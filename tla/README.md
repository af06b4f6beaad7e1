# A verification project for the OpenXP kernel

TLA+ modules that model parts of `src/ntoskrnl`, model-checked with TLC on small
instances, and theorems about them checked by TLAPS for every instance.
`PROJECT.json` maps each definition to the source lines it models.

1. The system
2. Modules
3. Runs: bounds, fairness
4. Findings
5. Proofs
6. Assumptions of the models
7. Plan
8. What is not modelled

## 1. The system

The repository is an NT kernel in C: about a million lines in some twenty
subsystems, of which a handful of small primitives carry all the others. A
process's handle table, its primary token, its address space and every driver
callback are kept alive by rundown protection, fast references and push locks;
system services meet through LPC and keyed events; registry keys end up in hives
whose only defence against a crash is the order of fourteen writes and flushes.
That is the code modelled first: short, concurrent, without locks or across a
crash, and hardly reached by tests.

### Inventory

Status: **M** modelled, **P** partly, **–** not modelled (reasons in section 8).

| Part | State | What makes it hard | What must hold | Status |
|---|---|---|---|---|
| Rundown protection (`ex/rundown.c`, `inc/ex.h`) | one word, a wait block on the waiter's stack | compare-exchange races; a stack frame that others point to | nobody protected after the wait; the frame is live while used; the wait returns | M |
| Cache-aware rundown (`ex/rundown.c`) | a word per processor | counts that go below zero and wrap; a walk that is not atomic | the sum means something although no count does | M |
| Push locks (`ex/pushlock.c`) | one word, a chain of stack wait blocks | ownership of the chain; lost wake-ups; share counts moved into the chain | mutual exclusion, waiters remembered, acquires return | M |
| Fast references (`ob/fastref.c`, `se/token.c`) | pointer with cached references, object count | address reuse; swap without a lock | no reference lost or invented | P |
| Callbacks (`ex/callback.c`, `ps/create.c`, `config/cmhook.c`) | slots, routine blocks | removal against calls in progress | a block is not used after it is freed; removal returns | M |
| ERESOURCE (`ex/resource.c`) | owner table, waiters, counts | recursion, a table that grows under the owners, permits given before the waiter runs | one exclusive owner or sharers; nobody stranded | P |
| Handle tables, push lock block/unblock (`ex/handle.c`, `ex/pushlock.c`) | free lists, entries, growth | ABA on the free list; a contention event shared by all entries | a handle is in one place; sleepers are woken | P |
| Keyed events (`ex/keyedevent.c`) | list of waiters, a semaphore per thread | time-out against a match | one to one match, one wake-up | P |
| LPC (`lpc/`) | ports, queues, chains, a message per thread | termination of either side; late replies; ports deleted under a wait | a reply goes to its request; no message lost or freed twice | P |
| Hives (`config/hivesync.c`, `hiveload.c`, `hiveinit.c`) | memory image, dirty map, primary, log | a crash between any two writes; failed writes | a load returns one whole image | P |
| Lazy flusher (`config/cmworker.c`, `cmapi.c`) | timer, work item, sweep over the hives | a sweep in several work items; suspend | no dirty hive is passed over | P |
| Worker threads, dispatcher (`ex/worker.c`, `ke/`) | queues, wait blocks | multi-object waits, deferred ready | no lost wake-up | – |
| Object manager (`ob/`) | pointer and handle counts, names | last handle against lookup by name | no use after delete | – |
| Other registry code (`config/`) | key control blocks, trees, notifications | notification against close | – | – |
| I/O manager, FSRTL (`io/`, `fsrtl/`) | IRPs, locks, oplocks | cancel against completion; break against close | completed once | – |
| Cache manager, memory manager, plug and play, power | maps, pages, device tree | volume | – | – |
| Process structure, debugger support | processes, threads, jobs | exit against everything | – | – |
| Security, RTL, WMI, verifier, kd, HAL, start-up | – | sequential or hardware | – | – |

Interactions: the callbacks use fast references, rundown protection and a push
lock at once, and are the module in which the primitives meet. The handle table
takes its push locks as `RWLock` specifies them. LPC requests, LPC connections
and keyed events share a semaphore and a list entry in each thread, and are
checked together in `MCWaits`. Hives use the file interface of the I/O and cache
managers; the lazy flusher calls the sync that `Hive` models.

## 2. Modules

| Module | Models | Abstract specification | Model-checked by | Proofs |
|---|---|---|---|---|
| `Rundown` | `EX_RUNDOWN_REF` | `RundownSpec` (open, closing, closed) | `MCRundown` | `RundownProofs` |
| `RundownCacheAware` | `EX_RUNDOWN_REF_CACHE_AWARE` | – | `MCRundown` | – |
| `PushLock` | `EX_PUSH_LOCK` | `RWLock` | `MCExecutive`, `MCWaits` | `PushLockSteps`, `PushLockWalks`, `PushLockProofs` |
| `FastRef` | `EX_FAST_REF` as the primary token uses it | – | `MCExecutive` | `FastRefProofs` |
| `Resource` | `ERESOURCE` | – | `MCExecutive`, `MCWaits` | – |
| `CallBack` | `EX_CALLBACK` and its two clients | uses `RundownSpec`'s phases | `MCCallBack` | `CallBackProofs` |
| `HandleTable` | `HANDLE_TABLE`, push lock block/unblock | – | `MCHandleTable` | – |
| `KeyedEvent` | keyed events | – | `MCWaits` | `WakeupProofs` |
| `LPC` | requests, replies, callbacks, closing of ports | – | `MCWaits` | – |
| `LPCConnect` | the connection handshake | – | `MCWaits` | – |
| `Hive` | sync, crash, load and recovery of a hive | – | `MCRegistry` | `HiveProofs` |
| `LazyFlush` | the lazy flusher | – | `MCRegistry` | `WakeupProofs` |

An `MC` module instantiates one or more components; where it holds several, a
variable set in the initial state (`form`, `facility`, `bounds`) says which one a
behaviour is of, and the variables of the others do not change. It adds a
symmetry set where that is sound (safety only). A definition whose comment starts
with "Mutant:" is a plausible wrong version of the definition after it; no
specification uses it.

### Rundown

`runRef` is the word: `active` is its bottom bit, `rest` a count or the address
of the wait block. A step is one interlocked operation together with the local
code up to the next. The inline functions sample the word and compare-exchange
(`AcquireInline`, `AcquireInlineCAS`); when that fails the out-of-line routine
reads again and loops (`AcquireRead`, `AcquireLoop`). A release that finds the
bit set decrements the wait block (`ReleaseToWaitBlock`), and the one that
reaches zero sets the event (`ReleaseWake`). The teardown thread is `waiter`:
`WaitInline`, `WaitExf`, `WaitPublish` (it puts its count in the wait block and
the block's address in the word), `WaitWake`, then `RundownCompleted` or
`ReInitialize`. Protections are members of `Tokens`, not a number, so that
`held` says which are granted; a counted call takes a set of them.

### RundownCacheAware

A word per processor, with arithmetic modulo `2 ^ Width`. A release on another
processor than the acquire makes a word wrap below zero. The teardown marks the
words one after the other (`WaitMark`), adds up the signed counts, and adds the
total to the wait block (`WaitAdd`), which early releasers have made negative.
The retry loop of one word is not repeated: it is `Rundown`'s.

### PushLock

`word` has the four bits and either a share count or the newest wait block.
`block[t]` is the wait block in `t`'s frame, with its `next`, `last`, `prev`
links, share count and flags. Every read, compare-exchange and link of a walk is
a step: `AcqRead/AcqTake/AcqPush`, `GateInit/Park/Awake`, the list optimisation
`OptTop/OptWalk/OptSwap`, the wake-up `WakeTop/WakeWalk/WakeTake/WakeAnd/
WakeClear/WakeSignal`, and the releases `Rel...` and `Rels...`. The entry points
a client may use are the constants `AcquireCalls` and `ReleaseCalls`.

### FastRef

`fast` is the pointer with its cached references; `count[o]` the object's
pointer count, which includes the cached ones. Addresses of deleted objects are
used again, so a compare-exchange may succeed on another object at the same
address. The slow path's lock is implicit in the program counters (`SlowPCs`):
the swap is not excluded by it, only `Flush` waits for its holders.

### Resource

What the code does under the spin lock of the resource is one step: the four
acquire routines, with and without a wait, `Release` by the owner or by a
`Worker` for another thread, `ExConvertExclusiveToSharedLite`,
`ExSetResourceOwnerPointer`. Outside it are the allocation of the semaphore, the
event and a larger owner table, after which the call starts again, the sleep,
and the `duty` of a releaser to signal those it has let in: between the two the
counts already belong to sleepers that have not run.

### CallBack

A vector of slots, each a fast reference to a routine block, whose references
are rundown protections. The loops over the vector (`CallAll`, `Register`,
`Unregister`) are those of `ps/create.c` or, for the client `"cm"`, of
`config/cmhook.c`. The block's rundown protection is not modelled again as a
lock-free word: the steps are those of `RundownSpec`, which theorem `Refinement`
of `RundownProofs` shows to be what the lock-free code does. `leaked` counts
references that a thread has returned without giving back.

### HandleTable

A handle is the index of its entry. `next` is the union of the free list link
and the granted access: a pop that reads the link of an entry taken meanwhile
reads an access mask (`Access`). The two free lists, the move of freed handles
under all table locks, the growth by pages, strict FIFO, and the lock bit of an
entry with its contention event: `BlockPush`, `BlockCheck`, `Sleep`, `Unblock`,
`Wake` are `ExBlockPushLock`, `ExWaitForUnblockPushLock` and
`ExfUnblockPushLock` with their wait blocks on the stack.

### KeyedEvent

What happens under the event's push lock is one step (`CallQueues`,
`CallTakes`); the semaphores are outside. Releasers queue at the head and waiters
at the tail, and a wait's search stops at the first waiter. `WaitFails` is a
time-out, an alert or a termination; the thread then takes itself off the queue
(`Cancel`), or finds it was matched and waits for the wake-up that is due
(`AwaitWake`).

### LPC and LPCConnect

What happens under the global LPC lock is one step; semaphores are outside. In
`LPC` clients send requests, servers receive, call back and reply by thread and
message id; `reply[t]` is the union of the attached message and the port the
thread waits on. Threads terminate, waits are cut short by APCs, and each of the
three ports is closed and deleted with its chain woken and its queue drained. In
`LPCConnect` a client queues its connection message, a server takes it, creates
its port and gives the message back, and then, or when it refuses, wakes the
client; meanwhile clients terminate and ports close.

### Hive and LazyFlush

Each of the two files has a durable part (`disk`) and a part written and not
flushed (`cache`). A sync is fifteen steps, one per write or flush and one for
the truncation at the end, in the order of `HvpWriteLog` and `HvpDoWriteHive`. A
write or flush named in `FailPoints` may fail with any part of it done, and the
routine returns. `Crash` loses the memory; each unflushed sector may have
reached the disk, not reached it, or be `Torn`. `LoadHive` is `HvLoadHive` with
the decisions of `HvpGetHiveHeader`, `HvpGetLogHeader` and `HvpRecoverData`; a
recovered hive is then written to the primary without a new log, as
`HvInitializeHive` does, and may crash or fail again. `HvRefreshHive` rereads
the dirty sectors. Of the sequence numbers only their equality is kept, since
nothing else is ever looked at. `HvMapHive` takes the same decisions as
`HvLoadHive`. `allowed` records which images a load may return: the last one
synced, and those of attempts since.

`LazyFlush` looks at several hives and only at whether each is dirty: a write
arms the timer, the DPC queues the worker, and the worker visits the hives one
by one, at most `HiveCount` syncs in a work item, and arms the timer again.

## 3. Runs

State counts are of distinct states. Deadlock is checked in every passing run
but those whose configuration says otherwise because the system may really stop
(all clients have made their calls).

| Run | Instance | States | Shows |
|---|---|---|---|
| `rundown` | 2 threads, 2 protections; cache-aware: 3 processors, 2 releasers, 3 protections, words of 5 bits | 42,310 | nobody protected after the wait, live wait blocks, counts that add up, `WaitReturns`, refinement of `RundownSpec` |
| `executive` | push lock: 3 threads, every entry point; fast reference: 3 threads, 2 addresses, cache of 2; resource: 3 threads, an owner pointer, a worker, recursion of 2 | 375,885 | safety of the three, refinement of `RWLock` |
| `callback` | 2 threads, 2 slots, 2 blocks, both clients | 460,986 | no use after free, exact counts, `WaitReturns` |
| `handle_table` | 3 threads, a table that grows by pages | 771,173 | no handle lost or given out twice, sleepers kept |
| `registry` | hive: up to 3 sectors, 2 values; lazy flusher: 3 hives | 253,305 | a load returns one whole image, the log is kept while it is needed, sweeps are complete, the timer is heeded |
| `waits` | LPC: a client, a server, a connection; connect: 2 clients; keyed events: 3 threads, 2 keys, 2 processes; push lock and resource: 3 threads | 342,189 | one wake-up for each wait, messages accounted for, every wait that was answered returns |
| `cacheaware_wait_again` | 2 processors | – | finding 1 |
| `callback_registry_wait` | 2 threads, 1 slot | – | finding 2 |
| `hive_completion_fails` | 2 sectors, completion may fail | – | finding 3 |
| `resource_reacquired` | 3 threads | – | finding 4 |
| `lazy_flush_suspend` | 2 hives, a suspend at any time | – | finding 5 |
| `lpc_connect_message` | 1 client | – | finding 6 |

### Why the bounds are enough for the interesting cases

* `rundown`: one thread can be between its decrement and its wake-up while the
  other is in its retry loop, or acquires during the teardown. A call needs a
  protection that no other call has, so that with two of them a third thread
  could only be on its way to the event (checked once, 349,844 states). Three
  processors give a word that is already marked, one
  being marked and one not, with protections moving between each pair.
  `MaxEarly` bounds what comes and goes during the marking; the assumption on
  `Width` says the word is wide enough for the total, as 32 bits are.
* `executive`, push locks: with three threads the chain has two waiters while the
  third releases or optimises. One thread acquires twice, which reuses a wait
  block's frame, the others once. (The invariants were also checked once with
  two acquires each, 650,154 states, and with four threads.) Fast references:
  two addresses, so that an address is free and used again while a third thread
  still holds a sample of the word. Resources: owner tables that grow by one
  entry, the first of which has no room but for its own size, so that three
  owners make it grow; while the pointer owns the resource two of the threads
  use it.
* `callback`: the second block lets a registration reuse memory just freed.
* `handle_table`: three threads are one that pops with a stale link and two that
  take and give back the entry meanwhile; a page is small enough that the table
  grows and that the freed list is moved.
* `registry`: two sectors are the least with a first sector (which carries the
  time stamp) and another; three give a log whose sectors are not neighbours.
  Crashes, loads and syncs are not bounded in number; one operation fails between
  two crashes (without that bound the model was checked once, 2,532,334 states),
  and between that failure and the crash the hive does not grow and, unless it
  has one sector, is not modified. Of three sectors the second does not change.
  (Without these two bounds on modifications the model was checked once, 735,661
  states.) With two clock
  values consecutive logs may or may not have the same stamp. Three hives are the
  least with one before, at and behind the worker.
* `waits`: two message identifiers tell an answer from a late one. Two clients
  connect to a server that answers every request before it closes its port, one
  to a server that need not. The variable `watched` names the thread whose wait
  is followed, so that the liveness property has one instance.

### Fairness

Weak fairness of a thread's steps inside a call: the scheduler runs a ready
thread. A client gives back what it holds: `ReleaseOf` and `GiveBack` in the
rundown modules, the owner's release in `PushLock` and `Resource`; a port that
began to close goes on closing. `ReleaseOf(k)` is strongly fair because its
thread may be busy with another call again and again. Nobody is made to call,
to answer a request or to close a port, and no fairness makes a
compare-exchange succeed: it fails only when another thread's has succeeded.

## 4. Findings

1. **A completed cache-aware rundown cannot be waited for again**
   (`ex/rundown.c:1024`). `ExRundownCompletedCacheAware` is said to make that
   safe (line 1152); the wait has no test for a completed word, asserts it is
   not active, and counts the active bit as protections.
2. **A lost race of `CmUnRegisterCallback` keeps its reference**
   (`config/cmhook.c:167`): the winner's wait, whose comment says it waits for
   others to release theirs, never returns. `WaitReturns` shows that this is the
   only way a removal can hang.
3. **A failed completion of the primary lets the log be overwritten**
   (`config/hivesync.c:2170`). The in-memory sequence number is advanced before
   the write, so the test "this hive needs to be recovered, so punt" passes. The
   run `registry` shows, and theorem `LogNeeded` proves, that no other failure
   has this effect.
4. **A shared owner that acquires shared and waits for exclusive does not always
   block** (`ex/resource.c:1377`): the shared semaphore's count does not say whom
   it is for, so the owner may take the wake-up of another thread, which the
   assertion after the wait excludes.
5. **A suspend between the lazy flush DPC and its worker stops lazy flushing**
   (`config/cmworker.c:587`): the worker returns with `CmpLazyFlushPending` set.
6. **A connection message is not freed** when the connection port is closed
   before it is queued (`lpc/lpcconn.c:812`).

Smaller observations on the lazy flusher, which no comment contradicts: a last
hive whose sync failed or that would shrink is not tried again before the next
write; a timer that fires while the worker runs is dropped; writes during a
suspend arm no timer; `PostWarning` is never set.

## 5. Proofs

Each proof module is for every value of the constants; the assumptions are the
named ones of the component's module.

| Module | Theorems | Assumptions |
|---|---|---|
| `RundownProofs` | `TypeCorrect`, `TeardownSafety`, `WaitBlockLiveness`, `AssertionsHold`, `Refinement` (of `RundownSpec`) | finitely many protections |
| `PushLockProofs` | `TypeCorrect`, `BlocksStayLive`, `CountExact`, `AssertionsHold`, `NoneForgotten`, `Refinement` (of `RWLock`) | finitely many threads; the clients use some of the entry points |
| `CallBackProofs` | `TypeCorrect`, `BlocksStayLive`, `CountsAreExact` | finitely many threads, at least one cached reference |
| `FastRefProofs` | `ExactCounts`, `LiveRefs`, `InUseHolds` | finitely many threads |
| `HiveProofs` | `HiveTypes`, `LoadsSucceed`, `LogNeeded`, `DirtyIsTracked`, `NoMixture` | the two writes that report completion do not fail (`Completes`); a torn sector is told from a good one |
| `WakeupProofs` | keyed events: `KeyedTypes`, `Meeting`, `WakeupOwedOnce`; lazy flusher: `LazyTypes`, `CompleteSweep`, `TimerHeeded` | none; at least one hive, for `TimerHeeded` no suspend between the DPC and its worker |

**Rundown.** `TeardownSafe` is not inductive: that nothing is granted when the
wait returns depends on what a releaser that has not yet set the event still
knows. `IInv` adds to the types `TokensInv` (calls in progress own disjoint
protections), `WordInv` (what the word is in each phase; as long as no teardown
was published it is the number of granted protections), `BlockInv` (once
published, the wait block's count is that number), `WakeInv` (when it is zero
there is exactly one wake-up: a releaser about to set the event, or the event
set) and `SampleInv` (a releaser whose sample shows the active bit holds the
teardown in its wait). The refinement maps `phase` from `waiter` and `granted`
to `held`, and uses `IInv` to show that a step to "closed" finds nothing granted.

**PushLock.** The variables hold the chain of waiters only as links, many of
them not yet set or stale, so the invariant `Inv` asserts that there *is* a
chain: a set `C` of blocks in it and a set `P` of blocks published and taken off
again, a position for each, and the ends `o` and `f` that the owner of Waking
has read, with `Shape` (the word and the links agree with the positions),
`Members` (who is in the chain, by where its thread is), `Lists`, `Walks` (what a
walk in progress has passed), `Releases` and `Owners` (share counts, in the word
or in the last block, are the numbers of sharers). `PushLockSteps` and, for
the walks of the chain, `PushLockWalks` show for each action that new witnesses
satisfy `Inv` again, on facts about cardinalities that the predicate `Counted`
collects; `PushLockProofs` proves `Counted` from the library and draws the
conclusions. `NoneForgotten` needs one
more inductive step: a free lock with waiters has a thread on its way to wake
them (`Attended`). The refinement uses `HoldsStep`: each step changes what the
threads hold as one step of `RWLock` does.

**CallBack.** `CountsExact` sums references over slots and threads.
The first part of `CallBackProofs` shows what one step of one thread does to its
own references, its slot and the counts (`Counts`), without sums; most steps
leave every block with its owner (`Quiet`). The second adds up: the sums change
by what one slot and one thread have changed. The invariant is `IInv`: types, exact
references and routine count, `CallInv` (what a call may conclude from where it
is), `OwnerInv` (an allocated block belongs to one slot or to one thread, which
is to install it or has taken it out), `FreeInv` (a free block has no
references, one that was never installed only those added for the exchange) and
`SlowInv` (a block read under the lock is still in its slot, or its remover has
not come through the lock). That a referenced block is not free (`BlocksLive`)
follows from the exact count: it is at least one.

**FastRef.** `RefsExact` is inductive with the types, `CallInv`, `UseInv` and
`SlowInv`: as for callbacks, what a call holds by where it is, and who keeps a
block that was read under the lock.

**KeyedEvent.** `IInv` is the types, `QueueInv` (a thread is queued once,
while its call is), `ReleasersFirst`, `NoneMissed` (no releaser and waiter of
one key are queued at once) and `WakeInv` (a thread that was matched has exactly
one wake-up coming, in flight or in its semaphore). `ReleasersFirst` is what makes
the search correct although it stops at the first waiter.

**Hive.** What a load may find depends on what was on both files at every
earlier step, so `IInv` describes the files at every place where the machine can
stop. Either the primary on the disk says that it is complete and is one allowed
image (`Complete`; `Current` when it is the last one synced), or the log is good
(`GoodLog`: its vector and its sectors are those of an image `m`) and the primary
is being written from it (`Writing`): what the log does not have is in place
(`Remain`), and no sector is written before the header on the disk says so. The
conjuncts say which holds where: `AtRest` (between operations; the memory differs
from the file in dirty sectors only, and a failed sync leaves `Current` or
`Interrupted`), `InLog` (the log is written only under a `Current` primary),
`InPrimary`, `Shrinking`, and `Down` (after a crash or a failed recovery:
`Complete` or `Recoverable`). The argument has one lemma per action. `CrashStep`
goes through what a tear can do: it can damage only what is in the cache, which
under `Writing` is the header or sectors that the log has; a torn first header
makes `tornFirst` true, a torn last one leaves a first sector whose stamp is the
log's, so the log is found. `LoadStep` computes what `HvLoadHive` makes of it:
sector by sector the image `m`. `LogNeeded`, `DirtyIsTracked` and `LoadsSucceed`
follow from `IInv`; `NoMixture` is the action property `ReadsASync`, for which
only `LoadHive` and `RefreshHive` matter. The proof covers what the run bounds:
any number of failures between two crashes and a hive that grows or changes after
one. TLC
checked `IInv` before it was proved, without those bounds, for two sectors
(2,130,496 states). `Completes` is needed: without it finding 3 refutes `LogKept`.

**LazyFlush.** `SweepInv` relates the worker's position to the hives passed;
`TimerHeeded` also needs `PendingInv` (a pending flag has its worker queued or
running), which only holds when no suspend comes between the DPC and its worker:
finding 5.

Only model-checked: liveness (`WaitReturns`, `WaitsReturn`), which is out of the
prover's reach; `RundownCacheAware`, whose sum over processors changes by
arithmetic modulo the width; and `Resource`, `HandleTable`, `LPC` and
`LPCConnect`, see section 7.

## 6. Assumptions of the models

* Interlocked operations are sequentially consistent (they are full barriers on
  every supported processor); plain reads between them are steps of their own
  wherever another thread may write.
* Waiting for and setting a dispatcher event, gate or semaphore is atomic. What
  is done under a lock is one step where every access is under that lock.
* `FileFlush` makes all earlier writes of the file durable
  (`ZwFlushBuffersFile`); a write that was not flushed may be lost, kept or
  torn sector by sector.
* While a hive is synced no one changes it (`CmpLockHiveFlusherExclusive`).
* Allocation failures inside a sync are failures of the write that follows.
* Counts are unbounded integers but in `RundownCacheAware`: no overflow of the
  `USHORT` counts of a resource or of message identifiers.

## 7. Plan

In order of what the next runs and theorems would say:

1. Proofs for `HandleTable` that a handle is in one place (`OnePlace`), for
   `Resource` that its counts are those of its owners, for `LPC` that a message
   is in one place; the sum of `RundownCacheAware` on unbounded words.
2. Object manager: handle and pointer counts, deferred deletion, names.
3. Cancel-safe queues and remove locks; opportunistic locks.
4. Worker queues over the kernel's queue object.

## 8. What is not modelled

* Rundown and callbacks: allocation and freeing of the cache-aware array; the
  debug-only variants of the primitives; what a callback routine does.
* Push locks: `ExTimedWaitForUnblockPushLock`; the cache-aware form.
* Fast references: token duplication and access checks.
* Resources: the `ResourceIndex` hint, the priority boost, deletion and
  re-initialisation, queries, `ResourceNeverExclusive`; the order in which
  sleepers of one semaphore wake is left open; no shared owner waits for
  exclusive access (it would wait for itself).
* LPC: requests of a server over its communication port, datagrams other than
  `LPC_PORT_CLOSED`, data information and impersonation, receives through a
  communication port, `LpcDisconnectPort` other than at the end, allocation
  failures; closing an unreferenced handle deletes its port in the same step. In
  the connection: views, security information, `NtListenPort`'s wait. That
  nothing is left and nobody is woken twice is stated for a server that does not
  close its connection port while it handles a request.
* Hives: self healing (`CmDoSelfHeal`: repairs of bins after a failed recovery,
  where the model's load fails), volatile hives, hives without a log, the views
  of mapped hives. Lazy flushing: `CmpNoWrite`, shutdown, hives that are never
  flushed lazily or are frozen.
* The remaining subsystems, with the reason for each, under "components" in
  `PROJECT.json`: the memory manager, cache manager and plug and play manager
  have too much state for a faithful model of one path; the HAL, kernel
  debugger and start-up are hardware access; access checks, RTL and most of WMI
  are sequential.
