# A TLA+ model of the guest kernel's threads and of the memory the CPU and the GPU share

The repository is an emulator core being ported to the Xbox as a UWP
application. This directory models the parts of it in which correctness depends
on the order of events nobody controls:

* the **guest kernel's threads and blocking primitives**
  (`src/core/libraries/kernel/threads`), on which every emulated program runs: host
  threads play guest threads, and each primitive is written by hand over host
  mutexes, spin locks and semaphores;
* the **coherence of guest memory** (`src/video_core`): guest stores are caught by
  page protection, and pages travel between guest memory and the GPU's copies while
  guest threads and the GPU thread run;
* the **D3D12 execution path** of the port (`platform/xbox_uwp`): a bridge that
  batches guest transfers into command lists, submits them to a GPU that runs
  asynchronously, and recycles memory behind a fence.

Paths below are relative to the repository; in `PROJECT.json` they carry the
prefix `src/`.

## 1. Inventory

| Component | State | Operations | Interacts with | What makes it correct |
|---|---|---|---|---|
| Sleep queues (`threads/sleepq.cpp`) | hash chains of `SleepQueue` objects, each with `sq_blocked`, `sq_freeq`; `Pthread::sleepqueue`, `wchan` | Lookup, Add, Remove, Drop, under a chain spin lock | condition variables | objects neither lost nor shared; every channel a FIFO queue; `wchan` truthful |
| Mutexes (`threads/mutex.cpp`) | `m_owner`, `m_count`, `m_flags` | Lock, TryLock, TimedLock, Unlock, CvLock, CvUnlock | deferred wakes of the unlocking thread | ownership; deferred wakes are paid |
| Condition variables (`threads/condvar.cpp`, wake part of `pthread.h`) | `has_user_waiters`, the queue; per thread `wake_sema`, `mutex_obj`, `will_sleep`, `defer_waiters` | Wait, Signal, SignalTo, Broadcast | sleep queues, mutexes, cancellation | no lost wake, no absorbed signal |
| Cancellation (`threads/pthread.cpp`) | `cancel_pending`, `cancel_enable`, `cancel_point` | cancel, setcancelstate, testcancel, exit | every cancellation point, through `wake_sema` | no request is slept through, none swallows a signal |
| Kernel semaphores (`threads/semaphore.cpp`, `OrbisSem`) | tokens, `wait_list` of stack records | Create, Wait, Poll, Signal, Cancel, Delete | priorities of threads | tokens conserved, nobody overlooked, order kept |
| POSIX semaphores (`threads/semaphore.cpp`, `PthreadSem`) | atomic value, `waiters`, `wait_mutex` | wait, timedwait, trywait, post | `wake_sema`, cancellation | no token lies beside an unwoken sleeper |
| Event flags (`threads/event_flag.cpp`) | `m_bits`, `m_waiters` | Set, Clear, Wait, Poll, Cancel, destructor | priorities | success means the condition held; destruction ends |
| Thread life cycle (`threads/pthread.cpp`, `thread_state.cpp`) | thread list, GC list, reference counts | create, join, detach, exit, collect | all of the above | no use of a freed `Pthread`, no joiner sleeps for ever |
| Read-write locks (`threads/rwlock.cpp`, `common/shared_first_mutex.h`) | the guest's handle; `writer_active`, `readers`, `owner`; `rdlock_count` | init, destroy, lazy init, rdlock, wrlock, try and timed forms, unlock | – | exclusion; unlock takes the right branch; no sleeper on a free lock |
| `pthread_once` (`threads/pthread.cpp`) | a four-state word | once, its cancel handler | exit | one initialiser; waiters wake |
| D3D12 device context (`d3d12_device_context.cpp`) | fence value, sticky `submission_error_` | Submit, Signal, CompletedValue, Wait | bridge, renderer, GPU | a ticket completes only after its work |
| D3D12 allocator (`d3d12_resource_allocator.cpp`) | budget and live bytes | Create, move, Reset | bridge | the charge is exact |
| VideoCore bridge (`d3d12_videocore_bridge.cpp`) | bindings, one list and allocator, encoder, staging, pending images, last ticket, marker depth | Register, Fill, Copy, Download, CreateLinearFrame, markers, Flush, Finish, OnSubmit, destructor | all D3D12 parts | nothing in use is released or recycled; batching is invisible |
| Command encoder (`d3d12_command_encoder.cpp`) | tracked resource states | Track, Transition, copies, clears | bridge, renderer | state before = state after |
| Pipeline cache, status renderer | frame contexts, swap chain | draw, resize, upload icons | device context | frame resources reused behind a ticket |
| Buffer coherence (`video_core/page_manager.cpp`, `buffer_cache/`, parts of `texture_cache/`, `amdgpu/liverpool`) | CPU and GPU dirty bits, what is protected, watcher counts, `gpu_modified_ranges`, image flags, the command queue | store and load faults, invalidation, upload, GPU marking, download, tracking and refresh of images | guest memory, GPU thread | no store and no GPU write is lost; faults end |
| Guest memory, loader, PM4 decoding, shader recompiler, HLE libraries, UWP shell | – | – | – | see section 8 |

The hard behaviours are: steps of two threads between which a lock is dropped
(a semaphore is released *after* the queue is unlocked); a deadline or a
cancellation racing the answer; wake-ups that are postponed to a later call of
the signaller; objects that migrate between threads; and, on the GPU side, work
submitted but not finished when a call fails half-way. `PROJECT.json` lists them
line by line under `hazards`.

## 2. Plan

Done, in this order: `WaitQueues` and `SleepQueue` with their proofs, `Condvar`
on top of the queues, the three semaphore-like objects, the D3D12 bridge with
`GuestTransfers` as its abstract specification, `ThreadLifecycle`, `Rwlock` with
its proofs, and `MemoryTracker`.

The proofs followed in the same order of weight: the sequence lemmas all of them
share (`SeqOpsProofs`), `PosixSem`, `OrbisSema`, `EventFlag`, `Condvar`,
`MemoryTracker`, `VideoCoreBridge` and `ThreadLifecycle` (section 5).

Next:

1. `MemoryTracker` with images that are not page-aligned (head and tail tracking,
   `MaybeCpuDirty`) and with several buffers that are joined.
2. `CommandEncoder`: resource states and barriers, composed with the bridge;
   `StatusRenderer`: frame contexts and icon uploads behind tickets, sharing the
   device context.

## 3. Modules and their correspondence to the code

Variables keep the names of the fields they model, actions those of the
functions. Definitions named `Mut...` are deliberately wrong variants of the
definition that follows them, each a plausible slip; a run must fail with one in
place, which shows that its property depends on that line.

**WaitQueues** - one FIFO queue of threads per channel. **SleepQueue** - the four
functions of `sleepq.cpp`, each atomic under its chain lock. An object is named
by the thread it was allocated with; two channels that share a hash chain only
share a spin lock, so the chain is left out. `ImplementsWaitQueues` maps the
queue of a channel to `sq_blocked` of its linked object. Its specification is
`SleepqSpec`, that of `PosixSem` `SemSpec`: one module proves about both and `Rwlock`.

**Condvar** - a running thread may start any call; a call is as many steps as
there are places where another thread can come between (the `pc` values are
listed in the module). `chain[c]` is the holder of the chain's spin lock.
`Release` is the part of `Unlock` up to `m_lock.unlock()`, the wake-ups that
follow are steps of their own (`WakeOne`). Signal and Broadcast are one step per
dequeued thread, because `WakeAll` inside them releases semaphores at once. Time
is abstract: a deadline may pass whenever the thread is asleep. `has_user_waiters`
is not a variable: the code writes it and never reads it.

**OrbisSema**, **EventFlag** - everything between two releases of the object's
mutex is one step. Patterns of an event flag are sets of bits. `deducted`
(OrbisSema), `signalled` (Condvar) and `answer` (EventFlag) are history variables
of the properties. **PosixSem** - the atomic value is taken and raised outside
`wait_mutex`, so the steps are finer.

**VideoCoreBridge** - bridge, device context, allocator and GPU in one module,
because ownership crosses all of them. Calls come from one thread; `call` is the
call under way when it has reached a point where it waits or allocates. The GPU
(`GpuStep`, external) runs the oldest submission at any time; the fence follows.
`Faults` names the host calls that may fail: allocation, Reset, Close, Signal,
the event wait, and removal of the device. Memory is counted in words. `Footprint`
is what `GetResourceAllocationInfo` says a resource of a given size takes, which is
what the budget is charged, while `staged_bytes_` counts the words asked for.
`abandoned` is a history variable: the tickets of the lists the code gives up
while they may be in flight, added where it does so (`FinishThrows`, `Destroyed`). A rejected
argument changes statistics only and is a stuttering step. What belongs to the current
recording (staging, pending images, tracked resources, commands, the state of the list)
is the record `batch`; `HostSubmit` is the shell, which submits lists of its own to the
same queue between the bridge's calls. **GuestTransfers** is
the memory a client sees: transfers take effect whole or not at all, in call
order. The refinement mapping evaluates device memory after everything queued
and recorded has run.

**ThreadLifecycle** - threads and `Pthread` objects are one set of identifiers, as
the code's handle is the object's address. `frame[t]` is what thread t is doing and
which object it has a pointer to; `threads`, `gc_list`, `free_threads`, `heap` and
the work list of `Collect` are the places of an object. The list lock and the
threads' locks are variables, because calls take one while they hold the other; the
leaf mutexes are single steps. References (`RefAdd`, `RefDelete`) stand for the
calls that look at another thread (getname, rename, priority and scheduling).
`reused` becomes true when an object is constructed or returned to the heap while
somebody still has it; what follows is undefined and the behaviour ends there.
`pthread_once` is a call among the others, since its runner may exit inside
`init_routine`.

**Rwlock** - the guest's handle, the objects behind it and `SharedFirstMutex`.
Setting `owner` after the lock and clearing it before the unlock are steps of their
own. `rheld` and `wheld` are what guest code holds, the ghost the counts are
compared with.

**MemoryTracker** - the bits of one region, the watcher counts of its pages, the
permissions the host enforces, and for each page only whether guest memory, the
GPU's buffer and the image hold every guest store and every GPU write. A guest store
and a GPU write to one page are to different bytes, so that neither hides the loss
of the other. A fault is the steps of the handler between its locks: the region lock,
the texture mutex and the wait for the GPU thread. `UpdatePageWatchers` models the
loops over pages by what they do: the counts of the mask change, and a page is
protected anew exactly when it lies between two pages whose count left or reached
zero with equal permissions in between, as the extended range of the code does. The
readback mode is chosen initially and fixed.

**SeqOps** holds three helpers on sequences that the proofs need in a simple form.
**Guest** and **GuestThreads** declare what the modules of the blocking primitives have
in common: the threads and the null pointer, and where each thread is in its call.

## 4. Runs

| Run | Question | Instance | Distinct states |
|---|---|---|---|
| `sleepq` | do the migrating objects stay consistent and implement FIFO queues? | 4 threads, 2 channels: the free list grows to three, and objects travel from one channel to the other | 113 thousand |
| `condvar_races` | do queue, `wchan` and mutex agree; does a deadline or a cancellation swallow a signal, or is a cancellation slept through; are deferred wakes covered? | 2 threads that cancel each other, a recursive mutex, with and without a (relative) deadline | 1.6 million |
| `condvar_live` | is a dequeued sleeper always owed a wake; does a signalled waiter wake? | 3 threads, 2 mutexes on one condition variable (a waiter's mutex need not be the signaller's), arrays of length 1, so that a broadcast to two overflows | 129 thousand |
| `orbis_sema` | are tokens conserved, waiters served in order, and does an answered waiter return? | 3 threads of two priorities, 2 tokens | 167 thousand |
| `event_flag` | are waiters served in order and with a pattern that met their condition; does destruction end? | 3 threads of two priorities, 2 bits, all wait and clear modes | 135 thousand |
| `posix_sem` | stranded tokens, stale list entries, lost cancellations; is a token served? | 3 threads, one canceller, value up to 1 | 574 thousand |
| `bridge_lifetimes` | is anything in use released or recycled; is the budget exact; does every call return? | 1 registered buffer, 2 allocator objects, budget 4 where a word takes 2, fence limit 4, up to 2 submissions in flight, markers, all faults | 611 thousand |
| `bridge_data` | is batching invisible? | buffers of 2 and 1 words at every placement, partial transfers, all faults but removal | 218 thousand |
| `threads` | is a found thread valid while it is used; are wake-ups of joiners and once-waiters lost; which lock cycles exist; does every call end? | 3 objects, 5 calls in all, collection and caching after one death | 360 thousand |
| `rwlock` | exclusion, counts, lost wake-ups | 3 threads, 2 nested read locks, 2 addresses, so that a destroyed lock comes back elsewhere | 177 thousand |
| `coherence` | do protection and counts follow the bits; is a store or a GPU write lost; can a fault hang? | 2 guest threads, 3 pages, window of 2, an image over 2 pages, all three readback modes | 343 thousand |
| `wake_semaphore_max` | the finding of section 6 | 3 threads that may all cancel | |

Why the bounds are enough to be of interest: three threads are one waiter, one
signaller and one that interferes; arrays of length one reach the code for full
arrays, whose real length is a constant nothing else depends on; two tokens and
needs of one and two reach a waiter that is skipped; a fence limit of 4 allows
three submissions, so that a list is recycled twice, and then the reserved value;
two objects and a budget for two of one word, or one of two, reach both failure of
the budget and reuse of freed memory; a footprint that differs from the size tells the
two counts apart; three threads are a target, its joiner and a canceller, and five calls
create two of them and leave three to race; three pages with a GPU range in the middle
leave a gap in an update of the protection, and a window smaller than the region leaves
a page outside a download. Lifetimes do not depend on which registered buffer a command names,
so one is enough there; copies need two and are in `bridge_data`. No claim is made for
larger instances except where section 5 has a proof.

The property `IInv` of `condvar_races`, `orbis_sema`, `event_flag`, `bridge_lifetimes`
and `threads`, `SleepqIInv` of `sleepq` and `SemIInv` of `posix_sem` are the inductive
invariants of the proofs (section 5), with the type invariant in them.

Symmetry over threads is used in runs of `Condvar`, `Rwlock` and `MemoryTracker` that
check invariants only; the threads are alike there. FIFO queues (`IsFifo`, `ByPrio`) and the
single-waiter mode of event flags are constants the modules have and no run
selects: both are the priority code with all comparisons equal, or an early
return. Deadlock is checked for the sleep queues,
the bridge and memory coherence. It is off for the other primitives: guest threads may legally all
wait for each other, or be terminated,
and the calls of `threads` are bounded.

Fairness: `WF(Step(t))` for every thread, where `Step` is the part of a call
*after* it began. A host thread that can run does run; nothing makes a guest
program start a call, so beginning one carries no fairness. A sleep with a
deadline is such a step, because every finite deadline passes; untimed sleeps,
which the liveness runs also have, end only by a permit or a notification.
Contention for a lock is not assumed to be resolved fairly. `SignalledWakes` has
an escape: the signaller may stay in guest code with the mutex locked. For the
bridge, `WF(GpuStep)` says the GPU works through its queue, and `WF(Ready /\ Returns)` that
the calling thread proceeds when it can; an event wait that could fail is not `Ready`, since
nothing makes it fail, and it must end by the fence, an error or removal. D3D12 promises the first as long as the
device is not removed, and removal itself releases the waiters. In `threads`,
`CallReturns` excepts a join of a thread that has not terminated, threads that join
one another, and what follows the reuse of an object in use; `init_routine` is
taken to return or to exit the thread. `coherence` states no fairness: that faults end
is reduced to the invariant `NoWaitCycle`.

## 5. Proofs

`BlockingProofs` holds the proofs about `SleepQueue`, `Rwlock` and `PosixSem`. On the
sleep queues it proves, for every set of threads and channels, from the single
assumption that `NULL` is neither a thread nor a channel:

* `SleepQueueInvariant`: `SleepqSpec => []SleepqIInv`;
* `SleepQueueFreeLists`, `SleepQueueWchan`, `SleepQueueExclusive`, `SleepQueueTypes`:
  the parts the code's assertions and its unchecked `++sq2` rest on;
* `SleepQueueNothingLost`: every object stays reachable;
* `SleepQueueRefinement`: `SleepqSpec => WQ!Spec`, the queues implement `WaitQueues`.

None of the invariants is inductive alone. That the free list is one shorter than
the blocked list survives `SleepqRemove` only if the thread is in the queue once
(`WchanIsQueue`); that it is, survives `SleepqAdd` only if a channel has one linked
object (`OneQueuePerChannel`), which needs that the object a thread lends is not
already linked (`NoSharedObject`), which in turn needs that the free list has an
object of its own to give (`FreeListMatches`). `SleepqIInv` is their conjunction with
`SleepqTypeOK`. The proof has one lemma per action and conjunct; lemmas on `Without`,
`IndexOf` and appending carry the sequence reasoning. The refinement shows that
Add, Remove and Drop change the mapped queue of their channel as Enqueue, Dequeue
and Flush do, and no other queue.

On the read-write lock, for every finite set of threads, every set of addresses and
every bound on nested read locks:

* `RwlockInvariant`: `Spec => []IInv`;
* `RwlockExclusion`: a writer is alone;
* `RwlockCounts`: `readers`, `rdlock_count` and `owner` match what guest code holds;
* `RwlockNoLostWake`: a sleeper's predicate is false.

Exclusion is not inductive: between `lock()` and `owner = curthread`, and between
`owner = nullptr` and `unlock()`, a thread writes without owning. `WriterAgrees` counts
these as writers, makes `writer_active` equivalent to there being one, and allows no
read lock beside it. `readers` is related to what threads hold through the cardinality
of the set `Tokens` of held read locks, one element per level of nesting and one for a
read unlock under way; each step adds or removes one element or none, so that the
cardinality follows from the theorems on adding and removing an element.
`PointersAgree` says that every call under way is on the object the handle names,
which is where the second look at the handle in `InitStatic` is needed.

`SeqOpsProofs` holds what the proofs about lists keep needing: what `WithoutAll`,
`InsertBefore`, `IndexOf`, appending and removing do to the elements and to the order
of a list. `WithoutAll`, like the loop of `EventFlagInternal::Set`, is a recursive
function, and facts about it need induction. The library's induction theorems take a
predicate as a parameter; here induction is over a set of numbers instead, from the
theorem that `<` on the naturals is well-founded (`LeastElement`, `InductionUpTo`), and
`Recursion` shows that a function that is defined from its predecessor satisfies its
recursive equation.

On the POSIX semaphore (also in `BlockingProofs`), for every set of threads:

* `PosixSemInvariant`, `PosixSemTypes`;
* `PosixSemNoStrandedToken`, `PosixSemNoLostCancel`.

`NoStrandedToken` speaks of sleepers and is disturbed before anybody sleeps: a thread
that looked at the value and is not listed yet. `CheckCovered` says that a token that
arrived in between belongs to a post that has yet to lock `wait_mutex`, `MutexAgrees`
that no such post can lock it before the thread is listed, `UnlistedHasPermit` that
whoever was taken off the list was woken.

`OrbisSemaProofs`, for every set of threads, every priority, both queueing modes and
every maximum:

* `OrbisSemaInvariant`, `OrbisSemaTypes`;
* `OrbisSemaNobodyOverlooked`: nobody listed waits for tokens that are there;
* `OrbisSemaTokens`, an action property: what was deducted for a Wait is what its
  result says;
* `OrbisSemaNoOvertaking`, an action property: newcomers line up behind those that
  precede them.

Signal walks the list once with a falling count. That the walk overlooks nobody is
induction along the list: the count only falls, so who could not be served when it was
his turn cannot be served at the end (`LeftShrinks`). `RecordAgrees` ties each stack
record to its thread: a sleeper is answered if and only if it has its permit, and
tokens were taken exactly for the answer `ORBIS_OK`.

`EventFlagProofs`, for every set of threads and bits, every priority, both queueing
modes, single and multi-thread mode:

* `EventFlagInvariant`, `EventFlagTypes`;
* `EventFlagNobodyOverlooked`, `EventFlagSuccessIsMet`, `EventFlagNoOvertaking`.

The same argument along the list, with bits that only disappear (`FoundShrinks`); both
wait conditions are monotone in the bits. `DestructorTold` says that a waiting
destructor has told every waiter, and that the last one has told it.

`CondvarProofs`, for every set of threads, mutexes and condition variables and every
length of the arrays:

* `CondvarInvariant`, `CondvarTypes`;
* `CondvarNoLostWake`, `CondvarNoLostCancel`, `CondvarSignalNotAbsorbed`,
  `CondvarDebtCovered`.

A signal passes through four hands: the queue, the signaller's list of dequeued
waiters, its array of immediate or of deferred wakes, the semaphore. `NoLostWake` needs
that no array drops an entry (`ArraysInBounds`), and that a dequeued waiter that is not
in an array yet cannot leave its Wait and enter another (`TodoPinned`): the chain lock
it must take is the signaller's (`ChainAgrees`). `SignalNotAbsorbed` needs that a
signalled waiter is off the queue when it looks (`SignalAgrees`). `DebtCovered` follows
from `DebtTracked`, which says for every point of a call where the deferred wakes will
be paid; the case it excepts (section 6) appears there as `SkippedSleep`.

`MemoryTrackerProofs`, for every set of guest threads, every number of pages, download
window, image and page ranges, and all three readback modes:

* `MemoryTrackerInvariant`;
* `MemoryTrackerWatchersAgree`: counts, protection and bits agree, the assertions of
  `PageManager` hold and its counters never wrap around;
* `MemoryTrackerGpuWritesSurvive`, `MemoryTrackerStaleIsMarked`,
  `MemoryTrackerNoWaitCycle`.

The page manager is treated once: Protect is called on coalesced ranges between pages
whose count left or reached zero, and `UpdatePageWatchersOK` shows that all other pages
keep their permissions, as long as no page would become write-only. That none does is
`OneSideModified`: a page closed to loads is GPU-modified, hence not CPU-modified, hence
closed to stores. `CarryOver` takes a change of the bits to the counts for each of the
six changes the code makes. `OneSideModified` in turn rests on the lock that is held
from the unmarking of CPU bits to the marking of GPU bits (`CopiesAgree`), and on the
commands: a store's command marks its pages only after the window that contains them
was unmarked (`CommandsAgree`, `WindowOK`). `WritesPlaced` follows a GPU write from
`gpu_modified_ranges` to the download. `NoWaitCycle` is then a consequence: the pages an
upload reads are CPU-modified, hence not GPU-modified, hence open to loads. The `IInv`
of this module is checked by no run of its own; two of its parts, `WatchersAgree` and
`StaleIsMarked`, are, and the theorem covers all of them.

`VideoCoreBridgeProofs`, for every set of buffers of any width, every budget, transfer
limit, fence limit, number of objects and length of the queue:

* `BridgeConsistent`, `BridgeTypeCorrect`, `AllocatorAccounting`: `Spec => []BaseInv` and
  its parts;
* `BridgeInvariant`, `BridgeNoUseAfterRelease`: `Spec => []IInv` and
  `Spec => []NoUseAfterRelease`.

All of them hold for every set of `Faults`. The invariant has two layers. `BaseInv` is
inductive by itself: what a call established
before it waits is still so when it goes on (`CallAgrees`), the tickets in the queue
rise, and a list that runs without a ticket leaves a trace that keeps every later wait
from returning (`TicketsAgree`), every allocation has one owner (`OneOwner`), and the
charges are sums over the owned objects. A sum is a recursive function over the
numbers of the objects; that it grows and shrinks by the size of one object is proved by
induction along them (`Total`, `BytesIn`). The second layer is who keeps what a submitted
list uses (`UsesOwned`), and that no list is open while one is in flight. Its key is the
lemma `Drained`: when a wait for `last_ticket` returns, the queue holds no commands of the
bridge, because a list of the bridge has a ticket up to `last_ticket` or none, and the
second is excluded by `TicketsAgree`. That is why staging may be dropped, the allocator
reset and the readback buffer released. When a wait throws, what is in flight has a ticket
above `completed` and up to `last_ticket`, or none (`Unfinished`). The staging, the pending
images and what the encoder tracks stay, so only two places lose something: the download,
whose readback buffer is a local, and the destructor. `NoUseAfterRelease` excepts their
lists through `abandoned` (section 6). `AbandonedAgrees` keeps the exception narrow: the
tickets in it were handed out before, so no later list is excepted, and lists without a
ticket only after the destructor.

`ThreadLifecycleProofs`, for every set of threads, every threshold of collection, every
size of the cache and every number of calls:

* `LifecycleInvariant`, `LifecycleTypeCorrect`;
* `PointersStayValid`: `Spec => []FoundStaysValid`;
* `WakeUpsArrive`: `Spec => []NoLostWake`;
* `LockCyclesAreJoins`: `Spec => []OnlyJoinCycles`.

A pointer from `FindThread` is protected by a different thing at each step: the target's
lock, a reference, the `joiner` field, or that its user is the thread itself. `LocksAgree`
says which locks the steps of a call hold, and that nobody else holds any; `JoinsAgree`
that `joiner` and `join_target` name each other while a join is under way and that a
thread with a joiner is not detached; `RefsExact` that a reference count is the
thread's own reference, until it is dead, and one for each `RefAdd` under way, that of
`TryCollect` included. Hence an
object that `TryCollect` may collect has neither joiner nor references, and
`UseIsListed` follows: what a call uses is on the thread list, except in the tails
`LastUse` names. The second look of `TryCollect` at the thread, after it took the list
lock and the thread's lock anew, is what makes this inductive. `FrameAgrees` says what the
frame of each step points to, and `TypeOK` that an object is in one place and the
`pthread_once` word has one runner. There is one lemma for each action. `OnlyJoinCycles`
uses `LocksAgree` and `FrameAgrees` only: who holds the list lock waits for a thread's lock
at most, and who holds a thread's lock and waits is in `JoinThread`, with its target's lock,
waiting for its own (`"self"`). So every closed set of waiting threads contains such a
joiner, and the holder it waits for is another, who joins it.

The assumptions are those of section 7 and no others. Only model-checked:

* the bridge's refinement of `GuestTransfers` (`BatchingIsInvisible`): its mapping runs
  every queued and recorded command, so that a step needs induction over the contents of
  memory along command lists of any length;
* every liveness property (`SignalledWakes`, `AnsweredReturns`, `DestructorReturns`,
  `TokenServed`, the two `CallReturns`), since fairness and `ENABLED` are outside the
  prover's reach.

## 6. Findings

**`WakeSemaphore` can exceed two permits** (`sync/semaphore.h:164`). The comment
expects at most one normal and one cancellation wake at a time. Signal releases the
semaphore after it unlocked the queue; the target may by then have timed out, seen
that it was dequeued and left. Such late permits add up to three. On Windows the third
release fails an assertion. Run `wake_semaphore_max`.

Cases that a property excepts, or that a run leaves out, because the code does not
exclude them:

* Deferred wakes of a cancelled waiter are lost (`condvar.cpp:142`). Wait sets
  `will_sleep` so that the release of its mutex leaves deferred wakes to Sleep, but a
  pending cancellation skips Sleep. `will_sleep` stays set, no later unlock pays, and
  the signalled threads sleep on when the thread has ended. `DebtCovered` excepts a
  thread with a cancellation request and `will_sleep`.
* A failed wait releases a readback buffer in flight
  (`d3d12_videocore_bridge.cpp:199`): the buffer is a local of `DownloadBuffer`, and the
  exception unwinds it while the submitted copy may still write it. This goes against
  `d3d12_command_encoder.h:26`, "Keep all referenced resources/descriptors alive through the
  submission fence", and ADR 0033. `NoUseAfterRelease` excepts the lists this happens to,
  whose tickets `FinishThrows` adds to `abandoned`, and no others.
* The destructor of the bridge swallows a failed wait and releases the staging of what is
  in flight (`d3d12_videocore_bridge.cpp:20-28`). The comment there, "Only drain work that
  Flush already submitted before releasing its staging/references", does not hold after a
  failed Signal: the error is sticky and Wait looks at it before it waits, so that also a
  list that has its ticket loses its staging, for instance one that Flush submitted
  before a submission of the shell failed. `NoUseAfterRelease` excepts the lists in flight
  when the destructor's wait throws, and after it a list that Signal left without a
  ticket; both are in `abandoned`.
* Threads that join one another, two or more in a circle, block for ever and hold their
  locks (`pthread.cpp:140-145`); a later call on one of them then blocks behind the list lock.
  `OnlyJoinCycles` shows that there is no other kind of cycle.
* The last steps of a call touch an object that may already be reused: `notify_all` and
  `Exit` after the tid was set, the unlock at the end of `TryCollect`, `SetAffinity`
  after the new thread started. `FoundStaysValid` lists them (`LastUse`) and excludes
  every other use.

Observations no run depends on:

* `EventFlagInternal::Set` serves a waiter again that is ready but has not run
  (`event_flag.cpp:192`), and applies its clear mode a second time.
* `sceKernelDeleteSema` erases the object while released waiters still have to lock
  its mutex (`semaphore.cpp:362`); the model gives such a thread the `pc` value
  `stuck`. A Wait that enters between Delete and erase is never answered.
* `OrbisSem::Cancel` does not compare `set_count` with `max_count`; the model only
  passes legal counts.
* `OrbisSem` serves smaller priority numbers first, event flags greater ones.
* After a failed Flush the list is closed and the encoder still set: fills and copies
  return success and have no effect. No download succeeds any more, so no client can
  read the difference (`bridge_data`).
* `live_bytes` does not count images that only `pending_images_` still holds.

## 7. Assumptions

Each module names its assumptions on constants (`NullAssumption`,
`CondvarAssumption`, ...): distinctness of `NULL`, positive sizes, subsets. Host
primitives are taken to work as documented: a spin lock excludes, a counting
semaphore counts, `condition_variable` may wake spuriously, an in-order D3D12 queue
executes in order. Downloads write guest memory that lies in one physically backed area:
`DownloadBufferMemory` ignores the result of `TryWriteBacking` (`buffer_cache.cpp:151`),
which stops at the first area without physical backing and does not advance its source
from one physical area to the next (`memory.cpp:168-204`); the window is unmarked
whatever was written. For memory that is unbacked or split, `GpuWritesSurvive` says
nothing. Memory accesses are sequentially consistent; the code uses
atomics or locks for what the models share.

## 8. Not modelled

* Command encoder states, pipeline cache, status renderer: planned (section 2).
* Exceptions the bridge can meet only when host memory runs out or a query of a valid
  resource fails: in the encoder's construction and `Track` (`d3d12_videocore_bridge.cpp:102-105`),
  in `Map` of a readback buffer (`:202`), and in `Track` and `CopyBuffer` of a fill between `staging_.push_back` and
  `staged_bytes_ +=` (`:133-136`). The last would leave an upload in the staging that
  `staged_bytes_` does not count.
* Coherence beyond one region, one buffer and one page-aligned image: accesses that
  span regions (each region is treated alone by `IteratePages`), creation, joining and
  eviction of buffers, images that share a page with other data (`UntrackImageHead`,
  `UntrackImageTail`, `MarkAsMaybeDirty`), images the GPU renders to, `buffer_ranges` read
  without a lock by the fault handler. `MarkAsMaybeDirty` hashes guest memory with the
  texture mutex held; with precise readbacks that load may fault and wait for the GPU
  thread, which may wait for the mutex. The model's image cannot reach this.
  `ForEachDownloadRange<true>` and the asynchronous download have no caller.
* The GPU thread's own faults outside an upload: `SendCommand` runs the command at once
  there, and the effect is that of a guest thread's fault.
* The order inside `Draw` of adding to `gpu_modified_ranges`, invalidating images and the
  GPU's write, which `BindBuffers` and `CopyBuffer` (`buffer_cache.cpp:321`) choose
  differently: only the GPU thread refreshes images and downloads ranges, so nobody sees it.
* Counts above two in the run `coherence`, which has one image: that the seven-bit counter
  of watchers does not overflow with many images on a page is not shown.
* Faults as liveness: `coherence` checks the absence of circular waits, not that a
  guest thread is served.
* Initialisation and destruction of mutexes and condition variables, attribute
  setters, named POSIX semaphores, `sem_getvalue`: sequential bookkeeping, or
  undefined by POSIX when raced.
* Asynchronous cancellation: an interrupt at any host instruction. Thread-specific
  data, scheduling parameters, TCBs and stacks in the thread life cycle.
* Unlocking a read-write lock the caller does not hold, destroying one in use: POSIX
  leaves them undefined.
* Guest memory, loader, PM4 decoding, shader recompiler, the rest of the Vulkan renderer,
  HLE libraries, UWP shell: translation and host I/O over data of unbounded shape, for
  which a small instance shows little.
* Statistics counters, logging, names and time values.
