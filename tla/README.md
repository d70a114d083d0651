# Verification of mutils-tasks

TLA+ models of the C++ library `mutils-tasks`, model-checked with TLC, and theorems about them
checked with TLAPS. Paths are relative to the repository; `I/` stands for
`src/include/mutils-tasks/`.

## 1. The system

| Component | State | Operations | Interacts with |
|---|---|---|---|
| **ResourcePool** (`I/resource_pool*.hpp`) | packs with `resource`, `initialized`, `who_owns_me`, `in_free_list`; `current_max_index`, `recycled_indices`; `free_resources`; reference counts of rentals and index owners | `acquire`, `WeakResource::lock`, sharing and dropping handles, destructors of rentals and index owners | BlockingConcurrentQueue (calls), SafeSet (external library), client's builder, `onAcquire`, `onRelease` (callbacks) |
| **Overdraw statistics** (`I/resource_pool_impl_overdrawn_resource.hpp`) | four atomic counters | constructor and destructor of `overdrawn` | printed by `~ResourcePool` |
| **BlockingConcurrentQueue, LightweightSemaphore** (`I/blockingconcurrentqueue.h`) | entries; the semaphore's count, the kernel semaphore | `enqueue`, `try_dequeue`, `wait_dequeue`, `wait_dequeue_timed`, their bulk forms | ResourcePool, DelayThread |
| **ConcurrentQueue** (`I/concurrentqueue.h`) | list of producers; for each its four counters, blocks and block index; free list | lock-free enqueue and dequeue, bulk forms | BlockingConcurrentQueue, ThreadPool |
| **AbortableLock** (`I/abortable_lock.hpp`, `I/better_cv.hpp`) | flag, condition variable with its mutex | `lock_or_abort`, `unlock` | caller's abort condition (callback) |
| **DelayThread** (`src/delay_thread.cpp`) | `delay_amount`, `destroying`, queue of actions with due times, worker | `set_delay`, `delay_action`, the worker's loop, destructor | BlockingConcurrentQueue |
| **ThreadPool, GlobalPool** (`I/ctpl_stl.h`, `I/GlobalPool.hpp`) | task queue, workers, a flag for each, `isDone`, `isStop` | `push`, `pop`, `clear_queue`, `resize`, `stop`, destructor | ConcurrentQueue, the tasks (callbacks) |
| **GloballyBackedExecutor, TaskPool** | memory cells, free cell indices | `launch`, `increase_mem`, `set_mem_to` | GlobalPool, SafeSet |
| **FutureFreePool** | ids (unreachable implementation) | `launch`, `take` | GlobalPool |
| **eventfd** (`src/eventfd.cpp`) | kernel counter | `wait`, `notify`, `clear` | kernel |

Hard behaviours, and what correctness means for them:

* **ResourcePool**: every thread runs the whole algorithm; a preferred pack can be reached through
  its index and through the queue at the same time, and `in_free_list` is cleared outside the pack's
  mutex. Correct means: one client (or clients that share a handle) per resource; no resource that
  is free and that nobody can find; no index lost or owned twice; callbacks in alternation; no
  forgotten waiter.
* **AbortableLock**: a monitor whose `unlock` runs outside the monitor.
* **Statistics**: independent atomics that are meant to agree.
* **LightweightSemaphore**: an atomic count, a kernel semaphore and timeouts that correct the one for
  the other. Correct means: it is a counting semaphore, so that who has a permit finds an entry.
* **ConcurrentQueue**: consumers reserve optimistically and give back; the block index they search is
  extended, rewound and reused meanwhile. Correct means: a claimed element is found, no block is lost
  or used twice, and a dequeue fails beside elements only for a reason.
* **DelayThread**: a worker that leaves when it has been idle, and a FIFO queue of due times. Correct
  means: what is submitted in time is run, in time.
* **ThreadPool, Executor**: pops outside and inside the monitor, a queue whose pop may fail, workers
  that stop or that all wait for a cell. Correct means: no task lies beside sleeping workers, `stop(true)`
  runs what was pushed, no cell is lost or shared, and waiting for a cell is no deadlock.

The file `PROJECT.json` lists each hazard at its source line with the properties that cover it.

## 2. Modules

| Module | What it is |
|---|---|
| `ResourcePool` | the pool: one action per step another thread can observe |
| `RentalContract` | what the pool promises a client: grant, share, drop, give back |
| `ResourcePoolTheorems` | its inductive invariant, layer by layer (types and calls, handles, indices, rentals, the free list), the theorems, the permits, the refinement |
| `OverdrawStats` | the counters of `overdrawn` |
| `OverdrawStatsTheorems` | its inductive invariant and theorems |
| `AbortableLock` | `lock_or_abort` and `unlock` |
| `AbortableLockTheorems` | its inductive invariant and theorems |
| `CountingSemaphore` | what a semaphore with timed and bulk waits promises |
| `LightweightSemaphore` | the semaphore over the kernel's, and its mapping to `CountingSemaphore` |
| `BlockingQueue` | BlockingConcurrentQueue: EXTENDS `LightweightSemaphore` |
| `BlockingQueueTheorems` | the inductive invariant, the refinement |
| `DelayThread` | clients, the worker, the destructor, and time |
| `DelayThreadTheorems` | its inductive invariant and theorems |
| `ThreadPool` | clients that push, workers, the controller |
| `ThreadPoolTheorems` | its inductive invariant and theorems |
| `GloballyBackedExecutor` | launches and memory cells: EXTENDS `ThreadPool` |
| `GloballyBackedExecutorTheorems` | its inductive invariant and theorems, and that it runs the pool: EXTENDS `ThreadPoolTheorems` |
| `ImplicitProducer` | one sub-queue of ConcurrentQueue with its producer and its consumers |
| `ImplicitProducerTheorems` | the inductive invariant of its counters, that of its block index and blocks, and theorems |
| `MC*` | symmetry sets for TLC |

They build on each other by what they promise: `ImplicitProducer!FailureIsExplained` is the pop that
`ThreadPool` takes for granted and `GloballyBackedExecutor` is composed with; `ThreadPool` in turn is
part of the executor's state machine (`RunsThePool` is the theorem), so what is proved of the pool
holds in the executor. `CountingSemaphore` is what `BlockingQueue` implements and how
`DelayThread` and `ResourcePool` treat their queue's permits.

### ResourcePool

*State.* `resource`, `initialized`, `inFreeList`, `whoOwnsMe` are the sets of packs whose member of
that name is set (not null). A rental lives exactly while its pack is out, so it has the name of its
pack; an overdrawn rental has a name of its own. A handle is a record of its `index_preference` and
`rsource`. Reference counts are not counters: an object is alive while somebody refers to it, and the
operation that removes the last reference is the one that runs the destructor (`DropLocked` for a
rental, `LastIndexOwner` for an index owner). `free_resources` is a bag of entries and a number of
permits; `enqueue` adds the entry and then the permit, a dequeue takes a permit and then an entry.
The underlying queue orders only the entries of one producer, so a dequeue may take any entry.

*Steps.* A call moves through the labels of `PC`. `acquire` starts at `preferred_full` (its two
operands are two steps), chooses between recycling and a fresh index, pops or increments (again apart,
with `build_or_pop`'s fallback), and borrows under the pack's mutex (`BorrowPreferred`,
`PreferredIsOut`). `acquire_no_preference` is `Dequeue` / `DequeueFails`, `Take`,
`RemoveFromFreeList` (without the mutex, hence a step of its own), `BorrowCandidate` /
`CandidateIsOut`, `Overdraw`. A destructor is `OnRelease` (outside the mutex), `GiveBack`, `Enqueue`,
`Signal`; the mutex is held to the end of the last (`MutexHeld`). `Return` drops what the call still
owns, `Recycle` is `~index_owner`.

*Abstractions.* `current_max_index` saturates at `max_resources`, since every larger value loses
alike. The weak pointer of a `WeakResource` is reset in the step in which its rental loses its last
handle, which is what expiry means. One handle variable is used by one call at a time: the library's
handles are no more thread-safe than a `shared_ptr`. `onAcquire` and `onRelease` do not throw, and
memory does not run out. The pool's state outlives its handles, because they all share it, so
`~ResourcePool` does nothing but print. `number_waiters` is a statistic and left out. `SafeSet` is
from another library; the pool uses it as an atomic set.

*Contract.* `Contract` maps a handle to its `rsource` and `returning` to the rentals in a destructor
before their T is back.

### OverdrawStats

One rental's constructor and destructor per name, cut at each atomic access. `peak` and `overlapped`
are history variables: the largest value `overdrawn_count` ever had, and whether two constructors ever
ran at the same time. The counters influence nothing in the pool, which is why they have a module of
their own.

### AbortableLock

`cv.m` is the variable `mutex`; `locked` in `lock_or_abort` keeps the `condition_held` alive, so the
mutex is held from the end of the wait until the function returns, when `condition_held::unlock`
releases it and then notifies. `unlock` clears the flag and then notifies, without the mutex. The
abort condition belongs to the caller: it may become true (its client then notifies `cv.v`) and may
become false again. `missed` records notifications between reading the flag and falling asleep,
`reverted` an abort condition that became false. Spurious wakeups are possible and never relied on.
The extra mutex and the strings of debug builds are left out; a thread that owns a `lock_t` does not
ask for another.

### LightweightSemaphore and BlockingQueue

*State.* `count` is `m_count`, `kernel` the POSIX semaphore, `posts` the `sem_post` calls that a
`signal` still has to make. A thread is in one call at a time; the call wants `max` permits (1 for the
single forms) and has a `timeout` of `none` (the `try` functions), `timed` or `forever`. `entries` is the
number of entries of the inner queue and `batch` what a producer has enqueued and not signalled.

*Steps.* A failed compare-exchange changes nothing, so each loop around one is the step of its
successful iteration; the spinning before the decrement is the choice between the two steps at `spin`.
A call that sleeps is woken by the kernel semaphore or times out, and then takes back its decrement
(`reclaim`) or finds that a signal has meanwhile counted it. `waitMany` and its relatives take further
permits that are there without waiting (`more`). The queue enqueues first and signals then, and
fetches entries from the inner queue until it has as many as permits.

*A deadline that is refused.* `timed_wait` adds the timeout to the present time and carries into the
seconds only when the nanoseconds exceed one second (`I/blockingconcurrentqueue.h:219`). When they are
exactly one second, `sem_timedwait` refuses the deadline with `EINVAL`, and the code takes every error
other than a timeout for a permit. `Refused` is that outcome, possible when `Timeout` is not a multiple
of `Second`; `phantoms` counts the permits that never existed. `EntriesBacked` says that, but for them,
every permit stands for an entry; `SemaphoreKept` is the refinement until the first of them.

*Mapping.* The permits of `CountingSemaphore` are `count` plus the threads that are in the negative part
of it (`Waiting`); a thread waits there exactly while it is asleep or has not yet settled its timeout.

### DelayThread

Time is what remains until each event, so that `Tick` only lowers numbers: `remaining` of an action,
`idleFor` of the worker's wait. An action is named by its submitter and a number. `submit_action` is cut
into stamping, enqueueing and signalling; the worker into waiting, taking an entry, testing
`destroying`, sleeping and running. The queue is what `CountingSemaphore` promises to its one consumer,
and FIFO only for each submitter, as the inner queue is. Tasks may submit, so the worker is a submitter.
Assumptions: clients do not call while static objects are destroyed (a task that still runs may); the
clock is not adjusted; `delay_amount` is zero at first, because the only instance is static, and is
written and read in one access. `wait_dequeue_timed` waits a whole second, which leaves the
nanoseconds as they were, so the deadline is not refused.

The histories say when the code's behaviour is excused: `prompt` are actions signalled before the
worker's wait had lasted its second, `midway` that the worker left while an entry was queued and not
signalled (it can be taken with another's permit, and the other is stranded), `lowered` are actions
stamped with less delay than the one before.

### ThreadPool and GloballyBackedExecutor

*State.* `fate` of a task replaces the queue's contents; `threads` is the vector (workers differ only in
name, so `resize(1)` after `resize(2)` flags any of them), `flagged` the atomics that the vector of flags
shares with the threads. `mutex` is held by a worker in the predicate of `cv.wait`; the calls that only
lock and notify are one step with the guard that the mutex is free.

*Pop.* The queue promises less than a sequential one: a pop that begins while a task is queued may fail
if other pops have reserved meanwhile, one for each sub-queue. `seen` are the tasks that a pop cannot
miss, and a pop that fails takes two steps, `doomed` and the return, because the reservation it lost
against may be given back in between. `blinded` records that a pop of the controller, or one over
several sub-queues, hid a task; then nobody promises anything. The two properties of the pool are the
reasons for its order of steps: `push` notifies under the mutex, and a worker pops again under it before
it sleeps. `nWaiting` is a statistic.

*Executor.* A cell is its index. A launched function takes an index (and waits for one while `indices`
is empty), runs the behaviour, and gives the index back when its scope ends, by an exception too.
`increase_mem` initialises and offers the cells one by one; it has one caller, as two at once would
give one index to two cells. `GlobalPool` is the pool at its construction size.

### ImplicitProducer

Every access to a shared variable is a step, in the order of the code: the four counters, the entries
of the block index (`key`, then `value`), the slots of a block, its count of dequeued elements, the free
list. `entry` holds the BlockIndexEntry objects in the order of their creation and `header` the headers;
a header that has been replaced stays readable, as in the code. A consumer keeps what it has read in
`my`. Dequeueing one element is `dequeue_bulk` for one: the two functions differ in the order of no
shared access. Allocation may fail at each place where the code asks for memory, and an element's
constructor may throw where `noexcept` does not forbid it; then the entry of the block index is rewound
or reset and the block given back. The destructor runs when no call is going on.

Abstractions: the memory is sequentially consistent, so the memory orders of the code are not examined;
the indices do not wrap around; the free list is a set; there is one producer with the elements of its
own, which is what separates implicit producers from each other.

## 3. Runs

| Run | Instance | Shows |
|---|---|---|
| `overdraw` | 2 threads, 3 handles, 1 weak handle, 1 preferred and 1 spare pack, 1 overdrawn rental at a time, builder may throw | `TypeOK`, `ExclusiveRental`, `CallbacksAlternate`, `ListedOnce`, `BorrowAssertions`, `PermitsBacked`, `NoResourceStranded`, and the refinement `ContractKept` |
| `blocking` | 3 threads, 2 handles, 1 weak handle, 1 preferred pack, no overdraws | `NoResourceStranded`, and `CallsReturn` under fairness |
| `indices` | 2 threads, 2 handles, 2 weak handles, 2 preferred packs, overdraws, builder may throw | `IndexConserved`, and `IInv`, the invariant of the proofs |
| `stats` | 3 names, 4 constructions | `TypeOK`, `MaxRightWithoutOverlap`, `SumWithinBounds`, `ConstructorsFinish` under fairness |
| `stats_peak` | 2 names, 2 constructions | `MaxIsPeak` is violated (finding 1) |
| `abortable` | 3 threads | `TypeOK`, `OneHolder`, `SleepersAreDue`, `EarlyOnlyIfReverted` |
| `abortable_assert` | 2 threads | `NeverWokeEarly` is violated (finding 2) |
| `blocking_queue` | 2 consumers, 2 producers, 3 entries, bulks and batches of 2, a timeout of half a second | `TypeOK`, `Balance`, `EntriesBacked`, the refinement `SemaphoreKept`, and `CallsReturn` under fairness |
| `delay` | 1 client and tasks that submit, 2 actions each, delays 0 and 2, an idle time of 2 | `TypeOK`, `PromptIsNotLost`, `HeldBackOnlyIfLowered`, `AtMostOneAfterDestroy`, and `ActionsEnd` under fairness |
| `thread_pool` | 2 threads, 2 tasks, sizes 1 and 2, 3 calls of the controller, 1 spurious wakeup | `QueuedTaskIsSeen`, `StopRunsAll` |
| `executor` | 2 threads, 2 tasks, 1 cell, 1 call of the controller | `TypeOK`, `CellsKept`, and `LaunchesEnd` under fairness |
| `implicit_producer` | 2 consumers, 3 blocks of 2 slots, an index of 2, 5 elements, 4 reservations, bulks of 2 | `ClaimsAreEnqueued`, `ElementsAreFound`, `BlocksAreKept`, `FailureIsExplained` |

*Bounds.* The pool's races are between two calls: an index owner against a thread that came through
the queue, two acquirers after one index, a destructor against a borrow. Two threads make each of them;
three handles let a rental be shared and a second resource be out at once; one preferred pack makes the
index run out at once; the spare pack and the overdrawn name add the other two kinds of rental.
`indices` gives the weak handles two indices to hold and to recycle. `blocking` has three threads so
that two wait while one returns a resource. The theorems cover every larger instance of the safety
properties. In `OverdrawStats`, `MaxBuilt` bounds constructions; reuse of a name
needs one more construction than there are names. Three threads in `AbortableLock` are a holder, a
sleeper and a thread that runs between them.

In `blocking_queue`, two sleepers beside two signals, one of them for two entries, are what makes a
partial wakeup and a timeout that races it; three entries leave one over for a call with phantoms.
The theorems cover larger instances of `Balance`, `EntriesBacked` and the refinement. In `delay`, two delays make every
order of due times of two actions, and a delay as long as the idle time lets the worker be late for it
and in time. `thread_pool` needs two workers for one that is hidden from another, and three calls of the
controller for a resize, a pop and a stop in any order; each spurious wakeup is one more turn of the
same loop. `executor` has more tasks than cells and as many workers as tasks, so that a worker blocks
for a cell and all can. In `implicit_producer`, five elements of blocks of two fill three blocks, more
than the index of two has entries, so it is extended, its entries are reused, and blocks come back from the free
list; four reservations allow two consumers to fail and to claim two at a time across a border of blocks.

*Deadlock* is checked in the pool and the lock. `OverdrawStats` stops by design after `MaxBuilt`
constructions. The other models may stop because every call of a client is optional and bounded
(entries, actions, calls, elements), the worker of `DelayThread` leaves, the pool is destroyed, and a
consumer may wait for ever for what nobody enqueues; there the liveness properties speak for deadlocks.

*Fairness.* No specification is fair to a client that decides to call. `ResourcePool!Fairness` says that a thread inside a call is scheduled when it can step, and
that clients drop the handles they have; it does not say that clients make calls. `CallsReturn` then
speaks of behaviours in which clients eventually start nothing new: under unlimited new calls an index
owner may overtake a waiter for ever, and the code does not prevent that. `OverdrawStats` assumes that
a constructor that has begun is scheduled. `CallsReturn` is checked for builders that do not throw. With
one that throws it is false: the thrown call gives back its index, but no entry to the queue, so a thread
that is already blocked in `wait_dequeue` sleeps on, and a spare pack whose builder throws is not queued
again. `BlockingQueue!FairSpec` schedules operations that have begun; the operating system does that.
`DelayThread!FairSpec` schedules the worker, calls that have begun and the destructor's join, and lets
time pass. `GloballyBackedExecutor!FairSpec` schedules threads, assumes that behaviours end (the
executor cannot promise anything about one that does not), and that who waits for a mutex that stays
free gets it.

## 4. Proofs

Each module of theorems proves an inductive invariant of the specification (`Invariance` of `IInv`, in
`ThreadPoolTheorems` `PoolInvariance` of `PoolInv`) and derives the properties from it.

Of `ResourcePool` TLAPS proves, for every number of threads, handles, packs and indices (from `SizeAssumption`,
`NamesAssumption` and `ThreadsAssumption`, which only say that `max_resources` is a natural number, that
there are finitely many spares and threads, and that names of different kinds differ):

| Theorem | Property |
|---|---|
| `Invariance` | `IInv` |
| `TypeCorrect` | `TypeOK` |
| `RentalsExclusive` | `ExclusiveRental` |
| `Callbacks` | `CallbacksAlternate` |
| `FreeListExact` | `ListedOnce` |
| `NothingStranded` | `NoResourceStranded` |
| `IndicesConserved` | `IndexConserved` |
| `AssertionsHold` | `BorrowAssertions` |
| `Implements` | `ContractKept` |
| `PermitsStandForPacks` | `PermitsBacked` |

The argument. None of the safety properties is inductive alone. `IInv` adds
what the program counter of a call says of its locals (`CallOK`), that a handle being filled is empty and
that a weak handle's live rental has a strong one (`HandlesOK`), that a pack without its T has exactly
one rental and is registered in `who_owns_me` (`RentalsOK`), and that a spare pack is in one place only:
queued, in the hands of one thread, or rented (`QueueOK`). With these, each action is one step of each
preservation lemma:

1. `TypedStep`, `HandlesStep`, `IndexStep`;
2. `RentalStep`: a borrow needs that the T was at home, a give-back that its thread is the only destroyer;
3. `QueueStep`: `in_free_list` is true exactly while one entry exists. A pack whose entry has been taken
   from the queue counts as listed until `RemoveFromFreeList`, so the unprotected write cannot clear the
   flag of a later entry;
4. `StrandedStep`: when the enqueue is skipped because the flag is set, `ListedOnce` yields an entry in
   the queue or a thread in `unlist`, which has still to borrow and will find the T;
5. `ContractStep`: every step is a step of the contract or leaves it alone;
6. `BackedStep`: the entries of the queue are a finite set of numbered copies, and so are the threads that
   have taken a permit or owe one. `Enqueue` and `Take` move one entry and one thread, `Dequeue` and
   `Signal` one thread and one permit, and no other action moves any. It needs the types only, so it
   would also hold of a queue with several entries of one pack.

The other modules' theorems, for every value of their constants that the named assumptions allow (sets
of threads are finite, bounds are natural numbers, the names of no thread and no task are none of them):

| Module | Theorem | Property |
|---|---|---|
| `AbortableLockTheorems` | `TypeCorrect`, `Exclusion`, `SleepersDue`, `EarlyOnlyByRevert` | `TypeOK`, `OneHolder`, `SleepersAreDue`, `EarlyOnlyIfReverted` |
| `OverdrawStatsTheorems` | `TypeCorrect`, `MaximumRight`, `SumBounded` | `TypeOK`, `MaxRightWithoutOverlap`, `SumWithinBounds` |
| `BlockingQueueTheorems` | `TypeCorrect`, `WakeupsBalance`, `PermitsStandForEntries`, `Implements` | `TypeOK`, `Balance`, `EntriesBacked`, `SemaphoreKept` |
| `DelayThreadTheorems` | `TypeCorrect`, `HeldBack`, `LastTaskOnly`, `PromptRun` | `TypeOK`, `HeldBackOnlyIfLowered`, `AtMostOneAfterDestroy`, `PromptIsNotLost` |
| `ThreadPoolTheorems` | `PoolInvariance`, `WorkConserved`, `StopRunsWhatWasPushed` | (`PoolInv`), `QueuedTaskIsSeen`, `StopRunsAll` |
| `GloballyBackedExecutorTheorems` | `TypeCorrect`, `CellsAreKept`, `RunsThePool` | `TypeOK`, `CellsKept`, (`PoolSpec`) |
| `ImplicitProducerTheorems` | `NothingClaimedEarly`, `FailuresExplained`, `BlocksInvariance`, `ElementsFound`, `BlocksKept` | `ClaimsAreEnqueued`, `FailureIsExplained`, (`BInv`), `ElementsAreFound`, `BlocksAreKept` |

Their arguments:

* *OverdrawStats*: the count is the number of rentals that exist (`CountRight`) and the sum is bounded by
  those that have not added to it yet (`SumRight`). While no two constructors have overlapped, at most
  one is under way, and `MaxRight` says at each of its steps how the maximum, the peak and its local
  `overBy` stand to each other.
* *AbortableLock*: the reason for which a wait ended is still there until `cv.m` is released
  (`ReasonKept`), and `DozersAreDue` extends `SleepersAreDue` to threads that will fall asleep.
* *BlockingQueue*: `Balance` relates the count to the sleepers, the kernel's permits and the posts on their way.
  It is inductive with the types, and a sleeper that wakes or settles its timeout is then a step of the
  counting semaphore. The proof counts: a step adds one thread to `Waiting`, removes one, or keeps it.
  `EntriesBacked` sums, over the threads, the permits that were obtained and not yet used and the entries that were
  enqueued and not yet signalled; each step moves units between two of these sums, the counts and the entries.
* *DelayThread*: the actions of a submitter are queued in ascending order (`QueuesAscend`); of two of
  them, the later one is due no earlier unless the delay was lowered between them (`DueInOrder`), for
  which the last action must be due within its delay (`DueWithinDelay`). For
  `PromptIsNotLost` it adds that each queued action has its permit or a submitter that is about to give
  it (`PermitsCounted`), and that an action is prompt only after its signal (`PromptSignalled`): a worker
  that leaves without a permit leaves no prompt action behind.
* *ThreadPool*: while a worker sleeps or is about to, every queued task has a worker on its way to the
  queue or a push that will notify (`Conserved`); a worker that evaluates the predicate sees every
  announced task but those that workers waiting for the mutex have hidden, one each (`PredicateSees`).
  Once a worker sleeps or leaves, as many others are on their way or run as tasks are due
  (`DueHaveWorkers`); for `stop(true)`, what was popped is run (`PoppedAreRun`), and what was pushed before is queued, popped or
  done until the join, which ends only when it is done (`EarlyOK`).
* *GloballyBackedExecutor*: `increase_mem` initialises the cells in ascending order
  (`GrowthInStep`), so the index it offers is new. The steps of the pool change no cell, and
  those of the executor leave the pool's variables alone or are a worker's step from a task to its end.
* *ImplicitProducer*: `Balanced` accounts for every reservation: it is claimed, made good, or in somebody's
  hands. Consumers reserve by values of the tail that differ in age, so `WithinTail` speaks of every tail
  there may be later: what is claimed and what could be claimed by a thread that loaded it now does not
  exceed it. `Knows` bounds how stale the values are that a consumer has loaded: by the
  reservations that others have lost since it began (`dooms`).
* *ImplicitProducer, the blocks* (`BInv`, on top of `IInv`; the destructor's end has a case of its own). A
  block's number is its base divided by `BLOCK_SIZE`; `IndexOK` says that the slots of each header have
  the numbers in their order round the ring (`Aligned`, a congruence modulo the header's capacity), that
  keys are at most one ring old with no gap below the newest, and that a replaced header is full of keys and its
  capacity divides that of the present one: so what a stale reader computes from an old header is
  the slot that the present one means (`Lookup`). `ContentsOK` counts: a block's dequeued elements and
  those that no consumer has counted yet (`Open`) make `BLOCK_SIZE`, so an entry is cleared and its key
  overwritten only when nobody looks for it any more. `Reader` says what a consumer's loads still
  mean, `Apart` that two consumers share no element, and `KeptOK` that each block is in one place. Each
  action has a lemma that it keeps `BInv`; the counters enter by `IInv` and `IInv'`. The assumptions are that
  `BLOCK_SIZE` is a natural number of at least 2, the index begins with at least 2 entries (both are
  powers of two in the code), and that a block is neither null nor the garbage of an uninitialised entry.

*Only model-checked*: liveness, which is out of the prover's reach: `CallsReturn` of the pool and of
the queue, `ConstructorsFinish`, `ActionsEnd`, `LaunchesEnd`. Every safety property that a passing run checks
is a theorem.

## 5. Findings

1. **Max overdraw can be too low** (`I/resource_pool_impl_overdrawn_resource.hpp:11-16`). The loop tests
   `max_overdraw < over_by`, then loads `cand` again and exchanges it without comparing `cand` with
   `over_by`. A constructor that was overtaken after the test lowers the maximum. `stats_peak` shows it
   with two rentals; `MaxRightWithoutOverlap` shows that overlapping constructors are necessary.
2. **The "woke up early" assertion of `lock_or_abort` is reachable** (`I/abortable_lock.hpp:43-51`). The
   abort condition is evaluated twice; if it is true and then false while the lock is occupied, the
   assertion fails. `EarlyOnlyIfReverted` shows that there is no other way.

Observations without a promise of the repository to hold them against; the models contain them, and the
properties name them as exceptions:

* `AbortableLock`: `unlock` notifies outside `cv.m`, so a notification between a waiter's reading the flag
  and its falling asleep is lost, and that waiter sleeps beside a free lock until somebody else
  notifies. `SleepersAreDue` states that this window is the only one.
* `BlockingConcurrentQueue`: a deadline with exactly one second of nanoseconds is refused, and the wait
  reports a permit it does not have (`I/blockingconcurrentqueue.h:219`).
* `DelayThread`: the worker leaves after one idle second, and what is submitted later is never run; an
  action can also be stranded because its permit was used for one that was queued and not yet signalled.
* `ThreadPool`: a pop of the controller, or several sub-queues, can hide a task from a worker that
  then sleeps beside it. A push that is under way when `stop(true)` begins may be deleted unrun.
  Threads that `resize` detaches can outlive the pool.
* `GloballyBackedExecutor`: overlapping calls of `increase_mem` take the same index, and
  `remember_these` may be reallocated under its readers.

## 6. Not modelled

* `FutureFreePool`: the implementation with a pool is unreachable; what remains detaches a thread.
* `eventfd`: one system call for each operation, with no state of its own.
* `ConcurrentQueue`: explicit producers, tokens and `enqueue_bulk`, which nothing in the library uses.
  The list and the hash of producers and their recycling when a thread exits: a model of them with the
  sub-queues is beyond TLC, and without them says little. Further the algorithm of the free list (a set
  here), a failing allocation in the constructor, the memory orders (TLC explores interleavings), and
  wrap-around of indices.
* `BlockingConcurrentQueue`: moving and swapping, which its documentation excludes from concurrent use.
* `ResourcePool`: the race in the assertion of `WeakResource::is_locked`, for which `shared_ptr` and
  `weak_ptr` operations would have to be split in every action; callbacks that throw; `number_waiters`.
* `ThreadPool` and executor: races on the vector of threads and on `remember_these`, whose
  outcome is undefined; `pool_alive` and the lifetime of the executor; `pending_set`, which is never filled.
* Debug output and strings, the types of templates and argument forwarding, tests and build files.
