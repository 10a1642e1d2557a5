# TLA+ models of the VGRE runtime

VGRE runs CUDA programs on a CPU: an API layer that looks like the CUDA driver and runtime, a compiler
for kernels, a runtime engine that turns launches into tasks, a scheduler that runs the tasks of
streams on a pool of workers, an executor that runs the threads of a block, and around them a cluster,
a memory manager, a multi-tenant layer and services. This directory models its concurrent core, what
happens to a kernel launch between the call that submits it and the end of its last thread, and those
of the services around it whose state is shared by threads, machines or restarts.

`PROJECT.json` lists the components, the runs with their configurations, the source lines each
definition stands for, a mutation that each property detects, the hazards of the code, the
disagreements found and the theorems.

## The system

### Components, their state and their operations

| Component | State | Operations | Module |
|---|---|---|---|
| Chase-Lev deque (`scheduler.h`) | `top_`, `bottom_`, a circular buffer | `push`, `pop` (owner), `steal` (anyone) | `ChaseLevDeque` |
| SPSC ring (`scheduler.h`) | `head_`, `tail_`, slots | `push`, `pop`, `empty` | `SPSCRing` |
| Indexed heap (`scheduler.h`) | `data`, index `pos` by stream | `push`, `pop`, `updatePriority`, sifts | `IndexedHeap` |
| Scheduler (`scheduler*.cpp`) | `queue_`, `numaQueues_`, a deque and a ring per worker, a `StreamQueue` per stream, `pending_`, `shutdown_`, `cv_` | the four submit calls, `workerLoop`, `waitAll`, `waitStream`, constructor, destructor, `setThreadCount` | `Scheduler` |
| Dependency tracker (`graph_dependency_tracker.cpp`) | tree of counters `tree_`, `slotMap_`, `eventSnapshots_` | `notifyKernelComplete`, `recordEventCounter`, three queries | `StreamDepTracker` |
| Block barrier (`gpu_thread_context.h`) | `waiting_`, `generation_`, reduction accumulators | `arrive_and_wait`, `arrive_and_reduce` | `BlockBarrier` |
| Task queue (`block_worker_pool.h`) | cells with sequence numbers, two positions | `push`, `pop` | `MPMCQueue` |
| Block worker pool (`block_worker_pool.cpp`) | `taskQueue_`, `stop_`, `queueCv_`, a completion signal per dispatch | `initialize`, `dispatch`, `workerLoop`, `shutdown` | `BlockWorkerPool` |
| Executor (`cpu_parallel_executor.cpp`) | none across launches | chooses a path per launch: grid, `executeSyncthreads`, cooperative, cluster | its `executeSyncthreads`, which nothing calls, in `BlockWorkerPool` |
| Event (`event.cpp`) | a shared future, `recorded_`, `cv_` | `record`, `synchronize`, `elapsedTime` | `Event` |
| KV cache (`kv_cache.cpp`) | free list, owner tag per block, block table per sequence | allocate, reserve, append, free | `KVCache` |
| Continuous batching (same file) | waiting queues by size, a tree over them, `running_` | add, cancel, `step` with its executor | `ContinuousBatch` |
| Traffic manager (`traffic_manager.cpp`) | breaker state and counters; token bucket | `allow`, `onSuccess`, `onFailure`; `tryAcquire` | `CircuitBreaker`, `RateLimiter` |
| MIG manager (`mig_manager.cpp`) | slot maps, instances, the pinned one | configure, create, destroy, allocate, free, pin, reset | `MigManager` |
| Audit log (`audit_log.cpp`) | chained records, subject keys, two files | open, append, `forget` | `AuditLog` |
| Secret store (`secret_store.cpp`) | versioned secrets, one file | put, rotate, remove, prune, policy, get | `SecretStore` |
| NCCL collectives (`api/nccl/`) | one `NcclGroupState` per communicator | the collectives, send and receive | `NcclCollectives` |
| XLA thread pool (`xla/thread_pool.cpp`) | a deque per worker, `pending_`, a counter per job | `parallelFor`, worker loop, destructor | `XlaThreadPool` |
| TCP cluster (`advanced/tcp_cluster/`) | `clients_`, transmit queues, results by kernel, flight counters | launches on a worker, responses, joining, purging | `ClusterDispatch` |
| Graph manager, memory manager, ledger, secure channel, MPS/IPC | see `PROJECT.json` | | not yet modelled |
| Compiler, API shims, XLA evaluator, vector engine, cryptography, bindings | mostly none a bounded model would explore | | not modelled |

### How they interact

A host thread calls `submitStreamTask`. The task joins its stream's queue, and if the stream is not
being processed its front item goes to the global heap `queue_`, from which a worker takes it. The
worker runs it, retires it under the stream's mutex and puts the stream's next item in its own deque,
where other workers may steal it. `submitConcurrentTask`, `submitNumaTask` and `enqueueToStream` bypass
the stream's queue; the last of these uses the ring of one worker. A finished task is counted in the
dependency tracker. `waitAll` watches `pending_`, `waitStream` the stream's queue. The code of a compiled
kernel with `__syncthreads` calls `vgre_jit_block_dispatch`, which gives the block worker pool one task
for each thread of a block and waits until all have completed; these meet at the block's barrier. So a
scheduler worker is a dispatcher of the pool, and two streams can dispatch at once.

An event's `record` is a task of a stream that resolves a future; a host waits for the future. The
cluster's master chooses a worker, queues the arguments and the launch for it, and may wait for the
response, which the worker sends once its own runtime has enqueued the kernel. NCCL ranks, which are threads of
one process, meet in a shared group state. The batching scheduler owns the KV cache and calls the
model's executor for each token, from which the cache can be called again. The breaker, the limiter,
the MIG manager, the audit log and the secret store are each called by any thread and do not call
each other.

### What is hard about it

- **Lock-free structures.** The deque, the ring and the task queue publish items by ordering single
  accesses; their mistakes show only when a thread is delayed between two of them.
- **Claims about who calls.** The deque wants one thread that pushes and pops, the ring one producer.
  Whether the callers keep to this is decided elsewhere (the destructor, a full ring's detour to the
  deque of another thread, the choice of a ring by `streamId %`).
- **Wakeups.** Many notifications are sent without the mutex under which the waiter looked.
- **A flag handed from thread to thread.** `isProcessing` must be true from the moment an item of the
  stream exists until its last task is retired.
- **Destruction.** `~Scheduler` and `shutdown` act while the workers run.
- **Gang scheduling.** A block needs all its threads at the barrier, so running fewer deadlocks.
- **Values kept across an unlock.** An event's future, the number of a secret's version, an index into
  `clients_` and a clock reading are all used after the lock is gone.
- **Answers without a name.** Cluster responses carry the kernel and not the launch, and a
  breaker's reports not the period they belong to: late ones are taken for new ones.
- **Rewriting a file in place.** Key file and secret store are emptied and then written; a crash may
  come between, and a failure to open or to write them is not reported.

The main hazards, each at its line and with the properties aimed at it, are in `PROJECT.json`; where the
code does not withstand one, see *Deviations*.

## Modules

    WorkPool       <--implements--  ChaseLevDeque       (QueueProofs)
    BoundedFifo    <--implements--  SPSCRing, MPMCQueue (QueueProofs)
    PriorityPool   <--implements--  IndexedHeap         (PriorityProofs)
    StreamOrder    <--implements--  Scheduler           (SchedulerProofs) uses the three above as
                                                        abstract containers
                                    StreamDepTracker    (StreamDepTrackerProofs)
                                    BlockWorkerPool     (BlockWorkerPoolProofs) uses MPMCQueue and
                                                        BlockBarrier abstractly
                                    BlockBarrier        (WaitProofs)
                                    Event               (WaitProofs) over streams as StreamOrder
                                                        gives them
                                    XlaThreadPool       (WaitProofs)
                                    ContinuousBatch     (PriorityProofs) extends KVCache
                                    AuditLog, SecretStore                    (StoreProofs)
                                    RateLimiter, MigManager, ClusterDispatch (ServiceProofs)
                                    CircuitBreaker, NcclCollectives

`MCScheduler`, `MCStreamDepTracker`, `MCBlockWorkerPool` and `MCContinuousBatch` give their module the
model values and functions of its configurations. `MCQueues`, `MCWaits` and `MCTables` each check
several components that share nothing: the initial state chooses one (`which`), only its actions are
enabled and the variables of the others keep their initial values, so the states are the sum of the
components' and not their product. All memory accesses are sequentially consistent in the models.

**WorkPool, BoundedFifo, PriorityPool, StreamOrder** are the abstract specifications: a set from which
each item is taken once; a channel of bounded length; a bag that gives an item of the highest
priority; per stream a queue whose tasks run one at a time, in order and once.

**ChaseLevDeque.** A step per atomic access of `push`, `pop` and `steal`: the loads of the indices, the
load or store of the cell, the compare-exchange, the restoring store. `takes` counts how often each
item was returned. `Poppers` are the threads that call `pop`: the owner only, or also the destructor.
Items are numbered in the order of their pushes; `MaxPush` bounds them. The two index words are
64 bits and do not wrap in practice; they are naturals.

**SPSCRing.** A step per access. `head_` and `tail_` are counted modulo `RingWord`, which stands for
2^64, so that runs wrap them; `RingProducers` is one thread, or two to study the scheduler's use.

**IndexedHeap.** `data` and `pos` as in the code, `pos` with one entry per stream. A call is the action
that starts it and then one action per round of `siftUp` or `siftDown`; `mode` and `at` are the loop's
position. The caller holds `mutex_`, so calls do not overlap. Items are numbered as they are pushed;
`taken`, the numbers popped, is the history that `PriorityPool` sees.

**Scheduler.** Threads are the workers, the hosts and the destroying thread. The containers are
sequences and sets whose operations are atomic, which is what the modules above establish; a pop from
`queue_` may return any item, so nothing here relies on priorities. `mutex_` and the stream mutexes are
variables where a thread holds one across a step or waits for one while holding another; a critical
section that is a single step is otherwise atomic. `cv_.wait` is three steps: evaluate the predicate
with `mutex_` held, release and block, wake. A notification wakes only the threads blocked at that
moment. Items are tagged with what they do: `stream` items end by starting their successor, `solo`
items do not, and an `empty` item is the moved-from one that a full ring leaves behind. `pending_`
wraps modulo `WordSize`. `accepted`, `log`, `runs` and `owed` are history, and so is `emptied`, the tasks
whose item was moved from by a full ring's `push`. Abstracted: the worker's
brief spin over its ring is one look, steal victims are tried in any order, `completed_` and the other
statistics are left out, tasks do not throw, and a task does not itself call the scheduler.

The containers' operations are atomic only while each deque has one owner. `~Scheduler` pops a deque
whose worker may be popping or pushing, and pops its ring; a producer that meets a full ring pushes to
the worker's deque. `Race` has what such an overlap can do, action by action: an item gets into two
hands (`TakenTwice`), an index is left below the other and the next push is out of sight
(`PopsOverlap`, then `FinishLost`), a push is overwritten or overwrites (`PushOverlaps`). `collided`
is history: `"no"` until the first overlap, `"lost"` after one that hides an item, and `"twice"` after one
item has two owners, from where on the code deletes and runs freed memory and the model stops. What an
overlap does step by step is in `ChaseLevDeque` with a second popper. An item in two hands needs two
items in one deque, which the runs, with deques of one, do not have; the ring's case they have.

**StreamDepTracker.** The array `tree_` with the code's index arithmetic, a step per access: `slotOf`
under its lock, the increment of the leaf, and for each level the load of the left child, the load of
the right child and the store of their minimum. Streams have tasks: `Enqueue` submits one, a task that
has run is counted by `notifyKernelComplete`, and `record` submits its own task before it takes the
snapshot (`RecordSubmit`); `own` and `done` tell what was in front of a record and what has run. The right child of node S-1 is not in the array; reading
it gives any value of `Junk`. `waitEventSatisfied` is an operator; the two tree queries only read, have
no caller outside the tests and are not modelled. `nextSlot_` is kept modulo S. `Below` is the
reference: the leaves below each node, given by its defining equations and computed in the `MC` module.

**BlockBarrier.** `arrive_and_wait` and `arrive_and_reduce` with three kinds of reduction. Arriving is
one step under the mutex: the last thread resets the counters, stores the result, begins the next
generation and notifies; the others wait. Leaving, and a spurious wakeup, are steps of their own.
`GenMod` stands for the width of `generation_`.

**MPMCQueue.** A step per access to a shared word: load the position, load the cell's sequence number
and compare, the weak compare-exchange (which may fail), the cell, the sequence number. Positions are
naturals.

**BlockWorkerPool.** Dispatchers and workers. `initialize` starts the workers and waits for them with
`queueMutex_` held; `dispatch` pushes the tasks one by one, takes and releases `queueMutex_`, notifies,
looks at `remaining` and waits; a worker pops, runs its thread of the block through its barriers,
decrements `remaining`, and on the last one notifies under the signal's mutex. A worker's failed pop and
its look at `stop_` are two steps, with pushes and `shutdown` in between. `shutdown` sets `stop_`,
notifies and joins. There are two ways in: compiled kernels call `vgre_jit_block_dispatch`, which passes
every block on (`jit`); `executeSyncthreads`, which has no caller, initializes the pool first and runs
blocks wider than the pool on the calling thread. `Launches` is the set of assignments of a kernel
(block width, number of barriers, way in) to each dispatcher from which the initial state takes one.
Abstracted: spurious wakeups, affinity, the choice of the pool's size; kernels do not throw.

**Event.** A future is the number of the `record` that made it. `record` is one step. The task that
resolves it sets the value and then notifies, without the mutex; a blocking `synchronize` looks at the
future and then sleeps, with the mutex: two steps each. A wait's time limit may end it at any moment.
After the scheduler is shut down a record's task is refused, and its promise is broken. `ahead` is the
history of what was in front of each record.

**KVCache, ContinuousBatch.** The cache is one record and its methods are functions of it. `step` is
split where it calls the executor, since the executor may call back into the cache and the scheduler,
and may fail: phases `prefill` and `decode` are those points, `retire`, `admit` and `next` what `step`
does between them, one request at a time and with no other call in between. The executor may also be
cleared, by the caller or by itself; the next token then ends the step (`NoExecutor`). The waiting index is the
code's array `waitingTree_` of bucket numbers with its update and its query; their loops, and the loop
that frees a sequence's blocks, are recursive functions of the round. Abstracted: the contents of tokens, quantisation, the statistics.

**CircuitBreaker.** Clients read the clock, ask `allow`, call a backend that may be down, and report,
each as a step, so that reports come late and clock values are old. Time is kept as the difference to
`openedAtMs_`, capped where nothing more depends on it. **RateLimiter.** `tryAcquire` and `available`
with any clock value up to now; tokens are whole numbers and a tick brings `Rate` of them.

**MigManager.** First-fit placement in the two slot maps, creation that fails after its compute slots
were taken, compute instances, byte accounting modulo `Modulus`, pinning, and `configureDevice` with the
seeds of the environment. A UUID is a fresh number.

**AuditLog.** A MAC is what it was computed from. Each file write is a step that spoils and one that
completes; a crash may come between any two steps, and loses the memory. `open` reads both files.
`forget` erases the key under the mutex, gives it up, and appends the tombstone. A write or flush of
the log may fail, with nothing, a part or all of the frame in the file; the stream swallows every later
one, and `append` goes on as if nothing had happened. `unwritten` is the history of the records this
happened to. A log that is not open acknowledges appends too (`AppendNowhere`). `MaxKeyFaults` lets the
key file fail to open. **SecretStore.** Likewise for the store's file; `get` is two critical
sections. `seen` is the history of the values that were newest while a `get` ran.

**NcclCollectives.** What a rank does between two waits is one step under `mu`. Buffers hold bags of
contributions, so that "each rank's data once" can be told from any other sum. Flat and ring
algorithms, gather, scatter and point-to-point calls are all there; `Kinds` chooses. A wait may time
out.

**XlaThreadPool.** Every thread has a stack of frames, since a body may call `parallelFor` and a joiner
runs other tasks. Deque operations, the counting of `pending_`, the scan for a victim and the
completion counter are separate steps.

**ClusterDispatch.** The connections of the master, a transmit queue and a pair of FIFO channels to each
worker, and the launch on one worker (`distributeRegisteredKernel` with `REMOTE_NODE`): choose a worker
and keep its index, stream the arguments and the launch into its queue, flush it, let the worker enqueue
the kernel with the arguments it has and answer, store the response by kernel, take it. Connections are
made, lost and purged between the steps, the index included; a queue may be full after any argument;
packets are dropped while the handshake lasts and by the rate limiter; waits time out. A packet is a
launch with the arguments the worker will have in `pending_args_` when it meets it, since those of a
launch that broke off stay there for the next (`tail`). `lost` and `shared` are history. Abstracted: what arguments hold,
memory transfer, the handshake's messages, the scores by which workers are chosen (any is), and what
becomes of the kernel after it was enqueued. The partitioned launch is not modelled: see *Deviations*.

## Runs

Every run takes less than four minutes. A "violation" run states a sentence of the code's
documentation and shows a behaviour where the code does not keep it; see *Findings*.

| Run | Instance | Checks |
|---|---|---|
| `queues` | deque: owner, 2 thieves, 3 cells (2 usable), 4 pushes; ring: 2 slots, words modulo 4, 7 pushes; task queue: 2 producers, 2 consumers, 2 cells, 4 items | `ImplementsWorkPool`, `EventuallyTaken`, `ImplementsFifo`, `EventuallyPopped` |
| `waits` | barrier: 3 threads, 3 calls, generation modulo 2; NCCL: 3 ranks, every program of 2 collectives, 1 timeout; events: a blocking and a polling one, 2 streams, 1 host; breaker: 3 clients, threshold 2, 1 probe, 1 outage; pool: 2 workers, a job with a nested one | `BarrierSound`, `BarrierPasses`, `CollectiveRight`, `CollectivesFinish`, `SyncSound`, `SyncReturns`, `BreakerRecovers`, `ForReturns` |
| `tables` | heap: 2 streams, 3 priorities, 4 items; audit log: 2 subjects, 2 threads, 3 appends, 2 crashes, a failed write and a key file that does not open; secrets: 1 name, 2 principals, 4 values, 1 crash; MIG: 7 and 8 slices, 3 instances; limiter: rate 2, burst 3; pool: 2 callers; cluster: 2 connections, 2 threads, 2 launches of kernels with 1 and 2 arguments, 2 troubles; tracker: 2 threads, 3 streams on 2 slots, 1 event | `PosSound`, `HeapOrder`, `ImplementsPriorityPool`, `AckedSurvives`, `ErasedForever`, `RemovedStaysGone`, `GetSound`, `PartitionExact`, `RateBounded`, `ForReturnsSound`, `ArgumentsOwn`, `RepliesSound`, `InFlightExact`, `NeverOverReports` |
| `streams` | 2 hosts, 2 workers, 3 tasks on 2 streams | `WaitSound`, `ImplementsStreamOrder` |
| `entry_points` | 2 workers, 2 stream tasks, a NUMA task, 2 ring tasks, ring and deque of one item, destructor | `Drained`, `DroppedByRaceOnly` |
| `liveness` | 2 workers, 2 tasks of a stream, a concurrent and a ring task, destructor | `EventuallyRun`, `WaitAllDrainsRings`, `DtorReturns` |
| `wait_all` | 2 hosts, one concurrent task each | violation of `WaitSound` |
| `destructor` | 2 workers, 2 tasks of a stream, destructor | violation of `NothingDropped` |
| `tracker_events` | 2 threads, 3 streams with 2 tasks on 2 slots, 1 event | violation of `SatisfiedMeansFinished` |
| `block_pool` | 2 dispatchers, 2 workers, a 2-thread block with a barrier beside one without or a wider one, compiled or guarded, shutdown at any time | `DispatchSound`, `DispatchReturns`, `ShutdownReturns` |
| `block_pool_two_kernels` | 2 dispatchers, 2 workers, two compiled 2-thread blocks with a barrier | violation of `DispatchReturns` |
| `batching` | 3 blocks of 2 tokens, batch of 2, requests of 0, 1 and 2 blocks, an executor fault or a missing executor, a block the caller takes | `BlocksPartitioned`, `OldestEligibleRight`, `AdmittedHasRoom`, `RequestsEnd` |

Why the bounds are enough. The lock-free structures are small enough to be full and empty several
times: at least twice as many pushes as usable cells, so a cell is reused and a delayed thread can find
it occupied by a later item. Two thieves, two producers and two consumers are the least number that race
with each other as well as with the owner. Four heap items make three levels, so a sift has two
rounds and a choice between children. Three threads at a barrier include one that is slow, one that
has gone on to the next round and one that opened it. In the scheduler two tasks on one stream are the
shortest chain with a successor, the third is on another stream so that both workers have work, and
rings and deques of one item reach their overflow paths. Two slots make a tree of two levels above the
leaf of slot 1, with the node that reads past the array, and a third stream evicts one of them. A pool
of two workers is the smallest that holds a block with a barrier; three threads do not fit.
Three NCCL ranks are the fewest with a ring step that passes on another's partial sum, and two rounds
let a fast rank be one collective ahead; it cannot be two, since each waits for all. With two
crashes one can come in the recovery from the other. Two cluster launches are one that breaks off or
whose response is late and one that meets what it left behind; one trouble does the first and the other
a purge or a lost packet. Three requests over three blocks make a larger one be passed over by
a smaller one and come back. One probe with two clients calling is the fewest with a late report in
the half-open state.

Deadlock checking is off where the system may rightly be at rest with no thread able to step (hosts
that have submitted all the tasks there are and a scheduler that is destroyed, a ring with its pushes
used up); the liveness properties cover the waits that must end.

### Fairness

Threads are scheduled by the operating system, so a thread that can step does in the end: weak
fairness. Where a thread waits for a mutex, or its step is disabled by others again and again (the
scheduler, the block pool), the assumption is strong fairness: a mutex that is free infinitely often
is obtained. `MPMCQueue` further assumes that a weak compare-exchange which could succeed again and
again does. `ContinuousBatch` assumes of its caller that it keeps calling `step`, sets an executor
again that it cleared, gives back the blocks and sequences it takes for itself, that the executor
fails only finitely often, and that arrivals end: `MaxRequests` is here an assumption and not only a
bound, since `step` admits the oldest request that fits, and small requests that keep coming would pass
a large one for ever. Everything in `waits` needs no more than weak fairness. Nothing is assumed of
hosts beyond finishing the calls they began: no host has to submit, and no destructor has to start.
`EventuallyTaken` assumes that the owner keeps calling `pop`, as `workerLoop` does; `BreakerRecovers`
that clients keep calling and time passes. Timeouts may happen at any time and are not required to,
except `synchronize`'s, which `SyncReturns` counts on: the notification it waits for can be lost.

`waits` and `queues` state fairness per component, each guarded by `which`: what one component's
actions must do is asked only of the behaviours in which it is the one that runs.

## What the models say

**Holds.** With one popper the deque gives each item to exactly one thread. The ring with one producer
and the task queue with any number are bounded FIFOs. Heap order and index survive every sequence of
calls. Stream tasks run one at a time, in order, once, whatever is stolen; `waitStream` does not return
early although it reads the stream's queue under the wrong mutex (`isProcessing` is briefly false while
a task is retired, but then `pendingTasks` is not yet empty). Submitted stream and concurrent tasks
run: `queue_` is tested in the wait predicate under `mutex_`, and an item that a worker puts in a deque
will be popped by this same worker. The barrier does not let anyone run ahead, nor a reduction's
result be replaced before the slowest thread has read it. `dispatch` returns only when no worker can
touch the caller's stack any more, and the lock taken and released between the pushes and the
notification is what makes the wakeup certain.

A `synchronize` that reports success is never fooled by a later or an earlier record. Flat and ring
collectives deliver each rank's data once, although counters and buffers are shared by consecutive
calls. `parallelFor` returns however the jobs nest, with `pending_` at times below zero. KV blocks have
one owner through every failure of the executor, and an admitted request never lacks one. The breaker
closes again whatever late reports it gets, the limiter keeps its rate with clocks that go backwards.
MIG slots are never shared or leaked. An acknowledged audit record survives crashes, a certificate of
erasure is true, and a removed secret does not return, unless a file cannot be opened or written. No
worker of the cluster runs a kernel with another launch's arguments, although launches break off in the
middle of theirs: the next one overwrites what was left.

### Findings

Each is a run that TLC refutes, with the quoted sentence in `PROJECT.json`.

- `wait_all`: `submitConcurrentTask` enqueues its item and then increments `pending_`. A worker may run
  the item in between; `pending_` wraps and its next increment brings it to zero, so a `waitAll` returns
  with a submitted task not run. Needs the two hosts of the run.
- `block_pool_two_kernels`: `vgre_jit_block_dispatch` gives every block to the shared pool. Two kernels
  that fit one by one do not fit together: each holds a worker at its barrier for ever. (The guard of
  `executeSyncthreads` compares one block with the whole pool and would let both in, too.)
- `destructor`: `~Scheduler` pops a worker's deque while the worker does. Both find it empty, the index
  that one of them restores last hides the successor the worker then pushes, and the stream's next task
  never runs, though it is drained "so they are never silently dropped".
- `tracker_events`: `recordEventCounter` takes the count of completed tasks for its snapshot, which the
  count reaches at once; `waitEventSatisfied` does not tell "when all work enqueued before this record()
  has finished".

### Deviations

Places where the passing runs are stated within a limit, because beyond it the code departs from what
its callers or comments suggest. Each line says how to see it.

| Where | What the code does | How to see it |
|---|---|---|
| `scheduler.cpp`, `~Scheduler` | pops the deques of workers that still pop and push there: an item can be run twice, or never | run `destructor`; `Queues.cfg` with `Poppers = {owner, p1}`: `ImplementsWorkPool` fails |
| `scheduler_tasks.cpp`, `enqueueToStream` | on a full ring, pushes to the deque of a worker that pops and pushes there itself | `PushOverlaps`, in `entry_points`: an item leaves the deque and stays in `pending_` for ever; `EventuallyRun` exempts it |
| `scheduler_tasks.cpp`, `enqueueToStream` | two threads whose streams are congruent modulo the number of workers push to one ring and lose an item | `Queues.cfg` with `RingProducers = {host, p1}`: `ImplementsFifo` fails |
| same | the item moved into a `push` that fails is gone: the task never runs, yet is counted as done | `Drained` without `emptied` fails in `entry_points` |
| `scheduler_worker.cpp`, `workerLoop` | a worker that started before its NUMA node was stored never serves that node's queue, and the destructor does not drain it | `EventuallyRun` with `NumaTasks`, or `NothingDropped` for them, fails |
| `scheduler.cpp`, `~Scheduler` | runs a stream task holding `mutex_`, and that task's successor is enqueued under `mutex_` | `DtorReturns` without `NoBacklog` fails |
| `graph_dependency_tracker.cpp`, `propagateUp` | two propagations overtake each other and leave a minimum that is too small; the last inner node reads one word past the array | "each inner node is the minimum of its leaves" fails, at rest, in `tables` |
| same, `slotOf` | a stream that gets an evicted slot inherits its count | "a mapped leaf counts its stream's tasks" fails in `tables` (`done` is the history for it) |
| same, `queryMinCompleted` | uses the index arithmetic of a 1-based tree | not modelled; compare it with `propagateUp` |
| same, `recordEventCounter` | the snapshot counts completed tasks and not submitted ones, so the event is satisfied at once; an eviction does not make it false either, as the header of the file says | run `tracker_events`, theorem `TrackerRecordedIsSatisfied` |
| `block_worker_pool.cpp`, `workerLoop` | finds the queue empty, then looks at `stop_`: a worker can leave with tasks pushed in between, and the dispatch waits for ever | `DispatchReturns` without its exemption fails in `block_pool` |
| `gpu_thread_context.cpp`, `vgre_jit_block_dispatch` | no guard: a block with a barrier wider than a pool of 64 (`VGRE_BLOCK_THREADS=0`) never ends | `MCOneGang` with a compiled block of 3 threads: `DispatchReturns` fails |
| `kv_cache.cpp`, `step` | the oldest request that fits is admitted, so small ones that keep coming starve a large one | `RequestsEnd` assumes that arrivals end |
| `scheduler.h`, `updatePriority` | reaches one of a stream's items, not all | in `tables`, an item of the stream keeps its old priority |
| `event.cpp`, `record` | after shutdown its task is dropped and it still answers success; the broken promise makes `synchronize` succeed though tasks in front of the record never ran | `SyncSound` without `broken` fails |
| `nccl_collectives.cpp`, `ncclBroadcast` | the root does not wait for the others; a rank that comes late waits for the next generation until it times out | `Waits.cfg` with `Kinds = {"Broadcast"}`: `CollectivesFinish` fails |
| `nccl_p2p.cpp`, `ncclGather`, `ncclScatter`, send and receive | only the last rank to arrive copies, whoever it is; a send completes only when all ranks have called | `Kinds = {"Gather"}`, `{"Scatter"}`, `{"SendRecv"}`: `CollectiveRight` fails |
| `nccl_collectives.cpp`, timeouts | a rank whose second wait timed out returns success and is counted twice in the next collective | `CollectiveRight` of the successful calls, without `timeouts = 0`, fails |
| `traffic_manager.cpp`, `allow` | a probe that never reports keeps its place: half open for good | `BreakerRecovers` without `<>(lost > 0)` fails |
| `mig_manager.cpp`, `instanceAllocate` | `used + bytes` wraps, passes the budget test and lowers `used` | a step of `InstanceAllocate` with 15 of 16 bytes |
| same, `reset` | keeps `configured_`, so that a later `configureDevice` is ignored, although the header says the first call wins unless reset | `Reset` and `ConfigureDevice` |
| `audit_log.cpp`, `append` | nobody looks at the stream after `write` and `flush`: a record that is not in the file is acknowledged, although the header says "durably writes the record", and so are all later ones | `AckedSurvives` without `unwritten` fails |
| same | answers success on a log that is not open, which is what `global()` gives when it cannot open its file | `AppendNowhere` |
| same, `persistKeys` | returns silently when the key file cannot be opened: a certificate is issued for a key that is still on disk, or a record acknowledged whose key is not | `ErasedForever` and `AckedSurvives` without `keyFaults = 0` fail |
| same | empties the key file before it writes: after a crash in between, `open` fails for good, and `global()` then drops every record | a crash between the two steps; the properties say only what an opened log has |
| `secret_store.cpp`, `persist` | the same: a remove that reports success is undone by a restart | `RemovedStaysGone` without `storeFaults = 0` fails |
| same | a crash after the file was emptied leaves an empty store, which opens as a new one | `storeFile.state = "empty"` after a put |
| `dispatch_manager_remote.cpp` | responses are kept by kernel: two launches of one kernel, or one after a wait that timed out, take each other's | `RepliesSound` without `shared` fails |
| same, `handleRemoteCommand` | passes null pointers for arguments that were dropped during the handshake | `ArgumentsOwn` without `early` fails |
| `tcp_cluster_transport.cpp`, `server_packet_dispatch.cpp` | a launch dropped from the transmit queue, and a response over the rate limit, stay counted in `in_flight_kernels` | `InFlightExact` without `lost` fails |
| `hybrid_compute_manager_workload.cpp:223` | a partitioned launch holds `mutex_` and calls `getResources`, which locks it (`dispatch_manager_partitioned.cpp:23`, `hybrid_compute_manager.cpp:72`): it waits for itself before it has a plan | not modelled: nothing comes after it |
| `dispatch_partition_impl.cpp:26` | a partition is dropped without an answer when `auth_token_` is 0, and nothing assigns it (`tcp_cluster.h:388`) | not modelled |
| `dispatch_manager.h:143` | unclaimed responses are never removed, although a cleanup after 60 s is described | `remoteMap` keeps them |

## Proofs

The proof modules prove these for every value of the constants, from the named assumptions in the
modules that declare them.

**QueueProofs**, the deque (any capacity, thieves, pushes; assumption `DequeAssumption` and
`Poppers = {Owner}`, the class's documented contract): `DequeTypeOK`, `DequeNoDoubleTake` and
`DequeImplementsPool`, the refinement of `WorkPool`. The invariant has three parts. `IndexInv` says
where `top_` can be relative to `bottom_` at each point of the owner's code: `pop` lowers `bottom_`
before it looks, so `top_` may be one ahead. `CellInv` says the live cells hold the untaken items, each
once. `ThiefInv` says that a thief whose `t` still equals `top_` has read the cell it is about to claim:
since `top_` never decreases and the owner never overwrites a live cell (`SlotInjective`), the
compare-exchange succeeds only if the cell has not changed since it was read.

**QueueProofs**, the ring (any number of cells, items and consumer steps; `RingAssumption`: the cells
divide the range of the indices, which holds for a power of two of 64-bit words; `RingProducers` has one
member): `RingIsFifo`. The abstract queue is the cells from `tail_` to `head_`, less the item the
consumer has copied and not yet released. The indices wrap, so everything is said of their difference
modulo the word (`RingSize`), and two positions less than the ring's size apart are different cells,
also across the wrap.

**QueueProofs**, the task queue (any cells from two on, producers, consumers and items;
`QueueAssumption`): `QueueIsFifo`. A cell's sequence number tells the state of the one position of the
window it stands for (`WindowInv`); a thread about to compete for a position has seen its cell in the
right state, and if it wins, no other holds that position (`ProducerInv`, `ConsumerInv`, `HolderInv`); a
position is read once (`TakenInv`), and what entered at a position never changes from then on (`Entry`),
which is what makes the order of the compare-exchanges the order of the queue. With one cell the
numbers "free for the next round" and "filled" coincide and the scheme fails; the class's
`static_assert` admits that size, the code uses 65536. `QueuesImplementFifo` states both for the module
that the run `queues` checks.

**PriorityProofs**, the heap (any number of items, streams and priorities; `HeapAssumption`):
`HeapTypeOK`, `HeapPosSound`, `HeapOrdered` and `HeapImplementsPool`, the refinement of `PriorityPool`.
Heap order fails at one place during a sift, and "ordered except there" is not inductive: swapping the
item with its parent could put its old children below something smaller. The invariant adds that the
children of the item being sifted are not above its parent (`Bridged`). `RiseOrder` and `SinkOrder`
prove one round on the function from positions to priorities; the rest relates sequences, records and
`pos` to it. The refinement needs that the root is a maximum, an induction over the tree: a least
position above the root would have a parent above the root (`RootHighest`, with `LeastNatural`). That a
swap neither loses nor doubles an item is `IdInv`: no two places hold one number.

**PriorityProofs**, the KV cache and the batching scheduler (any number of blocks, block size, sequence
ids, request shapes, batch limit and bounds; `KVAssumption`, and `BatchAssumption`: a batch of at least
one and lengths that are natural numbers, which `addRequest` checks): `BlocksStayPartitioned`,
`OldestIsFound` and `AdmittedKeepsRoom`, all from one inductive invariant, `BatchInv`.

- *Loops.* The climb of the tree, the rounds of the query and the freeing of a table are recursive
  functions. `RecursionExists` shows from a least counterexample that a function with such equations
  exists, so that the definition denotes it (`ClimbUnfolds`, `QueryUnfolds`, `ReturnedUnfolds`); what it
  computes after i rounds is then shown the same way (`Reaches`).
- *The index* (`IndexInv`). Each bucket is in the order of arrival, and each node of the tree is the
  older of its children (`TreeRight`). `updateWaitingBucket` repairs exactly the nodes above one leaf:
  the nodes climbed so far form a path closed under parents, off which nothing changed and on which
  everything is right (`Climbed`, `UpdatedRight`). The query goes up level by level; at the level where
  a node stands for w leaves it holds the oldest of them (`LevelRight`), and the two running results
  are the oldest left of `left` and right of `right` (`QueryInv`). The rounds suffice as the interval
  at least halves.
- *The blocks.* `Taken`, `Released` and `Freed` are described by what they do to each block and table
  (`TakenTo`, `GivenBack`, `FreedTo`). While a table is freed its blocks keep the tag that
  `releaseBlock` asks for until their own turn, because no block is in a table twice.
- *The room* (`RoomInv`). The sequences of the cache are those of the batch, those the caller made and
  the one being prefilled, all different; a running request's has its prompt and its generated tokens
  in exactly `BlocksFor(Capacity)` blocks. So a token that is still to come falls into a block the
  sequence has (`NotFull`), and the branch that reports `CACHE_APPEND_FAILURE` is never taken. This is
  inductive only with the request between its reservation and its last prompt token (`PrefillInv`),
  during which the executor runs and may enqueue, free and allocate.

**StreamDepTrackerProofs** (any number of slots, threads, streams and events, any values behind the
array; `TrackerAssumption`, `BelowAssumption`): `TrackerTypeOK`, `TrackerNeverOverReports`,
`TrackerSlotsDistinct`, `TrackerRecordedIsSatisfied`. "A node is at most its children" is not preserved:
a slow propagation lowers a child after its parent was computed. What is preserved compares nodes with
leaves, which only grow, and says the same of the values that a thread has loaded and not yet stored
(`LoadedLeft`, `LoadedRight`). So the races make nodes too small but never too large. For events the
invariant (`SnapInv`) says that a stored snapshot, and a value loaded and not yet stored, is not above
its leaf; it is kept because leaves only grow (`LeavesGrow`), also when another stream takes the slot
over. `TrackerRecordedIsSatisfied` is no promise kept but the reason for the finding `tracker_events`.

**SchedulerProofs** (any number of workers, hosts, tasks, streams and NUMA nodes, any capacities;
`SchedulerAssumption`: a task is submitted with one of the four calls, by one host, to one stream;
`TasksAssumption`: fewer tasks than `pending_` has values, which is 2^64 in the code). All of them but
`WaitsAreSound` are about the states before the first overlap of two owners (`collided = "no"`), and
`StreamOrderHolds` about the behaviours without one; after it they are false, as the run `destructor`
shows. An overlap is never undone (`collided` stays), so a step from such a state is a step of `Step`
and the invariant needs nothing about `Race`.

- *Where items are.* `Holds(k, n, item)` says that an item is in `queue_`, a node's queue, a deque, a
  ring or a runner's hand. Every step of every thread is one of four effects on it: nothing moves, one
  item is added, one is taken in hand, one leaves a hand (`Same`, `Added`, `Moved`, `Dropped`). The
  invariant is proved once per effect, and each action is shown to have one.
- `SchedInvAlways`: a task has at most one item, in one place (`UniqueInv`); once accepted it has run,
  or is somewhere to be run, never both (`RunInv`); a stream has work exactly when `isProcessing` is
  set, and then it has exactly one server, an item or the host about to enqueue one, which has its front
  task (`StreamInv`); only the first task of `pendingTasks` may have run (`PendInv`). That there is one
  server is inductive only together with what the server is doing: between retiring a task and enqueuing
  the next its item no longer names the front.
- `StreamOrderHolds`: the refinement of `StreamOrder`. What waits there is `pendingTasks` without a first
  task that has run; a step runs the task at its front, appends one, or changes nothing.
- `DestructorDropsNothing` states `DroppedByRaceOnly`: `DtorInv` says that a deque the destructor has drained fills again only while
  its worker runs, that a ring it has drained stays empty, and that the last worker leaves with every
  deque and `queue_` empty.
- `PendingIsExact`: `pending_` is the number of tasks in the scheduler (`Open`) less those that a
  submission has published and not counted (`Late`), modulo the word. The second is what makes it
  inductive: a worker may account for a task before the host has counted it, so the difference can be
  negative and the word wraps. `ZeroMeansDrained` follows, no submission being under way.
- `WaitsAreSound`: `waitAll` and `waitStream`, under the hypothesis that every task is submitted with
  `submitStreamTask`, which counts the task under the stream's lock before a worker can run it. The
  hypothesis is needed: the other three calls publish first, and the run `wait_all` shows `waitAll`
  return too early with two of them. It needs no condition on overlaps: with such tasks alone, the only
  second owner is the destructor, which starts when no host is in a call any more (`Gone`, `RaceIsLate`).

**BlockWorkerPoolProofs** (any dispatchers, workers, block widths, barriers and capacity;
`PoolAssumption`): `DispatchIsSound`. Neither half of it is inductive, since both rest on counts. What
`remaining` and the pushes done add up to is at least the live threads and the block's width
(`CountInv`; a push that fails leaves it too high, so that dispatch hangs rather than returns early). A
block's barrier counts exactly the threads inside it, and the others have passed as many barriers as it
has opened (`StepInv`). Shutdown and initialization again are part of it, and so are both ways in.

**WaitProofs**, the barrier (any threads, kernels and width of `generation_`; `BarrierAssumption`):
`BarrierInvAlways` and `BarrierIsSound`. The invariant is about the number k of times the barrier has
opened, which no variable holds: every thread has returned k times but the late ones, which are one
behind, `waiting_` counts those at the next call, `reduceResult_` is the k-th reduction and
`reduceAccum_` that of the threads waiting so far. Two generations suffice, as no thread can be two
openings behind.

**WaitProofs**, events (any events, streams and hosts; `EventAssumption`): `SynchronizeIsSound`. What was
in front of a record, and has not run, is still in front of it in its stream (`StillAhead`), so a record
that runs has nothing left in front of it (`ReadyPast`).

**WaitProofs**, the fork-join pool (any workers, callers, jobs, chunks and nesting; `PoolAssumption`, the
module's own: jobs are called from outside or nested, never both): `ForReturnIsSound`. A task is in one
place at most, in a deque, in the hand of a thread or in a frame of a stack, and has run exactly when it
is finishing or gone (`TaskInv`); what a `parallelFor` has still to push has been nowhere (`ForInv`); a
job's counter is the number of its chunks that are not done (`LeftInv`). The last is about the tasks on
all stacks, so what a stack may look like is part of it (`StackInv`): below the top there are only
frames that wait. `pending_` is exact but for pushes not yet counted and tasks taken and not yet
deducted, hence its values below zero (`PendingInv`).

**StoreProofs**, the audit log (any threads, subjects, appends and crashes; `AuditAssumption`):
`AppendIsDurable`, `ErasureIsFinal`. One thread holds the lock (`LockInv`); the file is a chain and memory
is the file or one frame behind it, or ahead of it by the records whose write failed, which then are the
last ones (`FileInv`, `MemoryInv`); keys are drawn once (`KeyInv`); the key file,
when whole, has the key of every record (`SavedInv`); and from the moment `forget` destroys a key no new
record gets it (`EraseInv`). `SavedInv` holds as long as `keyFaults = 0`, that is, every opening of the
key file for writing has succeeded, and `EraseInv` as long as no write to the log failed either: the
code notices neither, and after a restart gives the numbers of the missing records out again.

**StoreProofs**, the secret store (any names, principals, operations and crashes; `StoreAssumption`):
`GetIsSound`, `RemovalIsFinal`. In memory and in the file the numbers of a secret's versions grow up to
its current one, and no two versions hold one value. A version number read under the first lock names,
under the second, a value that was the newest during the call or nothing (`GetInv`); what was removed is
in neither (`GoneInv`, while `storeFaults = 0`).

**ServiceProofs**, the token bucket (any rate, burst, request sizes and clock; `LimiterAssumption`):
`LimiterRateBounded`. `RateBounded` counts from the first call, which before that call means nothing;
the invariant adds the state before it and that the last refill is not before the first call. The
arithmetic is that two consecutive spans of time bring what the whole does (`SpansAdd`) and that a
refill, capped or not, brings no more than its span (`RefillBounded`).

**ServiceProofs**, MIG (any number of slices, profiles asked for, seeds and amounts; `MigAssumption`):
`MigPartitionExact`. `PartitionExact` is inductive with the types. The proof is about a set that is
the disjoint union of the values of a function: adding a part disjoint from the set, and removing a
part, keep it so (`PartAdded`, `PartRemoved`); first fit gives a range disjoint from the slots in use;
a creation that fails on memory gives back exactly the compute range it took.

**ServiceProofs**, the cluster (any connections, threads, kernels, arguments, launches and troubles;
`ClusterAssumption`): `InFlightIsExact`, `ArgumentsAreOwn`, `RepliesAreSound`. A launch is in one place:
queued, on its way to the worker, on its way back, held, or taken (`Once`, `Separate`, `HeldSound`,
`RepliedSound`). What is queued, on its way or lost adds up to `inFlight` (`Flight`). Each queued launch has
its own arguments, all of them unless it was queued before the channel was there, since only then can
a flush drop some and keep the rest (`Arguments`). As long as a kernel's launches are waited for one at a
time, whatever is under way or held of it belongs to the one wait there is (`WaitedFor`).

**Only model-checked.** All liveness (fairness and `ENABLED` are outside the prover): `EventuallyTaken`,
`EventuallyPopped`, `EventuallyRun`, `RequestsEnd` and the other properties that something happens in
the end. `CollectiveRight` of the collectives: buffers are bags summed by a fold over a set that varies,
and what a ring step passes on is stated modulo the number of ranks; neither has a lemma in the library.
Every other safety property of the passing runs has a theorem. Induction over data by the library's
induction theorems is not available to the installed provers; where it was needed (the heap's root, the
tree, the query, the freeing of a table) the proofs argue from a least counterexample instead, which
`LeastNatural` gives. `SchedInv`, `CountInv`, `TypeOK` of the deque, the tracker and the heap,
`NoDoubleTake`, `SlotsDistinct` and `RecordedIsSatisfied` are proved and not part of a run.

## Plan

Done: the components above. Next, in this order.

1. `Scheduler`: `setThreadCount`, tasks that submit tasks, tasks that throw.
2. `BlockWorkerPool`: a kernel thread that throws, a full queue; the executor's cooperative and cluster
   paths.
3. The graph manager (capture, instantiate, update), the pool allocator's generations, the ledger's
   quotas and its persisted file.
4. The cluster's handshake and memory transfer, its partitioned launches once they can run, the secure channel's sequence window, MPS and IPC
   registration.

Theorems left: `CollectiveRight`, for a ring of any number of ranks.

## Not modelled

Weak memory: the models interleave sequentially consistent steps, so they say nothing about whether
each `memory_order` is strong enough.

Most of the repository's lines are sequential functions on large data, with no state that a bounded
model would explore and no property other than the value they compute: the compiler and its front
ends, the CUDA, cuBLAS, cuDNN, cuFFT and cuSPARSE shims, the HLO evaluator and model inference, the
vector engine and the cryptography. A model of them would be a transliteration. This is why the map
covers a small share of the source.

Within the modelled components: the load balancer's floating-point scores, NCCL's tensor-parallel fast
path and its delegation to the cluster, the backup archive (a format written and read in one pass), the
queries that only read, and statistics. Bindings, dashboard and deployment files are clients of the
C API.
