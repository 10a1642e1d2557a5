-------------------------- MODULE BlockWorkerPool --------------------------
(***************************************************************************)
(* The pool that runs the threads of a block, src/runtime/                 *)
(* block_worker_pool.cpp.  A dispatcher is a scheduler worker that         *)
(* executes a kernel: it gives the pool one block at a time and waits for  *)
(* it.  A block is named by its dispatcher.                                *)
(*                                                                         *)
(* There are two ways in.  The wrapper of a JIT-compiled kernel calls      *)
(* vgre_jit_block_dispatch (gpu_thread_context.cpp); executeSyncthreads    *)
(* (cpu_parallel_executor.cpp), "reserved for non-JIT compiled kernels",   *)
(* compares the block with the pool first, and nothing in the repository   *)
(* calls it.                                                               *)
(*                                                                         *)
(* taskQueue_ is the channel MPMCQueue is shown to implement, and the      *)
(* block's barrier takes BlockBarrier's two steps, arrive and leave.  A    *)
(* spurious wakeup leads back to the wait it interrupted and is left out.  *)
(***************************************************************************)
EXTENDS Naturals, Sequences, FiniteSets

CONSTANTS
  Dispatchers,  \* threads that execute kernels
  Workers,      \* workers_
  Launches,     \* what the dispatchers may be about to execute: for each one
                \* the width of a block, its __syncthreads calls, and
                \* whether the JIT's wrapper launches it
  QueueCap,     \* capacity of taskQueue_ (65536)
  MaxBlocks,    \* bound: blocks per dispatcher
  MayShutdown   \* whether the pool is destroyed during the run

ASSUME PoolAssumption ==
  /\ IsFiniteSet(Workers)
  /\ Launches \subseteq [Dispatchers -> [width : Nat \ {0}, syncs : Nat, jit : BOOLEAN]]
  /\ QueueCap \in Nat
  /\ MaxBlocks \in Nat
  /\ MayShutdown \in BOOLEAN

NoTask  == <<>>
Nobody  == "nobody"

VARIABLES
  kernel,                   \* each dispatcher's kernel
  initialized, stop,        \* initialized_, stop_
  ready,                    \* readyCount_
  mutex,                    \* who holds queueMutex_
  queue,                    \* taskQueue_: <<block, tid>>
  wpc, task, synced,        \* workers: point in workerLoop, task, barriers passed
  asleep,                   \* workers in queueCv_.wait, not notified
  dpc, next,                \* dispatchers: point in dispatch, next tid to push
  remaining, completing,    \* the block's signal: remaining, its waiter asleep
  waiting, generation, gen, \* the block's barrier, and each worker's gen
  blocks,                   \* blocks each dispatcher has finished
  spc                       \* shutdown's point

vars == <<kernel, initialized, stop, ready, mutex, queue, wpc, task, synced, asleep, dpc,
          next, remaining, completing, waiting, generation, gen, blocks, spc>>

Width(d) == kernel[d].width
Syncs(d) == kernel[d].syncs
Guarded(d) == ~kernel[d].jit
Fits(d)    == Width(d) <= Cardinality(Workers)

poolVars   == <<initialized, stop, ready, mutex, queue, asleep>>
workerVars == <<wpc, task, synced, gen>>
blockVars  == <<dpc, next, remaining, completing, waiting, generation, blocks>>

Init ==
  /\ kernel \in Launches
  /\ initialized = FALSE
  /\ stop = FALSE
  /\ ready = 0
  /\ mutex = Nobody
  /\ queue = <<>>
  /\ wpc = [w \in Workers |-> "none"]
  /\ task = [w \in Workers |-> NoTask]
  /\ synced = [w \in Workers |-> 0]
  /\ gen = [w \in Workers |-> 0]
  /\ asleep = {}
  /\ dpc = [d \in Dispatchers |-> "idle"]
  /\ next = [d \in Dispatchers |-> 0]
  /\ remaining = [d \in Dispatchers |-> 0]
  /\ completing = {}
  /\ waiting = [d \in Dispatchers |-> 0]
  /\ generation = [d \in Dispatchers |-> 0]
  /\ blocks = [d \in Dispatchers |-> 0]
  /\ spc = "alive"

Wgoto(w, l) == wpc' = [wpc EXCEPT ![w] = l]
Dgoto(d, l) == dpc' = [dpc EXCEPT ![d] = l]

-----------------------------------------------------------------------------
\* initialize, on the first kernel that uses the pool: under queueMutex_ start the
\* workers, then wait, still holding it, until each has checked in.
Initialize(d) ==
  /\ dpc[d] = "idle"
  /\ Guarded(d) \/ Width(d) > 1
  /\ blocks[d] < MaxBlocks
  /\ ~initialized
  /\ mutex = Nobody
  /\ mutex' = d
  /\ initialized' = TRUE
  /\ wpc' = [w \in Workers |-> "start"]
  /\ Dgoto(d, "warm")
  /\ UNCHANGED <<stop, ready, queue, asleep, task, synced, gen, next, remaining,
                 completing, waiting, generation, blocks, spc>>

Warm(d) ==
  /\ dpc[d] = "warm"
  /\ ready >= Cardinality(Workers)
  /\ mutex' = Nobody
  /\ Dgoto(d, "idle")
  /\ UNCHANGED <<initialized, stop, ready, queue, asleep, workerVars, next, remaining,
                 completing, waiting, generation, blocks, spc>>

\* executeSyncthreads calls initialize once per kernel, and so waits for queueMutex_;
\* dispatch itself only looks at initialized_, which is set before the workers are
\* ready.
Initialized(d) == initialized /\ (Guarded(d) => mutex = Nobody \/ blocks[d] > 0)

\* A block of one thread runs on the caller's thread.  So does, thread 0 only and
\* without barriers, one that is wider than the pool, if executeSyncthreads launches
\* it; the JIT's wrapper has no such guard.
Finish(d) == blocks' = [blocks EXCEPT ![d] = @ + 1]

ExecuteSerially(d) ==
  /\ dpc[d] = "idle"
  /\ blocks[d] < MaxBlocks
  /\ Width(d) = 1 \/ (Guarded(d) /\ ~Fits(d))
  /\ Guarded(d) => Initialized(d)
  /\ Finish(d)
  /\ UNCHANGED <<poolVars, workerVars, dpc, next, remaining, completing, waiting,
                 generation, spc>>

\* dispatch: a fresh signal and barrier, one task per thread of the block.
SignalOneLess(d) == Width(d) - 1
Signal(d) == Width(d)

Dispatch(d) ==
  /\ dpc[d] = "idle"
  /\ blocks[d] < MaxBlocks
  /\ Initialized(d)
  /\ Width(d) > 1
  /\ Guarded(d) => Fits(d)
  /\ next' = [next EXCEPT ![d] = 0]
  /\ remaining' = [remaining EXCEPT ![d] = Signal(d)]
  /\ waiting' = [waiting EXCEPT ![d] = 0]
  /\ generation' = [generation EXCEPT ![d] = 0]
  /\ Dgoto(d, "push")
  /\ UNCHANGED <<poolVars, workerVars, completing, blocks, spc>>

\* The answer of taskQueue_.push is not looked at.
PushTask(d) ==
  /\ dpc[d] = "push"
  /\ queue' = IF Len(queue) < QueueCap THEN Append(queue, <<d, next[d]>>) ELSE queue
  /\ next' = [next EXCEPT ![d] = @ + 1]
  /\ Dgoto(d, IF next[d] + 1 = Width(d) THEN "fence" ELSE "push")
  /\ UNCHANGED <<initialized, stop, ready, mutex, asleep, workerVars, remaining,
                 completing, waiting, generation, blocks, spc>>

\* queueMutex_ is taken and released before notify_all, so that no worker is
\* between its look at the queue and its wait.
FenceOpen == TRUE
FenceFree == mutex = Nobody

Fence(d) ==
  /\ dpc[d] = "fence"
  /\ FenceFree
  /\ Dgoto(d, "notify")
  /\ UNCHANGED <<poolVars, workerVars, next, remaining, completing, waiting,
                 generation, blocks, spc>>

Notify(d) ==
  /\ dpc[d] = "notify"
  /\ asleep' = {}
  /\ Dgoto(d, "spin")
  /\ UNCHANGED <<initialized, stop, ready, mutex, queue, workerVars, next, remaining,
                 completing, waiting, generation, blocks, spc>>

\* The dispatcher spins for a while, then looks at remaining under
\* completeMutex and holds it until it sleeps ("doze"); notified, it looks
\* again.
LookAtRemaining(d) ==
  /\ dpc[d] \in {"spin", "wait"}
  /\ d \notin completing
  /\ IF remaining[d] = 0
       THEN Finish(d) /\ Dgoto(d, "idle")
       ELSE Dgoto(d, "doze") /\ UNCHANGED blocks
  /\ UNCHANGED <<poolVars, workerVars, next, remaining, completing, waiting,
                 generation, spc>>

Doze(d) ==
  /\ dpc[d] = "doze"
  /\ completing' = completing \cup {d}
  /\ Dgoto(d, "wait")
  /\ UNCHANGED <<poolVars, workerVars, next, remaining, waiting, generation, blocks, spc>>

-----------------------------------------------------------------------------
\* workerLoop
CheckIn(w) ==
  /\ wpc[w] = "start"
  /\ ready' = ready + 1
  /\ Wgoto(w, "pop")
  /\ UNCHANGED <<initialized, stop, mutex, queue, asleep, task, synced, gen,
                 blockVars, spc>>

PopTask(w) ==
  /\ wpc[w] = "pop"
  /\ queue # <<>>
  /\ task' = [task EXCEPT ![w] = Head(queue)]
  /\ queue' = Tail(queue)
  /\ synced' = [synced EXCEPT ![w] = 0]
  /\ Wgoto(w, "run")
  /\ UNCHANGED <<initialized, stop, ready, mutex, asleep, gen, blockVars, spc>>

\* An empty queue.  stop_ is looked at later, when the queue may have filled again:
\* leave if it is set, else spin for a while, then take the mutex.
FindEmpty(w) ==
  /\ wpc[w] = "pop"
  /\ queue = <<>>
  /\ Wgoto(w, "empty")
  /\ UNCHANGED <<poolVars, task, synced, gen, blockVars, spc>>

LookAtStop(w) ==
  /\ wpc[w] = "empty"
  /\ Wgoto(w, IF stop THEN "exited" ELSE "idle")
  /\ UNCHANGED <<poolVars, task, synced, gen, blockVars, spc>>

SpinSawWork(w) ==
  /\ wpc[w] = "idle"
  /\ queue # <<>> \/ stop
  /\ Wgoto(w, "pop")
  /\ UNCHANGED <<poolVars, task, synced, gen, blockVars, spc>>

\* The wait's predicate is evaluated under queueMutex_; a worker that finds
\* nothing releases it as it goes to sleep.
LockAndLook(w) ==
  /\ wpc[w] = "idle"
  /\ mutex = Nobody
  /\ IF stop \/ queue # <<>>
       THEN Wgoto(w, "pop") /\ UNCHANGED mutex
       ELSE Wgoto(w, "block") /\ mutex' = w
  /\ UNCHANGED <<initialized, stop, ready, queue, asleep, task, synced, gen,
                 blockVars, spc>>

Block(w) ==
  /\ wpc[w] = "block"
  /\ mutex' = Nobody
  /\ asleep' = asleep \cup {w}
  /\ Wgoto(w, "wait")
  /\ UNCHANGED <<initialized, stop, ready, queue, task, synced, gen, blockVars, spc>>

Unblock(w) ==
  /\ wpc[w] = "wait"
  /\ w \notin asleep
  /\ Wgoto(w, "idle")
  /\ UNCHANGED <<poolVars, task, synced, gen, blockVars, spc>>

\* The task: the kernel's barriers, then the end of the thread.
BlockOf(w) == task[w][1]

AfterOpen(d) == 0

Sync(w) ==
  LET d == BlockOf(w)
  IN
  /\ wpc[w] = "run"
  /\ synced[w] < Syncs(d)
  /\ IF waiting[d] + 1 = Width(d)
       THEN /\ waiting' = [waiting EXCEPT ![d] = AfterOpen(d)]
            /\ generation' = [generation EXCEPT ![d] = @ + 1]
            /\ synced' = [synced EXCEPT ![w] = @ + 1]
            /\ UNCHANGED <<wpc, gen>>
       ELSE /\ waiting' = [waiting EXCEPT ![d] = @ + 1]
            /\ gen' = [gen EXCEPT ![w] = generation[d]]
            /\ Wgoto(w, "barrier")
            /\ UNCHANGED <<generation, synced>>
  /\ UNCHANGED <<poolVars, task, dpc, next, remaining, completing, blocks, spc>>

BarrierOpen(w) == generation[BlockOf(w)] # gen[w]

LeaveBarrier(w) ==
  /\ wpc[w] = "barrier"
  /\ BarrierOpen(w)
  /\ synced' = [synced EXCEPT ![w] = @ + 1]
  /\ Wgoto(w, "run")
  /\ UNCHANGED <<poolVars, task, gen, blockVars, spc>>

\* The thread's end and onDone, under completeMutex.
OnDone(w) ==
  LET d == BlockOf(w)
  IN
  /\ wpc[w] = "run"
  /\ synced[w] = Syncs(d)
  /\ dpc[d] # "doze"
  /\ remaining' = [remaining EXCEPT ![d] = @ - 1]
  /\ completing' = IF remaining[d] = 1 THEN completing \ {d} ELSE completing
  /\ task' = [task EXCEPT ![w] = NoTask]
  /\ Wgoto(w, "pop")
  /\ UNCHANGED <<poolVars, synced, gen, dpc, next, waiting, generation, blocks, spc>>

-----------------------------------------------------------------------------
\* shutdown, from the pool's destructor.
BeginShutdown ==
  /\ MayShutdown
  /\ spc = "alive"
  /\ mutex = Nobody
  /\ initialized
  /\ stop' = TRUE
  /\ spc' = "notify"
  /\ UNCHANGED <<initialized, ready, mutex, queue, asleep, workerVars, blockVars>>

StillAsleep == asleep
NoneAsleep == {}

NotifyShutdown ==
  /\ spc = "notify"
  /\ asleep' = NoneAsleep
  /\ spc' = "join"
  /\ UNCHANGED <<initialized, stop, ready, mutex, queue, workerVars, blockVars>>

Join ==
  /\ spc = "join"
  /\ \A w \in Workers : wpc[w] = "exited"
  /\ ready' = 0
  /\ initialized' = FALSE
  /\ spc' = "gone"
  /\ UNCHANGED <<stop, mutex, queue, asleep, workerVars, blockVars>>

-----------------------------------------------------------------------------
DispatcherStep(d) ==
  /\ \/ Initialize(d) \/ Warm(d) \/ ExecuteSerially(d) \/ Dispatch(d) \/ PushTask(d)
     \/ Fence(d) \/ Notify(d) \/ LookAtRemaining(d) \/ Doze(d)
  /\ UNCHANGED kernel

WorkerStep(w) ==
  /\ \/ CheckIn(w) \/ PopTask(w) \/ FindEmpty(w) \/ LookAtStop(w) \/ SpinSawWork(w)
     \/ LockAndLook(w) \/ Block(w) \/ Unblock(w) \/ Sync(w) \/ LeaveBarrier(w)
     \/ OnDone(w)
  /\ UNCHANGED kernel

ShutdownStep == (BeginShutdown \/ NotifyShutdown \/ Join) /\ UNCHANGED kernel

Next ==
  \/ \E d \in Dispatchers : DispatcherStep(d)
  \/ \E w \in Workers : WorkerStep(w)
  \/ ShutdownStep

Spec == Init /\ [][Next]_vars

\* Threads keep running and a mutex that is free again and again is obtained.
\* Nothing obliges a dispatcher to start a block or the process to end.
Fairness ==
  /\ \A d \in Dispatchers : SF_vars(dpc[d] # "idle" /\ DispatcherStep(d))
  /\ \A w \in Workers : SF_vars(WorkerStep(w))
  /\ WF_vars(spc # "alive" /\ ShutdownStep)

FairSpec == Spec /\ Fairness

-----------------------------------------------------------------------------
(* Properties *)

Outstanding(d) ==
  {i \in DOMAIN queue : queue[i][1] = d} \cup
  {w \in Workers : task[w] # NoTask /\ BlockOf(w) = d}

\* dispatch "blocks until ALL threads have completed": when it has returned,
\* no task that points at the caller's stack is queued or running.
ReturnSound == \A d \in Dispatchers : dpc[d] = "idle" => Outstanding(d) = {}

\* Within a block no thread is past a barrier another has not reached.
BlockInStep ==
  \A v, w \in Workers :
    task[v] # NoTask /\ task[w] # NoTask /\ BlockOf(v) = BlockOf(w) =>
      synced[v] <= synced[w] + (IF wpc[w] = "barrier" THEN 1 ELSE 0)

\* What dispatch and the barrier of its block promise together.
DispatchSound == ReturnSound /\ BlockInStep

\* initialize gets its workers' check-ins while it holds queueMutex_, and a block whose
\* tasks were all pushed before stop_ was set is finished: no wakeup is lost between a
\* push and a worker's wait or between the last onDone and the dispatcher's.  The
\* exception is a worker that found the queue empty before the pushes and looks at
\* stop_ after it was set: it leaves tasks behind, for which the others may not suffice.
DispatchReturns ==
  \A d \in Dispatchers :
    dpc[d] \notin {"idle", "push"} /\ ~stop
      ~> \/ dpc[d] = "idle"
         \/ queue # <<>> /\ \E w \in Workers : wpc[w] = "exited"

\* Once no dispatch is under way shutdown joins every worker, unless another
\* dispatch begins after stop_ is set (its block may be cut in two by workers
\* that leave, and the others then wait at its barrier).
ShutdownReturns ==
  stop /\ (\A d \in Dispatchers : dpc[d] = "idle")
    ~> spc = "gone" \/ \E d \in Dispatchers : dpc[d] = "push"
=============================================================================
