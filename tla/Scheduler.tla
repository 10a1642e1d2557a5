----------------------------- MODULE Scheduler -----------------------------
(***************************************************************************)
(* The task scheduler of src/core/scheduler*.cpp: host threads submit      *)
(* tasks through four entry points, a pool of workers runs them, waitAll   *)
(* and waitStream wait for them, the destructor drains what is left.       *)
(*                                                                         *)
(* Deques and rings are sequences here and their operations atomic: that   *)
(* is what ChaseLevDeque and SPSCRing establish for a single owner and a   *)
(* single consumer.  The destructor and a full ring break that rule; what  *)
(* their calls do when they overlap the owner's has steps of its own       *)
(* (Race).  queue_ and numaQueues_ are sets: the order in which they yield *)
(* items is the subject of IndexedHeap, and any order is allowed here.     *)
(* mutex_ and the stream mutexes are modelled where a thread holds one     *)
(* across a step or waits for one while holding another.                   *)
(***************************************************************************)
EXTENDS Integers, Sequences, FiniteSets

CONSTANTS
  NumThreads,    \* number of workers
  NumNodes,      \* NUMA nodes found by buildNumaTopology, 0 if none
  Hosts,         \* threads that are not workers and call the scheduler
  StreamTasks,   \* tasks submitted with submitStreamTask
  SoloTasks,     \* ... submitConcurrentTask
  NumaTasks,     \* ... submitNumaTask
  RingTasks,     \* ... enqueueToStream
  HostOf,        \* the host that submits a task
  StreamOf,      \* the stream (a number) of a stream or ring task
  NodeWanted,    \* the NUMA node asked for by a NUMA task
  RingCap,       \* capacity of a ring (4096)
  DequeCap,      \* usable capacity of a deque (1023)
  WordSize,      \* number of values of the uint64_t pending_
  Destroys       \* whether ~Scheduler runs

Workers == 0..(NumThreads - 1)
Dtor    == -1                              \* the thread in ~Scheduler
Runners == Workers \cup {Dtor}
Tasks   == StreamTasks \cup SoloTasks \cup NumaTasks \cup RingTasks
Streams == {StreamOf[x] : x \in StreamTasks}
Nodes   == 0..(NumNodes - 1)
NoNode  == -1
Nobody  == -2

\* A task is submitted with one of the four calls; a stream is a number.
ASSUME SchedulerAssumption ==
  /\ NumThreads \in Nat \ {0}
  /\ NumNodes \in Nat
  /\ Hosts \cap Runners = {} /\ Nobody \notin Hosts
  /\ StreamTasks \cap (SoloTasks \cup NumaTasks \cup RingTasks) = {}
  /\ SoloTasks \cap (NumaTasks \cup RingTasks) = {}
  /\ NumaTasks \cap RingTasks = {}
  /\ \A x \in Tasks : StreamOf[x] \in Nat
  /\ RingCap \in Nat /\ DequeCap \in Nat
  /\ WordSize \in Nat \ {0}
  /\ Destroys \in BOOLEAN

\* There are fewer tasks than values of pending_.
ASSUME TasksAssumption == IsFiniteSet(Tasks) /\ Cardinality(Tasks) < WordSize

VARIABLES
  pend,       \* StreamQueue::pendingTasks
  busy,       \* StreamQueue::isProcessing
  sLock,      \* who holds StreamQueue::streamMutex
  mLock,      \* who holds mutex_ across steps
  queue,      \* queue_
  numaQ,      \* numaQueues_
  nodeOf,     \* workerNumaNodes_
  myNode,     \* workerLoop's local copy, read once
  deque,      \* workerDeques_, owner's end last
  ring,       \* workerRings_
  pending,    \* pending_
  shutdown,   \* shutdown_
  asleep,     \* workers blocked in cv_.wait
  pc,         \* where each thread is
  cur,        \* the item a runner took
  left,       \* the deques a worker has still to try in this steal pass
  todo,       \* the task a host is submitting, or the stream it waits for
  stage,      \* the container ~Scheduler is draining
  accepted,   \* history: tasks a submit call has taken
  log,        \* history: per stream, the stream tasks run, in order
  runs,       \* history: how often each task has run
  owed,       \* history: per host, the tasks accepted when it began to wait
  emptied,    \* history: tasks whose item a full ring's push moved from
  sunk,       \* workers whose deque loses the next item its owner pushes
  collided    \* history: what two owners of a deque or ring at once have led to:
              \* "no", items "lost", or an item taken "twice"

streamVars == <<pend, busy, sLock>>
numaVars   == <<numaQ, nodeOf, myNode>>
ghosts     == <<accepted, log, runs, owed, emptied>>
stepVars == <<pend, busy, sLock, mLock, queue, numaQ, nodeOf, myNode, deque, ring,
              pending, shutdown, asleep, pc, cur, left, todo, stage,
              accepted, log, runs, owed, emptied>>
vars == <<stepVars, sunk, collided>>

Idle == -1

Item(kind, x) == [kind |-> kind, task |-> x]
NoItem == Item("none", Idle)

Init ==
  /\ pend = [s \in Streams |-> <<>>]
  /\ busy = [s \in Streams |-> FALSE]
  /\ sLock = [s \in Streams |-> Nobody]
  /\ mLock = Nobody
  /\ queue = {}
  /\ numaQ = [n \in Nodes |-> {}]
  /\ nodeOf = [w \in Workers |-> NoNode]
  /\ myNode = [w \in Workers |-> NoNode]
  /\ deque = [w \in Workers |-> <<>>]
  /\ ring = [w \in Workers |-> <<>>]
  /\ pending = 0
  /\ shutdown = FALSE
  /\ asleep = {}
  /\ pc = [x \in Runners \cup Hosts |->
             IF x \in Workers THEN "start" ELSE IF x = Dtor THEN "alive" ELSE "idle"]
  /\ cur = [r \in Runners |-> NoItem]
  /\ left = [w \in Workers |-> {}]
  /\ todo = [h \in Hosts |-> Idle]
  /\ stage = 0
  /\ accepted = {}
  /\ log = [s \in Streams |-> <<>>]
  /\ runs = [x \in Tasks |-> 0]
  /\ owed = [h \in Hosts |-> {}]
  /\ emptied = {}
  /\ sunk = {} /\ collided = "no"

\* Runner r has an item of stream s in hand.
InStream(r, s) ==
  /\ cur[r].kind = "stream"
  /\ StreamOf[cur[r].task] = s

Goto(x, l) == pc' = [pc EXCEPT ![x] = l]

\* cv_.notify_all(): every blocked worker will look at its predicate again.
NotifyAll == asleep' = {}

\* cv_.notify_one()
NotifyOne == IF asleep = {} THEN UNCHANGED asleep
             ELSE \E w \in asleep : asleep' = asleep \ {w}

Count(n) == pending' = (pending + n + WordSize) % WordSize

-----------------------------------------------------------------------------
\* Constructor.  The workers already run when buildNumaTopology assigns them
\* to nodes, worker by worker; each reads its node once, on entry.

Unassigned == IF NumNodes = 0 THEN {} ELSE {w \in Workers : nodeOf[w] = NoNode}

BuildNumaTopology ==
  /\ Unassigned # {}
  /\ LET w == CHOOSE v \in Unassigned : \A u \in Unassigned : v <= u
     IN  nodeOf' = [nodeOf EXCEPT ![w] = w % NumNodes]
  /\ UNCHANGED <<streamVars, mLock, queue, numaQ, myNode, deque, ring, pending,
                 shutdown, asleep, pc, cur, left, todo, stage, ghosts>>

WorkerStart(w) ==
  /\ pc[w] = "start"
  /\ myNode' = [myNode EXCEPT ![w] = nodeOf[w]]
  /\ Goto(w, "seek")
  /\ UNCHANGED <<streamVars, mLock, queue, numaQ, nodeOf, deque, ring, pending,
                 shutdown, asleep, cur, left, todo, stage, ghosts>>

Constructed == Unassigned = {}

-----------------------------------------------------------------------------
\* Submission, from a host thread.  A host submits its tasks in any order.

CanSubmit(h, x) ==
  /\ Constructed
  /\ pc[h] = "idle"
  /\ HostOf[x] = h
  /\ x \notin accepted
  /\ pc[Dtor] = "alive"

\* submitStreamTask.  The stream's queue is looked up under mutex_ and filled
\* under its own mutex; pending_ counts the task before anyone can run it.
SubmitStreamTask(h, x) ==
  /\ x \in StreamTasks
  /\ CanSubmit(h, x)
  /\ ~shutdown
  /\ mLock = Nobody
  /\ todo' = [todo EXCEPT ![h] = x]
  /\ Goto(h, "streamPush")
  /\ UNCHANGED <<streamVars, mLock, queue, numaVars, deque, ring, pending,
                 shutdown, asleep, cur, left, stage, ghosts>>

StreamPushAlwaysStarts(h) ==
  LET x == todo[h]
      s == StreamOf[x]
  IN
  /\ pc[h] = "streamPush"
  /\ sLock[s] = Nobody
  /\ pend' = [pend EXCEPT ![s] = Append(@, x)]
  /\ Count(1)
  /\ accepted' = accepted \cup {x}
  /\ busy' = [busy EXCEPT ![s] = TRUE]
  /\ sLock' = [sLock EXCEPT ![s] = h]
  /\ Goto(h, "streamEnqueue")
  /\ UNCHANGED <<mLock, queue, numaVars, deque, ring, shutdown, asleep, cur,
                 left, todo, stage, log, runs, owed, emptied>>

StreamPush(h) ==
  LET x == todo[h]
      s == StreamOf[x]
  IN
  /\ pc[h] = "streamPush"
  /\ sLock[s] = Nobody
  /\ pend' = [pend EXCEPT ![s] = Append(@, x)]
  /\ Count(1)
  /\ accepted' = accepted \cup {x}
  /\ IF busy[s]
       THEN /\ Goto(h, "idle")
            /\ todo' = [todo EXCEPT ![h] = Idle]
            /\ UNCHANGED <<busy, sLock>>
       ELSE /\ busy' = [busy EXCEPT ![s] = TRUE]
            /\ sLock' = [sLock EXCEPT ![s] = h]
            /\ Goto(h, "streamEnqueue")
            /\ UNCHANGED todo
  /\ UNCHANGED <<mLock, queue, numaVars, deque, ring, shutdown, asleep, cur,
                 left, stage, log, runs, owed, emptied>>

\* tryProcessStream from a thread that is no worker: the front task's item
\* goes to queue_, under mutex_ and with the stream's mutex still held.
FrontItem(s) == Item("stream", Head(pend[s]))

StreamEnqueueSilent(h) ==
  LET s == StreamOf[todo[h]]
  IN
  /\ pc[h] = "streamEnqueue"
  /\ mLock = Nobody
  /\ queue' = queue \cup {FrontItem(s)}
  /\ sLock' = [sLock EXCEPT ![s] = Nobody]
  /\ todo' = [todo EXCEPT ![h] = Idle]
  /\ Goto(h, "idle")
  /\ UNCHANGED <<pend, busy, mLock, numaVars, deque, ring, pending, shutdown,
                 asleep, cur, left, stage, ghosts>>

StreamEnqueue(h) ==
  LET s == StreamOf[todo[h]]
  IN
  /\ pc[h] = "streamEnqueue"
  /\ mLock = Nobody
  /\ queue' = queue \cup {FrontItem(s)}
  /\ sLock' = [sLock EXCEPT ![s] = Nobody]
  /\ NotifyAll
  /\ todo' = [todo EXCEPT ![h] = Idle]
  /\ Goto(h, "idle")
  /\ UNCHANGED <<pend, busy, mLock, numaVars, deque, ring, pending, shutdown,
                 cur, left, stage, ghosts>>

\* submitConcurrentTask: enqueued first, counted in pending_ afterwards.
SubmitConcurrentTask(h, x) ==
  /\ x \in SoloTasks
  /\ CanSubmit(h, x)
  /\ mLock = Nobody
  /\ queue' = queue \cup {Item("solo", x)}
  /\ accepted' = accepted \cup {x}
  /\ todo' = [todo EXCEPT ![h] = x]
  /\ Goto(h, "count")
  /\ UNCHANGED <<streamVars, mLock, numaVars, deque, ring, pending, shutdown,
                 asleep, cur, left, stage, log, runs, owed, emptied>>

HasNumaNode(n) == \E w \in Workers : n >= 0 /\ nodeOf[w] = n

\* submitNumaTask: an unknown node falls back to queue_.
SubmitNumaTask(h, x) ==
  LET n == NodeWanted[x]
  IN
  /\ x \in NumaTasks
  /\ CanSubmit(h, x)
  /\ ~shutdown
  /\ mLock = Nobody
  /\ IF HasNumaNode(n)
       THEN /\ numaQ' = [numaQ EXCEPT ![n] = @ \cup {Item("solo", x)}]
            /\ UNCHANGED queue
       ELSE /\ queue' = queue \cup {Item("solo", x)}
            /\ UNCHANGED numaQ
  /\ accepted' = accepted \cup {x}
  /\ todo' = [todo EXCEPT ![h] = x]
  /\ Goto(h, "count")
  /\ UNCHANGED <<streamVars, mLock, nodeOf, myNode, deque, ring, pending,
                 shutdown, asleep, cur, left, stage, log, runs, owed, emptied>>

CountForgotten(h) ==
  /\ pc[h] = "count"
  /\ NotifyAll
  /\ todo' = [todo EXCEPT ![h] = Idle]
  /\ Goto(h, "idle")
  /\ UNCHANGED <<streamVars, mLock, queue, numaVars, deque, ring, pending,
                 shutdown, cur, left, stage, ghosts>>

CountAndNotify(h) ==
  /\ pc[h] = "count"
  /\ Count(1)
  /\ NotifyAll
  /\ todo' = [todo EXCEPT ![h] = Idle]
  /\ Goto(h, "idle")
  /\ UNCHANGED <<streamVars, mLock, queue, numaVars, deque, ring, shutdown, cur,
                 left, stage, ghosts>>

\* enqueueToStream: the ring of the stream's worker, without any lock.
Target(x) == StreamOf[x] % NumThreads

EnqueueToStream(h, x) ==
  LET w == Target(x)
  IN
  /\ x \in RingTasks
  /\ CanSubmit(h, x)
  /\ ~shutdown
  /\ accepted' = accepted \cup {x}
  /\ IF Len(ring[w]) < RingCap
       THEN /\ ring' = [ring EXCEPT ![w] = Append(@, Item("solo", x))]
            /\ Goto(h, "count")
       ELSE /\ Goto(h, "ringFull")
            /\ UNCHANGED ring
  /\ todo' = [todo EXCEPT ![h] = x]
  /\ UNCHANGED <<streamVars, mLock, queue, numaVars, deque, pending, shutdown,
                 asleep, cur, left, stage, log, runs, owed, emptied>>

\* The ring refused: push took its argument by value, so what falls through to
\* the worker's deque, or to queue_, is the moved-from item, which runs nothing.
RingFull(h) ==
  LET x == todo[h]
      w == Target(x)
  IN
  /\ pc[h] = "ringFull"
  /\ IF Len(deque[w]) < DequeCap
       THEN /\ deque' = [deque EXCEPT ![w] = Append(@, Item("empty", x))]
            /\ UNCHANGED queue
       ELSE /\ mLock = Nobody
            /\ queue' = queue \cup {Item("empty", x)}
            /\ UNCHANGED deque
  /\ emptied' = emptied \cup {x}
  /\ Goto(h, "countOne")
  /\ UNCHANGED <<streamVars, mLock, numaVars, ring, pending, shutdown, asleep,
                 cur, left, todo, stage, accepted, log, runs, owed>>

CountAndNotifyOne(h) ==
  /\ pc[h] = "countOne"
  /\ Count(1)
  /\ NotifyOne
  /\ todo' = [todo EXCEPT ![h] = Idle]
  /\ Goto(h, "idle")
  /\ UNCHANGED <<streamVars, mLock, queue, numaVars, deque, ring, shutdown, cur,
                 left, stage, ghosts>>

-----------------------------------------------------------------------------
\* Waiting.  Both waits give up after a while (30 s, 5 s): the Timeout steps.

\* The tasks whose submit call has returned.
Submitting == {"streamPush", "streamEnqueue", "count", "ringFull", "countOne"}
Submitted == accepted \ {todo[h] : h \in {g \in Hosts : pc[g] \in Submitting}}

BeginWait(h) == Constructed /\ pc[h] = "idle" /\ pc[Dtor] = "alive"

WaitAll(h) ==
  /\ BeginWait(h)
  /\ owed' = [owed EXCEPT ![h] = Submitted]
  /\ Goto(h, "waitAll")
  /\ UNCHANGED <<streamVars, mLock, queue, numaVars, deque, ring, pending,
                 shutdown, asleep, cur, left, todo, stage, accepted, log, runs,
                 emptied>>

WaitAllDone(h) ==
  /\ pc[h] = "waitAll"
  /\ pending = 0
  /\ Goto(h, "waited")
  /\ UNCHANGED <<streamVars, mLock, queue, numaVars, deque, ring, pending,
                 shutdown, asleep, cur, left, todo, stage, ghosts>>

\* After each 10 ms without success waitAll notifies the workers again.
WaitAllTick(h) ==
  /\ pc[h] = "waitAll"
  /\ pending # 0
  /\ asleep # {}
  /\ NotifyAll
  /\ UNCHANGED <<streamVars, mLock, queue, numaVars, deque, ring, pending,
                 shutdown, pc, cur, left, todo, stage, ghosts>>

WaitStream(h, s) ==
  /\ BeginWait(h)
  /\ todo' = [todo EXCEPT ![h] = s]
  /\ owed' = [owed EXCEPT ![h] = {x \in Submitted \cap StreamTasks : StreamOf[x] = s}]
  /\ Goto(h, "waitStream")
  /\ UNCHANGED <<streamVars, mLock, queue, numaVars, deque, ring, pending,
                 shutdown, asleep, cur, left, stage, accepted, log, runs,
                 emptied>>

\* The predicate reads the stream's queue under mutex_, not under the stream's
\* mutex: isProcessing first, which is false for a moment while a runner
\* retires a task, then pendingTasks.
MidFinish(s) ==
  /\ sLock[s] = Nobody
  /\ \E r \in Runners : pc[r] = "finish" /\ InStream(r, s)

WaitStreamLook(h) ==
  /\ pc[h] = "waitStream"
  /\ mLock = Nobody
  /\ ~busy[todo[h]] \/ MidFinish(todo[h])
  /\ mLock' = h
  /\ Goto(h, "notProcessing")
  /\ UNCHANGED <<streamVars, queue, numaVars, deque, ring, pending, shutdown,
                 asleep, cur, left, todo, stage, ghosts>>

WaitStreamOneTest(h) ==
  /\ pc[h] = "notProcessing"
  /\ mLock' = Nobody
  /\ Goto(h, "waited")
  /\ UNCHANGED <<streamVars, queue, numaVars, deque, ring, pending, shutdown,
                 asleep, cur, left, todo, stage, ghosts>>

WaitStreamDone(h) ==
  /\ pc[h] = "notProcessing"
  /\ mLock' = Nobody
  /\ Goto(h, IF pend[todo[h]] = <<>> THEN "waited" ELSE "waitStream")
  /\ UNCHANGED <<streamVars, queue, numaVars, deque, ring, pending, shutdown,
                 asleep, cur, left, todo, stage, ghosts>>

WaitTimeout(h) ==
  /\ pc[h] \in {"waitAll", "waitStream"}
  /\ owed' = [owed EXCEPT ![h] = {}]
  /\ Goto(h, "waited")
  /\ UNCHANGED <<streamVars, mLock, queue, numaVars, deque, ring, pending,
                 shutdown, asleep, cur, left, todo, stage, accepted, log, runs,
                 emptied>>

WaitReturn(h) ==
  /\ pc[h] = "waited"
  /\ owed' = [owed EXCEPT ![h] = {}]
  /\ todo' = [todo EXCEPT ![h] = Idle]
  /\ Goto(h, "idle")
  /\ UNCHANGED <<streamVars, mLock, queue, numaVars, deque, ring, pending,
                 shutdown, asleep, cur, left, stage, accepted, log, runs,
                 emptied>>

-----------------------------------------------------------------------------
\* workerLoop: own deque, other deques, own ring, then the shared queues.

Took(r, item) ==
  /\ cur' = [cur EXCEPT ![r] = item]
  /\ Goto(r, "run")

PopOwn(w) ==
  /\ pc[w] = "seek"
  /\ IF deque[w] # <<>>
       THEN /\ Took(w, deque[w][Len(deque[w])])
            /\ deque' = [deque EXCEPT ![w] = SubSeq(@, 1, Len(@) - 1)]
            /\ UNCHANGED left
       ELSE /\ left' = [left EXCEPT ![w] = Workers \ {w}]
            /\ Goto(w, "steal")
            /\ UNCHANGED <<deque, cur>>
  /\ UNCHANGED <<streamVars, mLock, queue, numaVars, ring, pending, shutdown,
                 asleep, todo, stage, ghosts>>

\* One look at every other deque, same NUMA node first: any order here.
TrySteal(w) ==
  /\ pc[w] = "steal"
  /\ \E v \in left[w] :
       IF deque[v] # <<>>
         THEN /\ Took(w, Head(deque[v]))
              /\ deque' = [deque EXCEPT ![v] = Tail(@)]
              /\ left' = [left EXCEPT ![w] = {}]
         ELSE /\ left' = [left EXCEPT ![w] = @ \ {v}]
              /\ UNCHANGED <<deque, cur, pc>>
  /\ UNCHANGED <<streamVars, mLock, queue, numaVars, ring, pending, shutdown,
                 asleep, todo, stage, ghosts>>

PopRing(w) ==
  /\ pc[w] = "steal"
  /\ left[w] = {}
  /\ IF ring[w] # <<>>
       THEN /\ Took(w, Head(ring[w]))
            /\ ring' = [ring EXCEPT ![w] = Tail(@)]
       ELSE /\ Goto(w, "lock")
            /\ UNCHANGED <<ring, cur>>
  /\ UNCHANGED <<streamVars, mLock, queue, numaVars, deque, pending, shutdown,
                 asleep, left, todo, stage, ghosts>>

\* The node queue this worker serves; a worker that read no node serves none.
NodeItems(w) == IF myNode[w] = NoNode THEN {} ELSE numaQ[myNode[w]]

WakeUpIgnoresRing(w) == shutdown \/ queue # {} \/ NodeItems(w) # {}

WakeUp(w) == shutdown \/ queue # {} \/ ring[w] # <<>> \/ NodeItems(w) # {}

\* Under mutex_: with something to do, take an item of the node's queue or
\* else of queue_, leave on shutdown, or go round again for the ring; with
\* nothing to do prepare to block, still holding mutex_.
LockAndLook(w) ==
  /\ pc[w] = "lock"
  /\ mLock = Nobody
  /\ IF ~WakeUp(w)
       THEN /\ mLock' = w
            /\ Goto(w, "block")
            /\ UNCHANGED <<queue, numaQ, cur>>
       ELSE /\ \/ /\ NodeItems(w) # {}
                  /\ \E item \in NodeItems(w) :
                       /\ Took(w, item)
                       /\ numaQ' = [numaQ EXCEPT ![myNode[w]] = @ \ {item}]
                  /\ UNCHANGED queue
               \/ /\ NodeItems(w) = {}
                  /\ \E item \in queue :
                       /\ Took(w, item)
                       /\ queue' = queue \ {item}
                  /\ UNCHANGED numaQ
               \/ /\ NodeItems(w) = {}
                  /\ queue = {}
                  /\ Goto(w, IF shutdown THEN "exited" ELSE "seek")
                  /\ UNCHANGED <<queue, numaQ, cur>>
            /\ UNCHANGED mLock
  /\ UNCHANGED <<streamVars, nodeOf, myNode, deque, ring, pending, shutdown,
                 asleep, left, todo, stage, ghosts>>

\* cv_.wait releases mutex_ and blocks in one step; what a thread did without
\* mutex_ since the predicate was read has gone unnoticed.
Block(w) ==
  /\ pc[w] = "block"
  /\ mLock' = Nobody
  /\ asleep' = asleep \cup {w}
  /\ Goto(w, "blocked")
  /\ UNCHANGED <<streamVars, queue, numaVars, deque, ring, pending, shutdown,
                 cur, left, todo, stage, ghosts>>

Unblock(w) ==
  /\ pc[w] = "blocked"
  /\ w \notin asleep
  /\ Goto(w, "lock")
  /\ UNCHANGED <<streamVars, mLock, queue, numaVars, deque, ring, pending,
                 shutdown, asleep, cur, left, todo, stage, ghosts>>

-----------------------------------------------------------------------------
\* Running an item, on a worker or in ~Scheduler.

RunItem(r) ==
  LET item == cur[r]
      x == item.task
  IN
  /\ pc[r] = "run"
  /\ runs' = IF item.kind = "empty" THEN runs ELSE [runs EXCEPT ![x] = @ + 1]
  /\ IF item.kind = "stream"
       THEN /\ log' = [log EXCEPT ![StreamOf[x]] = Append(@, x)]
            /\ Goto(r, "finish")
       ELSE /\ Goto(r, "account")
            /\ UNCHANGED log
  /\ UNCHANGED <<streamVars, mLock, queue, numaVars, deque, ring, pending,
                 shutdown, asleep, cur, left, todo, stage, accepted, owed,
                 emptied>>

\* The tail of a stream item, under the stream's mutex: retire the task and,
\* when another is waiting, hand its item to the runner's own deque.  A full
\* deque, or a runner that has none, leaves it to Spill.
Finish(r) ==
  LET s == StreamOf[cur[r].task]
      rest == Tail(pend[s])
  IN
  /\ pc[r] = "finish"
  /\ sLock[s] = Nobody
  /\ pend' = [pend EXCEPT ![s] = rest]
  /\ busy' = [busy EXCEPT ![s] = rest # <<>>]
  /\ \/ /\ rest = <<>>
        /\ NotifyAll
        /\ Goto(r, "account")
        /\ UNCHANGED <<sLock, deque>>
     \/ /\ rest # <<>>
        /\ r \in Workers \ sunk
        /\ Len(deque[r]) < DequeCap
        /\ deque' = [deque EXCEPT ![r] = Append(@, Item("stream", Head(rest)))]
        /\ NotifyAll
        /\ Goto(r, "account")
        /\ UNCHANGED sLock
     \/ /\ rest # <<>>
        /\ r \in Workers => Len(deque[r]) >= DequeCap
        /\ sLock' = [sLock EXCEPT ![s] = r]
        /\ Goto(r, "spill")
        /\ UNCHANGED <<deque, asleep>>
  /\ UNCHANGED <<mLock, queue, numaVars, ring, pending, shutdown, cur, left,
                 todo, stage, ghosts>>

\* std::mutex is not recursive: a runner that already holds mutex_ waits for
\* itself.
Spill(r) ==
  LET s == StreamOf[cur[r].task]
  IN
  /\ pc[r] = "spill"
  /\ mLock = Nobody
  /\ queue' = queue \cup {FrontItem(s)}
  /\ sLock' = [sLock EXCEPT ![s] = Nobody]
  /\ NotifyAll
  /\ Goto(r, "account")
  /\ UNCHANGED <<pend, busy, mLock, numaVars, deque, ring, pending, shutdown,
                 cur, left, todo, stage, ghosts>>

Account(r) ==
  /\ pc[r] = "account"
  /\ Count(-1)
  /\ IF r = Dtor THEN UNCHANGED asleep ELSE NotifyAll
  /\ cur' = [cur EXCEPT ![r] = NoItem]
  /\ Goto(r, IF r = Dtor THEN "drain" ELSE "seek")
  /\ UNCHANGED <<streamVars, mLock, queue, numaVars, deque, ring, shutdown, left,
                 todo, stage, ghosts>>

-----------------------------------------------------------------------------
\* ~Scheduler, once no host is inside a call.  It drains each worker's deque
\* and ring in turn, then queue_ with mutex_ held, then joins the workers.

BeginDtor ==
  /\ Destroys
  /\ Constructed
  /\ pc[Dtor] = "alive"
  /\ \A h \in Hosts : pc[h] = "idle"
  /\ shutdown' = TRUE
  /\ NotifyAll
  /\ Goto(Dtor, "drain")
  /\ UNCHANGED <<streamVars, mLock, queue, numaVars, deque, ring, pending, cur,
                 left, todo, stage, ghosts>>

\* Stage 2i is worker i's deque, 2i + 1 its ring.
DrainDequesOnly ==
  LET w == stage \div 2
  IN
  /\ pc[Dtor] = "drain"
  /\ stage < 2 * NumThreads
  /\ \/ /\ stage % 2 = 0 /\ deque[w] # <<>>
        /\ Took(Dtor, deque[w][Len(deque[w])])
        /\ deque' = [deque EXCEPT ![w] = SubSeq(@, 1, Len(@) - 1)]
        /\ UNCHANGED stage
     \/ /\ stage % 2 = 0 => deque[w] = <<>>
        /\ stage' = stage + 1
        /\ UNCHANGED <<deque, cur, pc>>
  /\ UNCHANGED <<streamVars, mLock, queue, numaVars, ring, pending, shutdown,
                 asleep, left, todo, ghosts>>

DrainWorker ==
  LET w == stage \div 2
  IN
  /\ pc[Dtor] = "drain"
  /\ stage < 2 * NumThreads
  /\ \/ /\ stage % 2 = 0 /\ deque[w] # <<>>
        /\ Took(Dtor, deque[w][Len(deque[w])])
        /\ deque' = [deque EXCEPT ![w] = SubSeq(@, 1, Len(@) - 1)]
        /\ UNCHANGED <<ring, stage>>
     \/ /\ stage % 2 = 1 /\ ring[w] # <<>>
        /\ Took(Dtor, Head(ring[w]))
        /\ ring' = [ring EXCEPT ![w] = Tail(@)]
        /\ UNCHANGED <<deque, stage>>
     \/ /\ IF stage % 2 = 0 THEN deque[w] = <<>> ELSE ring[w] = <<>>
        /\ stage' = stage + 1
        /\ UNCHANGED <<deque, ring, cur, pc>>
  /\ UNCHANGED <<streamVars, mLock, queue, numaVars, pending, shutdown, asleep,
                 left, todo, ghosts>>

DrainQueueSilent ==
  /\ pc[Dtor] = "drain"
  /\ stage = 2 * NumThreads
  /\ mLock \in {Nobody, Dtor}
  /\ IF queue # {}
       THEN /\ \E item \in queue : Took(Dtor, item) /\ queue' = queue \ {item}
            /\ mLock' = Dtor
       ELSE /\ mLock' = Nobody
            /\ Goto(Dtor, "join")
            /\ UNCHANGED <<queue, cur>>
  /\ UNCHANGED <<streamVars, numaVars, deque, ring, pending, shutdown, asleep,
                 left, todo, stage, ghosts>>

DrainQueue ==
  /\ pc[Dtor] = "drain"
  /\ stage = 2 * NumThreads
  /\ mLock \in {Nobody, Dtor}
  /\ IF queue # {}
       THEN /\ \E item \in queue : Took(Dtor, item) /\ queue' = queue \ {item}
            /\ mLock' = Dtor
            /\ UNCHANGED asleep
       ELSE /\ mLock' = Nobody
            /\ NotifyAll
            /\ Goto(Dtor, "join")
            /\ UNCHANGED <<queue, cur>>
  /\ UNCHANGED <<streamVars, numaVars, deque, ring, pending, shutdown, left,
                 todo, stage, ghosts>>

Join ==
  /\ pc[Dtor] = "join"
  /\ \A w \in Workers : pc[w] = "exited"
  /\ Goto(Dtor, "dead")
  /\ UNCHANGED <<streamVars, mLock, queue, numaVars, deque, ring, pending,
                 shutdown, asleep, cur, left, todo, stage, ghosts>>

-----------------------------------------------------------------------------
\* Two owners.  ~Scheduler pops the deques and rings of workers that still run, and a
\* full ring's producer pushes on the worker's deque: calls for the owner alone.  A
\* step here is such a call that overlaps the one the owner comes to, with a result
\* that neither order of the two has.

\* One item in two hands: two pops have read the same bottom_, or the same tail_, or
\* a producer's push has put bottom_ back behind the item just popped.  Both threads
\* move from it and delete it, and what the program does from then on is undefined.
TakenTwice(w) ==
  /\ \/ /\ pc[Dtor] = "drain" /\ stage = 2 * w
        /\ pc[w] = "seek" /\ Len(deque[w]) > 1
     \/ /\ pc[Dtor] = "drain" /\ stage = 2 * w + 1
        /\ pc[w] = "steal" /\ left[w] = {} /\ ring[w] # <<>>
     \/ /\ \E h \in Hosts : pc[h] = "ringFull" /\ Target(todo[h]) = w
        /\ pc[w] = "seek" /\ Len(deque[w]) > 1 /\ Len(deque[w]) < DequeCap
  /\ collided' = "twice"
  /\ UNCHANGED <<stepVars, sunk>>

\* Two pops find nothing, and who restores bottom_ last leaves it below top_, where
\* the next item pushed is out of sight.
PopsOverlap(w) ==
  /\ pc[Dtor] = "drain" /\ stage = 2 * w
  /\ pc[w] = "seek" /\ deque[w] = <<>>
  /\ stage' = stage + 1
  /\ sunk' = sunk \cup {w} /\ collided' = "lost"
  /\ UNCHANGED <<streamVars, mLock, queue, numaVars, deque, ring, pending, shutdown,
                 asleep, pc, cur, left, todo, ghosts>>

\* A producer's push over the owner's pop of the last item loses the item pushed; over
\* a push, one of the two goes.
OwnerPushes(w) == pc[w] = "finish" /\ Len(pend[StreamOf[cur[w].task]]) > 1

PushOverlaps(h) ==
  LET x == todo[h]
      w == Target(x)
  IN
  /\ pc[h] = "ringFull" /\ Len(deque[w]) < DequeCap
  /\ \/ /\ (pc[w] = "seek" /\ Len(deque[w]) <= 1) \/ OwnerPushes(w)
        /\ UNCHANGED <<deque, sunk>>
     \/ /\ OwnerPushes(w)
        /\ deque' = [deque EXCEPT ![w] = Append(@, Item("empty", x))]
        /\ sunk' = sunk \cup {w}
  /\ emptied' = emptied \cup {x}
  /\ Goto(h, "countOne")
  /\ collided' = "lost"
  /\ UNCHANGED <<streamVars, mLock, queue, numaVars, ring, pending, shutdown, asleep,
                 cur, left, todo, stage, accepted, log, runs, owed>>

\* Finish, with a push that is lost.
FinishLost(w) ==
  LET s == StreamOf[cur[w].task]
      rest == Tail(pend[s])
  IN
  /\ collided = "lost" /\ w \in sunk
  /\ pc[w] = "finish" /\ sLock[s] = Nobody
  /\ rest # <<>> /\ Len(deque[w]) < DequeCap
  /\ pend' = [pend EXCEPT ![s] = rest]
  /\ sunk' = sunk \ {w}
  /\ NotifyAll
  /\ Goto(w, "account")
  /\ UNCHANGED <<busy, sLock, mLock, queue, numaVars, deque, ring, pending, shutdown, cur,
                 left, todo, stage, ghosts, collided>>

Race ==
  \/ \E w \in Workers : TakenTwice(w) \/ PopsOverlap(w) \/ FinishLost(w)
  \/ \E h \in Hosts : PushOverlaps(h)

-----------------------------------------------------------------------------
HostStep(h) ==
  \/ \E x \in Tasks : \/ SubmitStreamTask(h, x)
                      \/ SubmitConcurrentTask(h, x)
                      \/ SubmitNumaTask(h, x)
                      \/ EnqueueToStream(h, x)
  \/ StreamPush(h) \/ StreamEnqueue(h)
  \/ CountAndNotify(h) \/ RingFull(h) \/ CountAndNotifyOne(h)
  \/ WaitAll(h) \/ WaitAllDone(h) \/ WaitAllTick(h)
  \/ \E s \in Streams : WaitStream(h, s)
  \/ WaitStreamLook(h) \/ WaitStreamDone(h) \/ WaitTimeout(h) \/ WaitReturn(h)

RunStep(r) == RunItem(r) \/ Finish(r) \/ Spill(r) \/ Account(r)

WorkerStep(w) ==
  \/ WorkerStart(w) \/ PopOwn(w) \/ TrySteal(w) \/ PopRing(w)
  \/ LockAndLook(w) \/ Block(w) \/ Unblock(w) \/ RunStep(w)

DtorStep == BeginDtor \/ DrainWorker \/ DrainQueue \/ Join \/ RunStep(Dtor)

Step ==
  \/ BuildNumaTopology
  \/ \E h \in Hosts : HostStep(h)
  \/ \E w \in Workers : WorkerStep(w)
  \/ DtorStep

\* The steps in which nobody overlaps an owner.
Alone == collided # "twice" /\ UNCHANGED <<sunk, collided>>

Next == (Alone /\ Step) \/ (collided # "twice" /\ Race)

Spec == Init /\ [][Next]_vars

\* Every thread keeps running, and one that waits for a mutex which is free
\* again and again gets it in the end.  No host has to submit or to wait; a
\* submission it began ends, and waitAll's 10 ms re-notification keeps coming.
HostProgress(h) ==
  \/ StreamPush(h) \/ StreamEnqueue(h) \/ RingFull(h)
  \/ CountAndNotify(h) \/ CountAndNotifyOne(h)
  \/ WaitAllDone(h) \/ WaitAllTick(h) \/ WaitStreamDone(h) \/ WaitReturn(h)

Fairness ==
  /\ WF_vars(Alone /\ BuildNumaTopology)
  /\ \A h \in Hosts : SF_vars(Alone /\ HostProgress(h))
  /\ \A w \in Workers : SF_vars((Alone /\ WorkerStep(w)) \/ FinishLost(w))
  /\ SF_vars(Alone /\ (DrainWorker \/ DrainQueue \/ Join \/ RunStep(Dtor)))

FairSpec == Spec /\ Fairness

-----------------------------------------------------------------------------
(* Properties *)

\* Types of the scheduler's members and of the threads' locals.
Items == [kind : {"stream", "solo", "empty"}, task : Tasks]

\* Each stream runs its tasks once each, in submission order.  A task leaves
\* the front of its queue only after it has run.
Waiting ==
  [s \in Streams |->
     IF \E r \in Runners : InStream(r, s) /\ pc[r] = "finish"
       THEN Tail(pend[s]) ELSE pend[s]]

Order == INSTANCE StreamOrder
           WITH Stream <- Streams, Task <- StreamTasks,
                waiting <- Waiting, history <- log
ImplementsStreamOrder == Order!Spec

\* When waitAll or waitStream returns without having timed out, the tasks
\* whose submit call had returned before (for waitStream, of that stream)
\* have run.
WaitSound ==
  \A h \in Hosts : pc[h] = "waited" => \A x \in owed[h] : runs[x] = 1

\* pending_ is zero with no submission under way only when every accepted task
\* has run, whichever entry point took it and whatever container it went
\* through, as long as no deque or ring had two owners at once; a task that met a
\* full ring is the exception.
Drained ==
  collided = "no" /\ pending = 0 /\ (\A h \in Hosts : pc[h] \notin Submitting)
    => \A x \in accepted \ emptied : runs[x] = 1

\* Every accepted stream task and concurrent task runs, unless ~Scheduler
\* starts first (DroppedByRaceOnly then speaks of it) or a full ring's push has
\* overlapped the worker's own.
EventuallyRun ==
  \A x \in StreamTasks \cup SoloTasks :
    x \in accepted ~> runs[x] = 1 \/ pc[Dtor] # "alive" \/ collided # "no"

\* A task left in a ring by a wakeup nobody received runs while someone is in
\* waitAll, thanks to its re-notification.
WaitAllDrainsRings ==
  \A x \in RingTasks, h \in Hosts :
    x \in accepted /\ pc[h] = "waitAll" ~> runs[x] = 1 \/ pc[h] # "waitAll"

\* What the comment in ~Scheduler says: the items left in deques and rings are run
\* there, "so they are never silently dropped".  (The tasks a full ring met, and the
\* NUMA queues, which the destructor does not drain, left aside.)  It does not hold:
\* the destructor's pop may overlap the worker's.
NothingDropped ==
  pc[Dtor] = "dead" => \A x \in accepted \ (emptied \cup NumaTasks) : runs[x] = 1

\* It holds as long as none of the destructor's pops overlaps one of the worker's own:
\* the destructor and the workers between them then run every task once, in whatever
\* container each was, and the chains of the streams go on in either.
DroppedByRaceOnly == collided = "no" => NothingDropped

\* ~Scheduler returns, if no stream has a second task waiting behind the one
\* being run: the destructor would enqueue it under the mutex_ it holds; and if
\* no item got into two hands.
NoBacklog == \A s \in Streams : Len(pend[s]) <= 1

DtorReturns ==
  pc[Dtor] = "drain" /\ NoBacklog ~> pc[Dtor] = "dead" \/ collided = "twice"
=============================================================================
