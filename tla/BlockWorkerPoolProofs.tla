----------------------- MODULE BlockWorkerPoolProofs -----------------------
(***************************************************************************)
(* dispatch and the barrier of a block keep their promise for every number *)
(* of dispatchers and workers, every kernel and every capacity of the task *)
(* queue, whether pushes fail, and the pool is shut down, or not.          *)
(***************************************************************************)
EXTENDS BlockWorkerPool, FiniteSetTheorems, TLAPS

Tasks   == Dispatchers \X Nat
Busy    == {"run", "barrier"}
Resting == {"idle", "warm"}

PoolTypes ==
  /\ kernel \in Launches
  /\ queue \in Seq(Tasks)
  /\ task \in [Workers -> Tasks \cup {NoTask}]
  /\ DOMAIN wpc = Workers /\ DOMAIN dpc = Dispatchers
  /\ synced \in [Workers -> Nat] /\ gen \in [Workers -> Nat]
  /\ next \in [Dispatchers -> Nat] /\ remaining \in [Dispatchers -> Nat]
  /\ waiting \in [Dispatchers -> Nat] /\ generation \in [Dispatchers -> Nat]

\* A worker has a task as long as it runs one, and there are no workers before
\* initialize and after shutdown.
WorkerInv ==
  /\ \A w \in Workers : task[w] # NoTask <=> wpc[w] \in Busy
  /\ ~initialized => \A w \in Workers : wpc[w] \in {"none", "exited"}

Queued(x) == \E i \in DOMAIN queue : queue[i] = x

\* No thread of a block is given to two workers.
UniqueInv ==
  /\ \A i, j \in DOMAIN queue : queue[i] = queue[j] => i = j
  /\ \A w \in Workers : ~Queued(task[w])
  /\ \A v, w \in Workers : task[v] = task[w] /\ task[v] # NoTask => v = w

\* The threads of a block that are queued or running, and those of them at the
\* barrier that is to open next.
Live(d) == {t \in Nat : Queued(<<d, t>>) \/ \E w \in Workers : task[w] = <<d, t>>}
Inside(d) ==
  {t \in Nat : \E w \in Workers : /\ task[w] = <<d, t>> /\ wpc[w] = "barrier"
                                  /\ gen[w] = generation[d]}

\* What remains is at least what is live and what is still to be pushed; a push
\* that fails leaves it too high, and dispatch waits for ever.
CountInv ==
  \A d \in Dispatchers :
    IF dpc[d] \in Resting THEN Live(d) = {}
    ELSE /\ IF dpc[d] = "push" THEN next[d] < Width(d) ELSE next[d] = Width(d)
         /\ Live(d) \subseteq 0..(next[d] - 1)
         /\ remaining[d] + next[d] >= Cardinality(Live(d)) + Width(d)

\* A block's barrier has opened generation times: its threads have passed that many
\* barriers, or are still inside the last one; and once it has opened every thread
\* of the block has been given to a worker.
StepInv ==
  \A d \in Dispatchers : dpc[d] \notin Resting =>
    /\ waiting[d] = Cardinality(Inside(d))
    /\ generation[d] > 0 => dpc[d] # "push" /\ \A t \in Nat : ~Queued(<<d, t>>)
    /\ \A w \in Workers : task[w] # NoTask /\ BlockOf(w) = d =>
         /\ wpc[w] = "run" => synced[w] = generation[d]
         /\ wpc[w] = "barrier" => /\ synced[w] = gen[w]
                                  /\ gen[w] = generation[d] \/ gen[w] + 1 = generation[d]

\* Neither half of DispatchSound is inductive: what remains is a number, and that a
\* barrier opens for the whole block is a matter of counting too.
PoolInv == PoolTypes /\ WorkerInv /\ UniqueInv /\ CountInv /\ StepInv

-----------------------------------------------------------------------------
(* Tasks, the queue and finite sets of threads *)

LEMMA TaskFacts ==
  /\ NoTask \notin Tasks
  /\ \A x \in Tasks : \E d \in Dispatchers, t \in Nat : x = <<d, t>> /\ x[1] = d /\ x[2] = t
  /\ \A d, t : <<d, t>>[1] = d /\ <<d, t>>[2] = t
BY DEF NoTask, Tasks

\* The task of a worker that has one.
LEMMA TaskOf ==
  ASSUME PoolTypes, NEW w \in Workers, task[w] # NoTask
  PROVE  \E d \in Dispatchers, t \in Nat : task[w] = <<d, t>> /\ task[w][1] = d /\ BlockOf(w) = d
<1>1. task[w] \in Tasks
  BY DEF PoolTypes
<1>2. PICK d \in Dispatchers, t \in Nat : task[w] = <<d, t>> /\ task[w][1] = d
  BY <1>1, TaskFacts
<1> QED BY <1>2 DEF BlockOf

LEMMA WidthPositive ==
  ASSUME PoolTypes, NEW d \in Dispatchers
  PROVE  Width(d) \in Nat \ {0} /\ Syncs(d) \in Nat
BY PoolAssumption DEF PoolTypes, Width, Syncs

LEMMA UpTo ==
  ASSUME NEW n \in Nat, NEW S \in SUBSET (0..(n - 1))
  PROVE  /\ IsFiniteSet(S) /\ Cardinality(S) \in Nat /\ Cardinality(S) <= n
         /\ Cardinality(S) = n => S = 0..(n - 1)
<1>1. IsFiniteSet(0..(n - 1)) /\ Cardinality(0..(n - 1)) = n
  <2>1. /\ IsFiniteSet(0..(n - 1))
        /\ Cardinality(0..(n - 1)) = IF 0 > n - 1 THEN 0 ELSE (n - 1) - 0 + 1
    BY FS_Interval
  <2> QED BY <2>1
<1>2. IsFiniteSet(S) /\ Cardinality(S) <= n /\ (Cardinality(S) = n => S = 0..(n - 1))
  BY <1>1, FS_Subset
<1> QED BY <1>2, FS_CardinalityType

\* Popping takes one task out of the queue, for good.
LEMMA QueuePop ==
  ASSUME NEW q \in Seq(Tasks), q # <<>>, \A i, j \in DOMAIN q : q[i] = q[j] => i = j
  PROVE  /\ Head(q) \in Tasks /\ Tail(q) \in Seq(Tasks)
         /\ \E i \in DOMAIN q : q[i] = Head(q)
         /\ \A i, j \in DOMAIN Tail(q) : Tail(q)[i] = Tail(q)[j] => i = j
         /\ \A x : (\E i \in DOMAIN Tail(q) : Tail(q)[i] = x) <=>
                   (\E i \in DOMAIN q : q[i] = x) /\ x # Head(q)
<1>1. PICK n \in Nat : n = Len(q)
  OBVIOUS
<1>2. PICK r : r = Tail(q)
  OBVIOUS
<1>3. /\ n > 0 /\ DOMAIN q = 1..n /\ Head(q) = q[1] /\ q[1] \in Tasks
      /\ r \in Seq(Tasks) /\ Len(r) = n - 1 /\ DOMAIN r = 1..(n - 1)
      /\ \A i \in 1..(n - 1) : r[i] = q[i + 1]
  BY <1>1, <1>2
<1>4. \A i \in 1..(n - 1) : i + 1 \in 1..n /\ i + 1 # 1
  OBVIOUS
<1>5. \A i \in 1..n : i # 1 => i - 1 \in 1..(n - 1) /\ (i - 1) + 1 = i
  OBVIOUS
<1>6. 1 \in 1..n
  BY <1>3
<1>7. ASSUME NEW i \in 1..(n - 1), NEW j \in 1..(n - 1), r[i] = r[j]
      PROVE  i = j
  <2>1. i + 1 = j + 1
    BY <1>3, <1>4, <1>7
  <2> QED BY <2>1
<1>8. ASSUME NEW x, NEW i \in 1..(n - 1), r[i] = x
      PROVE  (\E j \in 1..n : q[j] = x) /\ x # q[1]
  BY <1>3, <1>4, <1>6, <1>8
<1>9. ASSUME NEW x, NEW i \in 1..n, q[i] = x, x # q[1]
      PROVE  \E j \in 1..(n - 1) : r[j] = x
  BY <1>3, <1>5, <1>9
<1> QED BY <1>2, <1>3, <1>6, <1>7, <1>8, <1>9

LEMMA QueuePush ==
  ASSUME NEW q \in Seq(Tasks), NEW y \in Tasks, ~\E i \in DOMAIN q : q[i] = y,
         \A i, j \in DOMAIN q : q[i] = q[j] => i = j
  PROVE  /\ Append(q, y) \in Seq(Tasks)
         /\ \A i, j \in DOMAIN Append(q, y) : Append(q, y)[i] = Append(q, y)[j] => i = j
         /\ \A x : (\E i \in DOMAIN Append(q, y) : Append(q, y)[i] = x) <=>
                   (\E i \in DOMAIN q : q[i] = x) \/ x = y
<1>1. PICK n \in Nat : n = Len(q)
  OBVIOUS
<1>2. PICK r : r = Append(q, y)
  OBVIOUS
<1>3. /\ DOMAIN q = 1..n /\ r \in Seq(Tasks) /\ DOMAIN r = 1..(n + 1) /\ r[n + 1] = y
      /\ \A i \in 1..n : r[i] = q[i]
  BY <1>1, <1>2
<1>4. \A i \in 1..(n + 1) : i \in 1..n \/ i = n + 1
  OBVIOUS
<1>5. \A i \in 1..n : i \in 1..(n + 1)
  OBVIOUS
<1>6. n + 1 \in 1..(n + 1)
  OBVIOUS
<1>7. \A i, j \in 1..(n + 1) : r[i] = r[j] => i = j
  BY <1>3, <1>4
<1>8. \A x : (\E i \in 1..(n + 1) : r[i] = x) <=> (\E i \in 1..n : q[i] = x) \/ x = y
  BY <1>3, <1>4, <1>5, <1>6
<1> QED BY <1>2, <1>3, <1>7, <1>8

-----------------------------------------------------------------------------
(* Steps that touch no task *)

\* A dispatcher stays at rest, stays at its pushes, or stays after them.
SamePart(a, b) == (a \in Resting <=> b \in Resting) /\ (a = "push" <=> b = "push")

LEMMA QuietKeeps ==
  ASSUME PoolInv,
         UNCHANGED <<kernel, queue, task, synced, gen, next, remaining, waiting, generation>>,
         DOMAIN wpc' = Workers, DOMAIN dpc' = Dispatchers,
         \A w \in Workers : wpc'[w] = wpc[w] \/ (wpc[w] \notin Busy /\ wpc'[w] \notin Busy),
         \A d \in Dispatchers : SamePart(dpc[d], dpc'[d]),
         ~initialized' => \A w \in Workers : wpc'[w] \in {"none", "exited"}
  PROVE  PoolInv'
<1>1. PoolTypes' /\ UniqueInv'
  BY DEF PoolInv, PoolTypes, UniqueInv, Queued
<1>2. WorkerInv'
  BY DEF PoolInv, WorkerInv
<1>3. \A d : Live(d)' = Live(d)
  BY DEF Live, Queued
<1>4. \A w \in Workers : wpc'[w] = "barrier" <=> wpc[w] = "barrier"
  BY DEF Busy
<1>5. \A d : Inside(d)' = Inside(d)
  BY <1>4 DEF Inside
<1>6. CountInv'
  BY <1>3 DEF PoolInv, CountInv, SamePart, Width
<1>7. \A w \in Workers : wpc'[w] = "run" <=> wpc[w] = "run"
  BY DEF Busy
<1>8. StepInv'
  <2> SUFFICES ASSUME NEW d \in Dispatchers, dpc'[d] \notin Resting
               PROVE  /\ waiting[d] = Cardinality(Inside(d))
                      /\ generation[d] > 0 => dpc'[d] # "push" /\ \A t \in Nat : ~Queued(<<d, t>>)
                      /\ \A w \in Workers : task[w] # NoTask /\ BlockOf(w) = d =>
                           /\ wpc'[w] = "run" => synced[w] = generation[d]
                           /\ wpc'[w] = "barrier" =>
                                /\ synced[w] = gen[w]
                                /\ gen[w] = generation[d] \/ gen[w] + 1 = generation[d]
    BY <1>5 DEF StepInv, Queued, BlockOf
  <2>1. dpc[d] \notin Resting /\ (dpc[d] = "push" <=> dpc'[d] = "push")
    BY DEF SamePart
  <2> QED BY <1>4, <1>7, <2>1 DEF PoolInv, StepInv
<1> QED BY <1>1, <1>2, <1>6, <1>8 DEF PoolInv

LEMMA DispatcherQuiet ==
  ASSUME PoolInv, UNCHANGED <<kernel, queue, workerVars, next, remaining, waiting, generation>>,
         NEW d \in Dispatchers, NEW l, Dgoto(d, l), SamePart(dpc[d], l),
         UNCHANGED initialized
  PROVE  PoolInv'
<1>1. \A e \in Dispatchers : SamePart(dpc[e], dpc'[e])
  BY DEF PoolInv, PoolTypes, Dgoto, SamePart
<1>2. DOMAIN dpc' = Dispatchers
  BY DEF PoolInv, PoolTypes, Dgoto
<1>3. UNCHANGED <<wpc, task, synced, gen>> /\ DOMAIN wpc = Workers
  BY DEF workerVars, PoolInv, PoolTypes
<1>4. ~initialized' => \A w \in Workers : wpc'[w] \in {"none", "exited"}
  BY <1>3 DEF PoolInv, WorkerInv
<1> QED BY <1>1, <1>2, <1>3, <1>4, QuietKeeps

LEMMA WorkerQuiet ==
  ASSUME PoolInv, UNCHANGED <<kernel, queue, task, synced, gen, blockVars, initialized>>,
         NEW w \in Workers, NEW l, Wgoto(w, l), wpc[w] \notin Busy, l \notin Busy,
         wpc[w] \notin {"none", "exited"}
  PROVE  PoolInv'
<1>1. UNCHANGED <<dpc, next, remaining, waiting, generation>>
  BY DEF blockVars
<1>2. DOMAIN wpc' = Workers /\ DOMAIN dpc' = Dispatchers
      /\ \A v \in Workers : wpc'[v] = IF v = w THEN l ELSE wpc[v]
  BY <1>1 DEF PoolInv, PoolTypes, Wgoto
<1>3. \A e \in Dispatchers : SamePart(dpc[e], dpc'[e])
  BY <1>1 DEF SamePart
<1>4. initialized
  BY DEF PoolInv, WorkerInv
<1>5. \A v \in Workers : wpc'[v] = wpc[v] \/ (wpc[v] \notin Busy /\ wpc'[v] \notin Busy)
  BY <1>2
<1> QED BY <1>1, <1>2, <1>3, <1>4, <1>5, QuietKeeps

\* initialize and the end of shutdown find no worker with a task.
LEMMA PoolQuiet ==
  ASSUME PoolInv,
         UNCHANGED <<kernel, queue, task, synced, gen, next, remaining, waiting, generation>>,
         DOMAIN wpc' = Workers, DOMAIN dpc' = Dispatchers,
         \A w \in Workers : wpc[w] \in {"none", "exited"},
         \/ initialized' /\ \A w \in Workers : wpc'[w] = "start"
         \/ UNCHANGED wpc,
         \A d \in Dispatchers : SamePart(dpc[d], dpc'[d])
  PROVE  PoolInv'
<1>1. \A w \in Workers : wpc[w] \notin Busy /\ wpc'[w] \notin Busy
  BY DEF Busy
<1>2. ~initialized' => \A w \in Workers : wpc'[w] \in {"none", "exited"}
  OBVIOUS
<1> QED BY <1>1, <1>2, QuietKeeps

-----------------------------------------------------------------------------
(* Steps of a dispatcher that touch its block *)

LEMMA DispatchKeeps ==
  ASSUME PoolInv, NEW d \in Dispatchers, Dispatch(d), UNCHANGED kernel
  PROVE  PoolInv'
<1>1. /\ dpc[d] \in Resting
      /\ UNCHANGED <<initialized, queue, wpc, task, synced, gen>>
      /\ \A e \in Dispatchers : dpc'[e] = IF e = d THEN "push" ELSE dpc[e]
      /\ DOMAIN dpc' = Dispatchers
  BY DEF Dispatch, Dgoto, poolVars, workerVars, PoolInv, PoolTypes, Resting
<1>2. /\ next' = [next EXCEPT ![d] = 0]
      /\ remaining' = [remaining EXCEPT ![d] = Width(d)]
      /\ waiting' = [waiting EXCEPT ![d] = 0]
      /\ generation' = [generation EXCEPT ![d] = 0]
  BY DEF Dispatch, Signal
<1>3. Width(d) \in Nat \ {0} /\ Width(d)' = Width(d)
  BY WidthPositive DEF PoolInv, Width
<1>4. PoolTypes'
  BY <1>1, <1>2, <1>3 DEF PoolInv, PoolTypes
<1>5. WorkerInv' /\ UniqueInv'
  BY <1>1 DEF PoolInv, WorkerInv, UniqueInv, Queued
<1>6. /\ next'[d] = 0 /\ remaining'[d] = Width(d) /\ waiting'[d] = 0 /\ generation'[d] = 0
      /\ \A e \in Dispatchers : e # d =>
           /\ next'[e] = next[e] /\ remaining'[e] = remaining[e]
           /\ waiting'[e] = waiting[e] /\ generation'[e] = generation[e]
  BY <1>2 DEF PoolInv, PoolTypes
<1>7. \A e \in Dispatchers : Live(e)' = Live(e)
  BY <1>1 DEF Live, Queued
<1>8. Live(d) = {}
  BY <1>1 DEF PoolInv, CountInv
<1>9. CountInv'
  <2> SUFFICES ASSUME NEW e \in Dispatchers
               PROVE  IF dpc'[e] \in Resting THEN Live(e) = {}
                      ELSE /\ IF dpc'[e] = "push" THEN next'[e] < Width(e) ELSE next'[e] = Width(e)
                           /\ Live(e) \subseteq 0..(next'[e] - 1)
                           /\ remaining'[e] + next'[e] >= Cardinality(Live(e)) + Width(e)
    BY <1>7 DEF CountInv, Width
  <2>1. CASE e # d
    BY <1>1, <1>6, <2>1 DEF PoolInv, CountInv
  <2>2. CASE e = d
    <3>1. Cardinality(Live(d)) = 0
      BY <1>8, FS_EmptySet
    <3>2. dpc'[e] = "push" /\ "push" \notin Resting
      BY <1>1, <2>2 DEF Resting
    <3>3. PICK W \in Nat \ {0} : W = Width(e)
      BY <1>3, <2>2
    <3>4. next'[e] = 0 /\ remaining'[e] = W /\ Live(e) = {} /\ Cardinality(Live(e)) = 0
      BY <1>6, <1>8, <2>2, <3>1, <3>3
    <3>5. 0 < W /\ W + 0 >= 0 + W
      OBVIOUS
    <3> QED BY <3>2, <3>3, <3>4, <3>5
  <2> QED BY <2>1, <2>2
<1>10. \A w \in Workers : task[w] # NoTask => BlockOf(w) # d /\ BlockOf(w) \in Dispatchers
  <2> SUFFICES ASSUME NEW w \in Workers, task[w] # NoTask
               PROVE  BlockOf(w) # d /\ BlockOf(w) \in Dispatchers
    OBVIOUS
  <2>1. PICK e \in Dispatchers, t \in Nat : task[w] = <<e, t>> /\ task[w][1] = e
    BY TaskOf DEF PoolInv
  <2>2. t \in Live(e)
    BY <2>1 DEF Live
  <2> QED BY <1>8, <2>1, <2>2 DEF BlockOf
<1>11. Inside(d)' = {}
  <2> SUFFICES ASSUME NEW t \in Nat, NEW w \in Workers, task[w] = <<d, t>> PROVE FALSE
    BY <1>1 DEF Inside
  <2>1. t \in Live(d)
    BY DEF Live
  <2> QED BY <1>8, <2>1
<1>12. \A e \in Dispatchers : e # d => Inside(e)' = Inside(e)
  BY <1>1, <1>6 DEF Inside
<1>13. StepInv'
  <2> SUFFICES ASSUME NEW e \in Dispatchers, dpc'[e] \notin Resting
               PROVE  /\ waiting'[e] = Cardinality(Inside(e)')
                      /\ generation'[e] > 0 => dpc'[e] # "push" /\ \A t \in Nat : ~Queued(<<e, t>>)
                      /\ \A w \in Workers : task[w] # NoTask /\ BlockOf(w) = e =>
                           /\ wpc[w] = "run" => synced[w] = generation'[e]
                           /\ wpc[w] = "barrier" =>
                                /\ synced[w] = gen[w]
                                /\ gen[w] = generation'[e] \/ gen[w] + 1 = generation'[e]
    BY <1>1 DEF StepInv, Queued, BlockOf
  <2>1. CASE e # d
    BY <1>1, <1>6, <1>12, <2>1 DEF PoolInv, StepInv
  <2>2. CASE e = d
    BY <1>6, <1>10, <1>11, <2>2, FS_EmptySet
  <2> QED BY <2>1, <2>2
<1> QED BY <1>4, <1>5, <1>9, <1>13 DEF PoolInv

LEMMA PushKeeps ==
  ASSUME PoolInv, NEW d \in Dispatchers, PushTask(d), UNCHANGED kernel
  PROVE  PoolInv'
<1>1. /\ dpc[d] = "push" /\ "push" \notin Resting /\ "fence" \notin Resting
      /\ UNCHANGED <<initialized, wpc, task, synced, gen, remaining, waiting, generation>>
      /\ \A e \in Dispatchers :
           dpc'[e] = IF e = d THEN IF next[d] + 1 = Width(d) THEN "fence" ELSE "push" ELSE dpc[e]
      /\ DOMAIN dpc' = Dispatchers
      /\ next' = [next EXCEPT ![d] = @ + 1]
  BY DEF PushTask, Dgoto, workerVars, PoolInv, PoolTypes, Resting
<1>2. PICK n \in Nat : n = next[d]
  BY DEF PoolInv, PoolTypes
<1>3. /\ next'[d] = n + 1 /\ next' \in [Dispatchers -> Nat]
      /\ \A e \in Dispatchers : e # d => next'[e] = next[e]
  BY <1>1, <1>2 DEF PoolInv, PoolTypes
<1>4. PICK W \in Nat \ {0} : W = Width(d)
  BY WidthPositive DEF PoolInv
<1>5. /\ n < W /\ Live(d) \subseteq 0..(n - 1)
      /\ remaining[d] + n >= Cardinality(Live(d)) + W
  BY <1>1, <1>2, <1>4 DEF PoolInv, CountInv
<1>6. <<d, n>> \in Tasks /\ ~Queued(<<d, n>>) /\ \A w \in Workers : task[w] # <<d, n>>
  <2>1. n \notin Live(d)
    BY <1>5
  <2> QED BY <2>1 DEF Live, Tasks
<1>7. /\ queue' \in Seq(Tasks)
      /\ \A i, j \in DOMAIN queue' : queue'[i] = queue'[j] => i = j
      /\ \/ \A x : Queued(x)' <=> Queued(x)
         \/ \A x : Queued(x)' <=> Queued(x) \/ x = <<d, n>>
  <2>1. CASE queue' = queue
    BY <2>1 DEF PoolInv, PoolTypes, UniqueInv, Queued
  <2>2. CASE queue' = Append(queue, <<d, n>>)
    <3>1. PICK q \in Seq(Tasks) : q = queue
      BY DEF PoolInv, PoolTypes
    <3>2. PICK y \in Tasks : y = <<d, n>>
      BY <1>6
    <3>3. PICK r : r = Append(q, y)
      OBVIOUS
    <3>4. /\ \A i, j \in DOMAIN q : q[i] = q[j] => i = j
          /\ ~\E i \in DOMAIN q : q[i] = y
      BY <1>6, <3>1, <3>2 DEF PoolInv, UniqueInv, Queued
    <3>5. /\ r \in Seq(Tasks)
          /\ \A i, j \in DOMAIN r : r[i] = r[j] => i = j
          /\ \A x : (\E i \in DOMAIN r : r[i] = x) <=> (\E i \in DOMAIN q : q[i] = x) \/ x = y
      BY <3>3, <3>4, QueuePush
    <3>6. queue' = r
      BY <2>2, <3>1, <3>2, <3>3
    <3> QED BY <3>1, <3>2, <3>5, <3>6 DEF Queued
  <2> QED BY <1>2, <2>1, <2>2 DEF PushTask
<1>8. PoolTypes'
  BY <1>1, <1>3, <1>7 DEF PoolInv, PoolTypes
<1>9. WorkerInv' /\ UniqueInv'
  <2>1. WorkerInv'
    BY <1>1 DEF PoolInv, WorkerInv
  <2>2. \A w \in Workers : ~Queued(task[w])'
    BY <1>1, <1>6, <1>7 DEF PoolInv, UniqueInv
  <2>3. \A v, w \in Workers : task'[v] = task'[w] /\ task'[v] # NoTask => v = w
    BY <1>1 DEF PoolInv, UniqueInv
  <2> QED BY <1>7, <2>1, <2>2, <2>3 DEF UniqueInv
<1>10. /\ \A e \in Dispatchers : e # d => Live(e)' = Live(e)
       /\ Live(d)' = Live(d) \/ Live(d)' = Live(d) \cup {n}
  <2>1. \A e \in Dispatchers, t \in Nat : e # d => <<e, t>> # <<d, n>>
    OBVIOUS
  <2>2. \A t \in Nat : <<d, t>> = <<d, n>> <=> t = n
    OBVIOUS
  <2>3. CASE \A x : Queued(x)' <=> Queued(x)
    BY <1>1, <2>3 DEF Live
  <2>4. CASE \A x : Queued(x)' <=> Queued(x) \/ x = <<d, n>>
    BY <1>1, <2>1, <2>2, <2>4 DEF Live
  <2> QED BY <1>7, <2>3, <2>4
<1>11. /\ Live(d)' \subseteq 0..n
       /\ remaining[d] + (n + 1) >= Cardinality(Live(d)') + W
  <2>1. /\ IsFiniteSet(Live(d)) /\ Cardinality(Live(d)) \in Nat /\ n \notin Live(d)
    BY <1>5, UpTo
  <2>2. Cardinality(Live(d) \cup {n}) = Cardinality(Live(d)) + 1
    BY <2>1, FS_AddElement
  <2>3. remaining[d] \in Nat
    BY DEF PoolInv, PoolTypes
  <2>4. Cardinality(Live(d)') \in {Cardinality(Live(d)), Cardinality(Live(d)) + 1}
    BY <1>10, <2>2
  <2>5. Live(d)' \subseteq 0..n
    BY <1>5, <1>10
  <2> QED BY <1>5, <2>1, <2>3, <2>4, <2>5
<1>12. CountInv'
  <2> SUFFICES ASSUME NEW e \in Dispatchers
               PROVE  IF dpc'[e] \in Resting THEN Live(e)' = {}
                      ELSE /\ IF dpc'[e] = "push" THEN next'[e] < Width(e) ELSE next'[e] = Width(e)
                           /\ Live(e)' \subseteq 0..(next'[e] - 1)
                           /\ remaining[e] + next'[e] >= Cardinality(Live(e)') + Width(e)
    BY <1>1 DEF CountInv, Width
  <2>1. CASE e # d
    BY <1>1, <1>3, <1>10, <2>1 DEF PoolInv, CountInv
  <2>2. CASE e = d
    <3>1. next'[e] - 1 = n
      BY <1>3, <2>2
    <3>2. dpc'[e] \notin Resting
      BY <1>1, <2>2
    <3>3. IF dpc'[e] = "push" THEN n + 1 < W ELSE n + 1 = W
      BY <1>1, <1>2, <1>4, <1>5, <2>2
    <3> QED BY <1>3, <1>4, <1>11, <2>2, <3>1, <3>2, <3>3
  <2> QED BY <2>1, <2>2
<1>13. \A e \in Dispatchers : Inside(e)' = Inside(e)
  BY <1>1 DEF Inside
<1>14. StepInv'
  <2> SUFFICES ASSUME NEW e \in Dispatchers, dpc'[e] \notin Resting
               PROVE  /\ waiting[e] = Cardinality(Inside(e))
                      /\ generation[e] > 0 => dpc'[e] # "push" /\ \A t \in Nat : ~Queued(<<e, t>>)'
                      /\ \A w \in Workers : task[w] # NoTask /\ BlockOf(w) = e =>
                           /\ wpc[w] = "run" => synced[w] = generation[e]
                           /\ wpc[w] = "barrier" =>
                                /\ synced[w] = gen[w]
                                /\ gen[w] = generation[e] \/ gen[w] + 1 = generation[e]
    BY <1>1, <1>13 DEF StepInv, BlockOf
  <2>1. dpc[e] \notin Resting
    BY <1>1
  <2>2. e = d => ~(generation[e] > 0)
    BY <1>1 DEF PoolInv, StepInv
  <2>3. e # d => \A t \in Nat : Queued(<<e, t>>)' <=> Queued(<<e, t>>)
    BY <1>7
  <2> QED BY <1>1, <2>1, <2>2, <2>3 DEF PoolInv, StepInv
<1> QED BY <1>8, <1>9, <1>12, <1>14 DEF PoolInv

\* dispatch returns: nothing of the block is left.
LEMMA ReturnKeeps ==
  ASSUME PoolInv, NEW d \in Dispatchers, dpc[d] \in {"spin", "wait"}, remaining[d] = 0,
         Dgoto(d, "idle"),
         UNCHANGED <<kernel, initialized, queue, workerVars, next, remaining, waiting, generation>>
  PROVE  PoolInv'
<1>1. /\ dpc[d] \notin Resting /\ dpc[d] # "push" /\ "idle" \in Resting
      /\ \A e \in Dispatchers : dpc'[e] = IF e = d THEN "idle" ELSE dpc[e]
      /\ DOMAIN dpc' = Dispatchers
      /\ UNCHANGED <<wpc, task, synced, gen>>
  BY DEF Resting, Dgoto, PoolInv, PoolTypes, workerVars
<1>2. PICK W \in Nat \ {0} : W = Width(d)
  BY WidthPositive DEF PoolInv
<1>3. next[d] = W /\ Live(d) \subseteq 0..(W - 1) /\ W >= Cardinality(Live(d)) + W
  BY <1>1, <1>2 DEF PoolInv, CountInv
<1>4. Live(d) = {}
  <2>1. IsFiniteSet(Live(d)) /\ Cardinality(Live(d)) \in Nat
    BY <1>3, UpTo
  <2>2. Cardinality(Live(d)) = 0
    BY <1>3, <2>1
  <2> QED BY <2>1, <2>2, FS_EmptySet
<1>5. PoolTypes' /\ WorkerInv' /\ UniqueInv'
  BY <1>1 DEF PoolInv, PoolTypes, WorkerInv, UniqueInv, Queued
<1>6. \A e \in Dispatchers : Live(e)' = Live(e) /\ Inside(e)' = Inside(e)
  BY <1>1 DEF Live, Queued, Inside
<1>7. CountInv'
  BY <1>1, <1>4, <1>6 DEF PoolInv, CountInv, Width
<1>8. StepInv'
  BY <1>1, <1>6 DEF PoolInv, StepInv, Queued, BlockOf
<1> QED BY <1>5, <1>7, <1>8 DEF PoolInv

-----------------------------------------------------------------------------
(* Steps of a worker that touch a task *)

LEMMA PopKeeps ==
  ASSUME PoolInv, NEW w \in Workers, PopTask(w), UNCHANGED kernel
  PROVE  PoolInv'
<1>1. /\ wpc[w] = "pop" /\ "pop" \notin Busy /\ "run" \in Busy /\ queue # <<>>
      /\ UNCHANGED <<initialized, gen, dpc, next, remaining, waiting, generation>>
      /\ task' = [task EXCEPT ![w] = Head(queue)]
      /\ queue' = Tail(queue)
      /\ synced' = [synced EXCEPT ![w] = 0]
      /\ wpc' = [wpc EXCEPT ![w] = "run"]
  BY DEF PopTask, Wgoto, blockVars, Busy
<1>2. task[w] = NoTask
  BY <1>1 DEF PoolInv, WorkerInv
<1>3. PICK q \in Seq(Tasks) : q = queue
  BY DEF PoolInv, PoolTypes
<1>4. PICK x : x = Head(q)
  OBVIOUS
<1>5. /\ x \in Tasks /\ queue' \in Seq(Tasks) /\ Queued(x)
      /\ \A i, j \in DOMAIN queue' : queue'[i] = queue'[j] => i = j
      /\ \A y : Queued(y)' <=> Queued(y) /\ y # x
  <2>1. PICK r : r = Tail(q)
    OBVIOUS
  <2>2. /\ x \in Tasks /\ r \in Seq(Tasks)
        /\ \E i \in DOMAIN q : q[i] = x
        /\ \A i, j \in DOMAIN r : r[i] = r[j] => i = j
        /\ \A y : (\E i \in DOMAIN r : r[i] = y) <=> (\E i \in DOMAIN q : q[i] = y) /\ y # x
    <3>1. q # <<>> /\ \A i, j \in DOMAIN q : q[i] = q[j] => i = j
      BY <1>1, <1>3 DEF PoolInv, UniqueInv
    <3> QED BY <1>4, <2>1, <3>1, QueuePop
  <2>3. queue' = r
    BY <1>1, <1>3, <2>1
  <2> QED BY <1>3, <2>2, <2>3 DEF Queued
<1>6. /\ \A v \in Workers : task'[v] = IF v = w THEN x ELSE task[v]
      /\ \A v \in Workers : wpc'[v] = IF v = w THEN "run" ELSE wpc[v]
      /\ \A v \in Workers : synced'[v] = IF v = w THEN 0 ELSE synced[v]
  BY <1>1, <1>3, <1>4 DEF PoolInv, PoolTypes
<1>7. PoolTypes'
  BY <1>1, <1>3, <1>4, <1>5 DEF PoolInv, PoolTypes
<1>8. WorkerInv'
  <2>1. initialized
    BY <1>1 DEF PoolInv, WorkerInv
  <2>2. x # NoTask
    BY <1>5, TaskFacts
  <2> QED BY <1>1, <1>6, <2>1, <2>2 DEF PoolInv, WorkerInv
<1>9. UniqueInv'
  <2>1. \A v \in Workers : task[v] # x
    BY <1>5 DEF PoolInv, UniqueInv
  <2>2. \A v \in Workers : ~Queued(task[v])'
    <3> SUFFICES ASSUME NEW v \in Workers, NEW y, y = task'[v], Queued(y)' PROVE FALSE
      BY DEF Queued
    <3> QED BY <1>5, <1>6 DEF PoolInv, UniqueInv
  <2>3. \A v, u \in Workers : task'[v] = task'[u] /\ task'[v] # NoTask => v = u
    BY <1>6, <2>1 DEF PoolInv, UniqueInv
  <2> QED BY <1>5, <2>2, <2>3 DEF UniqueInv
<1>10. \A e \in Dispatchers : Live(e)' = Live(e)
  <2> SUFFICES ASSUME NEW e \in Dispatchers, NEW t \in Nat
               PROVE  (Queued(<<e, t>>)' \/ \E v \in Workers : task'[v] = <<e, t>>) <=>
                      (Queued(<<e, t>>) \/ \E v \in Workers : task[v] = <<e, t>>)
    BY DEF Live
  <2>1. <<e, t>> # NoTask
    BY TaskFacts DEF Tasks
  <2> QED BY <1>2, <1>5, <1>6, <2>1
<1>11. CountInv'
  BY <1>1, <1>10 DEF PoolInv, CountInv, Width
<1>12. \A e \in Dispatchers : Inside(e)' = Inside(e)
  BY <1>1, <1>6 DEF Inside
<1>13. StepInv'
  <2> SUFFICES ASSUME NEW e \in Dispatchers, dpc[e] \notin Resting
               PROVE  /\ waiting[e] = Cardinality(Inside(e))
                      /\ generation[e] > 0 => dpc[e] # "push" /\ \A t \in Nat : ~Queued(<<e, t>>)'
                      /\ \A v \in Workers : task'[v] # NoTask /\ task'[v][1] = e =>
                           /\ wpc'[v] = "run" => synced'[v] = generation[e]
                           /\ wpc'[v] = "barrier" =>
                                /\ synced'[v] = gen[v]
                                /\ gen[v] = generation[e] \/ gen[v] + 1 = generation[e]
    BY <1>1, <1>12 DEF StepInv, BlockOf
  <2>1. generation[e] > 0 => \A t \in Nat : ~Queued(<<e, t>>)
    BY DEF PoolInv, StepInv
  <2>2. x[1] = e => generation[e] = 0
    <3>1. generation[e] \in Nat
      BY DEF PoolInv, PoolTypes
    <3>2. PICK t \in Nat : x = <<x[1], t>>
      BY <1>5, TaskFacts
    <3> QED BY <1>5, <2>1, <3>1, <3>2
  <2>3. \A v \in Workers \ {w} : task[v] # NoTask /\ task[v][1] = e =>
                           /\ wpc[v] = "run" => synced[v] = generation[e]
                           /\ wpc[v] = "barrier" =>
                                /\ synced[v] = gen[v]
                                /\ gen[v] = generation[e] \/ gen[v] + 1 = generation[e]
    BY DEF PoolInv, StepInv, BlockOf
  <2> QED BY <1>5, <1>6, <2>1, <2>2, <2>3 DEF PoolInv, StepInv
<1> QED BY <1>7, <1>8, <1>9, <1>11, <1>13 DEF PoolInv

LEMMA OnDoneKeeps ==
  ASSUME PoolInv, NEW w \in Workers, OnDone(w), UNCHANGED kernel
  PROVE  PoolInv'
<1>1. PICK d \in Dispatchers, t \in Nat : task[w] = <<d, t>> /\ BlockOf(w) = d /\ task[w] # NoTask
  <2>1. task[w] # NoTask
    BY DEF OnDone, PoolInv, WorkerInv, Busy
  <2> QED BY <2>1, TaskOf DEF PoolInv
<1>2. /\ wpc[w] = "run" /\ "pop" \notin Busy /\ "run" \in Busy
      /\ UNCHANGED <<initialized, queue, synced, gen, dpc, next, waiting, generation>>
      /\ remaining' = [remaining EXCEPT ![d] = @ - 1]
      /\ task' = [task EXCEPT ![w] = NoTask]
      /\ wpc' = [wpc EXCEPT ![w] = "pop"]
  BY <1>1 DEF OnDone, Wgoto, poolVars, Busy
<1>3. t \in Live(d)
  BY <1>1 DEF Live
<1>4. dpc[d] \notin Resting
  BY <1>3 DEF PoolInv, CountInv
<1>5. PICK W \in Nat \ {0} : W = Width(d)
  BY WidthPositive DEF PoolInv
<1>6. /\ next[d] \in Nat /\ next[d] <= W /\ remaining[d] \in Nat
      /\ Live(d) \subseteq 0..(next[d] - 1)
      /\ remaining[d] + next[d] >= Cardinality(Live(d)) + W
  <2>1. next[d] \in Nat /\ remaining[d] \in Nat
    BY DEF PoolInv, PoolTypes
  <2>2. /\ next[d] < W \/ next[d] = W
        /\ Live(d) \subseteq 0..(next[d] - 1)
        /\ remaining[d] + next[d] >= Cardinality(Live(d)) + W
    BY <1>4, <1>5 DEF PoolInv, CountInv
  <2> QED BY <2>1, <2>2
<1>7. /\ IsFiniteSet(Live(d)) /\ Cardinality(Live(d)) \in Nat /\ Cardinality(Live(d)) # 0
      /\ Cardinality(Live(d) \ {t}) = Cardinality(Live(d)) - 1
  <2>1. IsFiniteSet(Live(d)) /\ Cardinality(Live(d)) \in Nat
    BY <1>6, UpTo
  <2> QED BY <1>3, <2>1, FS_RemoveElement, FS_EmptySet
<1>8. /\ remaining'[d] = remaining[d] - 1 /\ remaining[d] - 1 \in Nat
      /\ \A e \in Dispatchers : e # d => remaining'[e] = remaining[e]
      /\ remaining' \in [Dispatchers -> Nat]
  <2>1. remaining[d] - 1 \in Nat
    BY <1>6, <1>7
  <2> QED BY <1>2, <2>1 DEF PoolInv, PoolTypes
<1>9. /\ \A v \in Workers : task'[v] = IF v = w THEN NoTask ELSE task[v]
      /\ \A v \in Workers : wpc'[v] = IF v = w THEN "pop" ELSE wpc[v]
  BY <1>2 DEF PoolInv, PoolTypes
<1>10. PoolTypes'
  BY <1>2, <1>8 DEF PoolInv, PoolTypes
<1>11. WorkerInv'
  <2>1. initialized
    BY <1>2 DEF PoolInv, WorkerInv
  <2> QED BY <1>2, <1>9, <2>1 DEF PoolInv, WorkerInv
<1>12. UniqueInv'
  <2>1. ~Queued(NoTask)
    BY TaskFacts DEF PoolInv, PoolTypes, Queued
  <2>2. \A v \in Workers : ~Queued(task'[v])
    BY <1>9, <2>1 DEF PoolInv, UniqueInv
  <2>3. \A v, u \in Workers : task'[v] = task'[u] /\ task'[v] # NoTask => v = u
    BY <1>9 DEF PoolInv, UniqueInv
  <2> QED BY <1>2, <2>2, <2>3 DEF PoolInv, UniqueInv, Queued
<1>13. /\ \A e \in Dispatchers : e # d => Live(e)' = Live(e)
       /\ Live(d)' = Live(d) \ {t}
  <2>1. \A e \in Dispatchers, s \in Nat : <<e, s>> # NoTask
    BY TaskFacts DEF Tasks
  <2>2. \A e \in Dispatchers, s \in Nat : <<e, s>> = <<d, t>> <=> e = d /\ s = t
    OBVIOUS
  <2>3. ~Queued(<<d, t>>) /\ \A v \in Workers : task[v] = <<d, t>> => v = w
    BY <1>1 DEF PoolInv, UniqueInv
  <2>4. \A e \in Dispatchers, s \in Nat :
          (\E v \in Workers : task'[v] = <<e, s>>) <=>
          (\E v \in Workers : task[v] = <<e, s>>) /\ ~(e = d /\ s = t)
    BY <1>1, <1>9, <2>1, <2>2, <2>3
  <2>5. \A y : Queued(y)' <=> Queued(y)
    BY <1>2 DEF Queued
  <2> QED BY <2>3, <2>4, <2>5 DEF Live
<1>14. CountInv'
  <2> SUFFICES ASSUME NEW e \in Dispatchers
               PROVE  IF dpc[e] \in Resting THEN Live(e)' = {}
                      ELSE /\ IF dpc[e] = "push" THEN next[e] < Width(e) ELSE next[e] = Width(e)
                           /\ Live(e)' \subseteq 0..(next[e] - 1)
                           /\ remaining'[e] + next[e] >= Cardinality(Live(e)') + Width(e)
    BY <1>2 DEF CountInv, Width
  <2>1. CASE e # d
    BY <1>8, <1>13, <2>1 DEF PoolInv, CountInv
  <2>2. CASE e = d
    <3>1. (remaining[d] - 1) + next[d] >= (Cardinality(Live(d)) - 1) + W
      BY <1>6, <1>7
    <3>2. IF dpc[d] = "push" THEN next[d] < Width(d) ELSE next[d] = Width(d)
      BY <1>4 DEF PoolInv, CountInv
    <3>3. Live(d)' \subseteq 0..(next[d] - 1)
      BY <1>6, <1>13
    <3>4. remaining'[d] + next[d] >= Cardinality(Live(d)') + Width(d)
      BY <1>5, <1>7, <1>8, <1>13, <3>1
    <3> QED BY <1>4, <2>2, <3>2, <3>3, <3>4
  <2> QED BY <2>1, <2>2
<1>15. \A e \in Dispatchers : Inside(e)' = Inside(e)
  <2> SUFFICES ASSUME NEW e \in Dispatchers, NEW s \in Nat
               PROVE  (\E v \in Workers : /\ task'[v] = <<e, s>> /\ wpc'[v] = "barrier"
                                          /\ gen[v] = generation[e])
                  <=> (\E v \in Workers : /\ task[v] = <<e, s>> /\ wpc[v] = "barrier"
                                          /\ gen[v] = generation[e])
    BY <1>2 DEF Inside
  <2> QED BY <1>2, <1>9
<1>16. StepInv'
  <2> SUFFICES ASSUME NEW e \in Dispatchers, dpc[e] \notin Resting
               PROVE  /\ waiting[e] = Cardinality(Inside(e))
                      /\ generation[e] > 0 => dpc[e] # "push" /\ \A s \in Nat : ~Queued(<<e, s>>)
                      /\ \A v \in Workers : task'[v] # NoTask /\ task'[v][1] = e =>
                           /\ wpc'[v] = "run" => synced[v] = generation[e]
                           /\ wpc'[v] = "barrier" =>
                                /\ synced[v] = gen[v]
                                /\ gen[v] = generation[e] \/ gen[v] + 1 = generation[e]
    BY <1>2, <1>15 DEF StepInv, BlockOf, Queued
  <2> QED BY <1>9 DEF PoolInv, StepInv, BlockOf
<1> QED BY <1>10, <1>11, <1>12, <1>14, <1>16 DEF PoolInv

\* What a worker's thread has, by its block.
LEMMA ThreadOf ==
  ASSUME PoolInv, NEW w \in Workers, wpc[w] \in Busy
  PROVE  \E d \in Dispatchers, t \in Nat :
           /\ task[w] = <<d, t>> /\ BlockOf(w) = d /\ task[w] # NoTask /\ dpc[d] \notin Resting
           /\ t \in 0..(next[d] - 1) /\ next[d] <= Width(d) /\ ~Queued(<<d, t>>)
           /\ \A v \in Workers : task[v] = <<d, t>> => v = w
<1>1. task[w] # NoTask
  BY DEF PoolInv, WorkerInv
<1>2. PICK d \in Dispatchers, t \in Nat : task[w] = <<d, t>> /\ BlockOf(w) = d
  BY <1>1, TaskOf DEF PoolInv
<1>3. t \in Live(d)
  BY <1>2 DEF Live
<1>4. dpc[d] \notin Resting
  BY <1>3 DEF PoolInv, CountInv
<1>5. next[d] \in Nat /\ Width(d) \in Nat
  BY WidthPositive DEF PoolInv, PoolTypes
<1>6. (next[d] < Width(d) \/ next[d] = Width(d)) /\ Live(d) \subseteq 0..(next[d] - 1)
  BY <1>4 DEF PoolInv, CountInv
<1>7. ~Queued(<<d, t>>) /\ \A v \in Workers : task[v] = <<d, t>> => v = w
  BY <1>1, <1>2 DEF PoolInv, UniqueInv
<1> QED BY <1>1, <1>2, <1>3, <1>4, <1>5, <1>6, <1>7

\* Steps in a block's barrier leave every task where it is.
LEMMA BarrierFrame ==
  ASSUME PoolInv, UNCHANGED <<kernel, initialized, queue, task, dpc, next, remaining>>,
         DOMAIN wpc' = Workers, synced' \in [Workers -> Nat], gen' \in [Workers -> Nat],
         waiting' \in [Dispatchers -> Nat], generation' \in [Dispatchers -> Nat],
         NEW w \in Workers, wpc[w] \in Busy, wpc'[w] \in Busy,
         \A v \in Workers : v # w => wpc'[v] = wpc[v]
  PROVE  PoolTypes' /\ WorkerInv' /\ UniqueInv' /\ CountInv'
<1>1. PoolTypes'
  BY DEF PoolInv, PoolTypes
<1>2. UniqueInv'
  BY DEF PoolInv, UniqueInv, Queued
<1>3. WorkerInv'
  BY DEF PoolInv, WorkerInv, Busy
<1>4. \A e \in Dispatchers : Live(e)' = Live(e)
  BY DEF Live, Queued
<1>5. CountInv'
  BY <1>4 DEF PoolInv, CountInv, Width
<1> QED BY <1>1, <1>2, <1>3, <1>5

LEMMA LeaveKeeps ==
  ASSUME PoolInv, NEW w \in Workers, LeaveBarrier(w), UNCHANGED kernel
  PROVE  PoolInv'
<1>1. /\ wpc[w] = "barrier" /\ generation[BlockOf(w)] # gen[w]
      /\ UNCHANGED <<initialized, queue, task, gen, dpc, next, remaining, waiting, generation>>
      /\ synced' = [synced EXCEPT ![w] = @ + 1]
      /\ wpc' = [wpc EXCEPT ![w] = "run"]
  BY DEF LeaveBarrier, BarrierOpen, Wgoto, poolVars, blockVars
<1>2. wpc[w] \in Busy /\ "run" \in Busy
  BY <1>1 DEF Busy
<1>3. PICK d \in Dispatchers, t \in Nat :
        task[w] = <<d, t>> /\ BlockOf(w) = d /\ task[w] # NoTask /\ dpc[d] \notin Resting
  BY <1>2, ThreadOf
<1>4. /\ \A v \in Workers : wpc'[v] = IF v = w THEN "run" ELSE wpc[v]
      /\ \A v \in Workers : synced'[v] = IF v = w THEN synced[w] + 1 ELSE synced[v]
      /\ DOMAIN wpc' = Workers /\ synced' \in [Workers -> Nat]
  BY <1>1 DEF PoolInv, PoolTypes
<1>5. PoolTypes' /\ WorkerInv' /\ UniqueInv' /\ CountInv'
  <2>1. /\ gen' \in [Workers -> Nat] /\ waiting' \in [Dispatchers -> Nat]
        /\ generation' \in [Dispatchers -> Nat]
    BY <1>1 DEF PoolInv, PoolTypes
  <2> QED BY <1>1, <1>2, <1>4, <2>1, BarrierFrame
<1>6. synced[w] + 1 = generation[d]
  BY <1>1, <1>3 DEF PoolInv, StepInv
<1>7. \A e \in Dispatchers : Inside(e)' = Inside(e)
  <2> SUFFICES ASSUME NEW e \in Dispatchers, NEW s \in Nat
               PROVE  (\E v \in Workers : /\ task[v] = <<e, s>> /\ wpc'[v] = "barrier"
                                          /\ gen[v] = generation[e])
                  <=> (\E v \in Workers : /\ task[v] = <<e, s>> /\ wpc[v] = "barrier"
                                          /\ gen[v] = generation[e])
    BY <1>1 DEF Inside
  <2>1. task[w] = <<e, s>> => gen[w] # generation[e]
    BY <1>1, <1>3
  <2> QED BY <1>4, <2>1
<1>8. StepInv'
  <2> SUFFICES ASSUME NEW e \in Dispatchers, dpc[e] \notin Resting
               PROVE  /\ waiting[e] = Cardinality(Inside(e))
                      /\ generation[e] > 0 => dpc[e] # "push" /\ \A s \in Nat : ~Queued(<<e, s>>)
                      /\ \A v \in Workers : task[v] # NoTask /\ BlockOf(v) = e =>
                           /\ wpc'[v] = "run" => synced'[v] = generation[e]
                           /\ wpc'[v] = "barrier" =>
                                /\ synced'[v] = gen[v]
                                /\ gen[v] = generation[e] \/ gen[v] + 1 = generation[e]
    BY <1>1, <1>7 DEF StepInv, BlockOf, Queued
  <2>1. ASSUME NEW v \in Workers, task[v] # NoTask, BlockOf(v) = e
        PROVE  /\ wpc'[v] = "run" => synced'[v] = generation[e]
               /\ wpc'[v] = "barrier" =>
                    /\ synced'[v] = gen[v]
                    /\ gen[v] = generation[e] \/ gen[v] + 1 = generation[e]
    <3>1. CASE v = w
      BY <1>3, <1>4, <1>6, <2>1, <3>1
    <3>2. CASE v # w
      BY <1>4, <2>1, <3>2 DEF PoolInv, StepInv
    <3> QED BY <3>1, <3>2
  <2> QED BY <2>1 DEF PoolInv, StepInv
<1> QED BY <1>5, <1>8 DEF PoolInv

\* A thread arrives and others are still missing.
LEMMA ArriveKeeps ==
  ASSUME PoolInv, NEW w \in Workers, wpc[w] = "run", NEW d, d = BlockOf(w),
         waiting' = [waiting EXCEPT ![d] = @ + 1],
         gen' = [gen EXCEPT ![w] = generation[d]],
         wpc' = [wpc EXCEPT ![w] = "barrier"],
         UNCHANGED <<kernel, initialized, queue, task, dpc, next, remaining, generation, synced>>
  PROVE  PoolInv'
<1>1. wpc[w] \in Busy /\ "barrier" \in Busy
  BY DEF Busy
<1>2. PICK t \in Nat :
        /\ d \in Dispatchers /\ task[w] = <<d, t>> /\ task[w] # NoTask /\ dpc[d] \notin Resting
        /\ t \in 0..(next[d] - 1) /\ next[d] <= Width(d)
        /\ \A v \in Workers : task[v] = <<d, t>> => v = w
  BY <1>1, ThreadOf
<1>3. /\ \A v \in Workers : wpc'[v] = IF v = w THEN "barrier" ELSE wpc[v]
      /\ \A v \in Workers : gen'[v] = IF v = w THEN generation[d] ELSE gen[v]
      /\ \A e \in Dispatchers : waiting'[e] = IF e = d THEN waiting[d] + 1 ELSE waiting[e]
      /\ DOMAIN wpc' = Workers /\ gen' \in [Workers -> Nat]
      /\ waiting' \in [Dispatchers -> Nat]
  BY <1>2 DEF PoolInv, PoolTypes
<1>4. PoolTypes' /\ WorkerInv' /\ UniqueInv' /\ CountInv'
  <2>1. synced' \in [Workers -> Nat] /\ generation' \in [Dispatchers -> Nat]
    BY DEF PoolInv, PoolTypes
  <2> QED BY <1>1, <1>3, <2>1, BarrierFrame
<1>5. /\ \A e \in Dispatchers : e # d => Inside(e)' = Inside(e)
      /\ Inside(d)' = Inside(d) \cup {t}
      /\ t \notin Inside(d)
  <2>1. \A e \in Dispatchers, s \in Nat : <<e, s>> = <<d, t>> <=> e = d /\ s = t
    OBVIOUS
  <2>2. ASSUME NEW e \in Dispatchers, NEW s \in Nat
        PROVE  (\E v \in Workers : /\ task[v] = <<e, s>> /\ wpc'[v] = "barrier"
                                   /\ gen'[v] = generation[e])
               <=> \/ \E v \in Workers : /\ task[v] = <<e, s>> /\ wpc[v] = "barrier"
                                         /\ gen[v] = generation[e]
                   \/ e = d /\ s = t
    BY <1>2, <1>3, <2>1
  <2>3. t \notin Inside(d)
    BY <1>2 DEF Inside
  <2>4. \A e \in Dispatchers, s \in Nat : s \in Inside(e)' <=> s \in Inside(e) \/ (e = d /\ s = t)
    <3> SUFFICES ASSUME NEW e \in Dispatchers, NEW s \in Nat
                 PROVE  s \in Inside(e)' <=> s \in Inside(e) \/ (e = d /\ s = t)
      OBVIOUS
    <3>1. s \in Inside(e)' <=> \E v \in Workers : /\ task[v] = <<e, s>> /\ wpc'[v] = "barrier"
                                                  /\ gen'[v] = generation[e]
      BY DEF Inside
    <3>2. s \in Inside(e) <=> \E v \in Workers : /\ task[v] = <<e, s>> /\ wpc[v] = "barrier"
                                                 /\ gen[v] = generation[e]
      BY DEF Inside
    <3> QED BY <2>2, <3>1, <3>2
  <2>5. \A e \in Dispatchers : Inside(e)' \subseteq Nat /\ Inside(e) \subseteq Nat
    BY DEF Inside
  <2> QED BY <1>2, <2>3, <2>4, <2>5
<1>6. Cardinality(Inside(d) \cup {t}) = Cardinality(Inside(d)) + 1
  <2>1. Inside(d) \subseteq Live(d)
    BY DEF Inside, Live
  <2>2. Live(d) \subseteq 0..(next[d] - 1) /\ next[d] \in Nat
    BY <1>2 DEF PoolInv, CountInv, PoolTypes
  <2>3. IsFiniteSet(Inside(d))
    BY <2>1, <2>2, UpTo
  <2> QED BY <1>5, <2>3, FS_AddElement
<1>7. StepInv'
  <2> SUFFICES ASSUME NEW e \in Dispatchers, dpc[e] \notin Resting
               PROVE  /\ waiting'[e] = Cardinality(Inside(e)')
                      /\ generation[e] > 0 => dpc[e] # "push" /\ \A s \in Nat : ~Queued(<<e, s>>)
                      /\ \A v \in Workers : task[v] # NoTask /\ BlockOf(v) = e =>
                           /\ wpc'[v] = "run" => synced[v] = generation[e]
                           /\ wpc'[v] = "barrier" =>
                                /\ synced[v] = gen'[v]
                                /\ gen'[v] = generation[e] \/ gen'[v] + 1 = generation[e]
    BY DEF StepInv, BlockOf, Queued
  <2>1. waiting'[e] = Cardinality(Inside(e)')
    <3>1. waiting[e] = Cardinality(Inside(e))
      BY DEF PoolInv, StepInv
    <3> QED BY <1>3, <1>5, <1>6, <3>1
  <2>2. ASSUME NEW v \in Workers, task[v] # NoTask, BlockOf(v) = e
        PROVE  /\ wpc'[v] = "run" => synced[v] = generation[e]
               /\ wpc'[v] = "barrier" =>
                    /\ synced[v] = gen'[v]
                    /\ gen'[v] = generation[e] \/ gen'[v] + 1 = generation[e]
    <3>1. CASE v = w
      <4>1. synced[w] = generation[d]
        BY <1>2 DEF PoolInv, StepInv
      <4> QED BY <1>3, <2>2, <3>1, <4>1
    <3>2. CASE v # w
      BY <1>3, <2>2, <3>2 DEF PoolInv, StepInv
    <3> QED BY <3>1, <3>2
  <2> QED BY <2>1, <2>2 DEF PoolInv, StepInv
<1> QED BY <1>4, <1>7 DEF PoolInv

\* The last thread of a block arrives: all its threads are at this barrier.
LEMMA OpenKeeps ==
  ASSUME PoolInv, NEW w \in Workers, wpc[w] = "run", NEW d, d = BlockOf(w),
         waiting[d] + 1 = Width(d),
         waiting' = [waiting EXCEPT ![d] = 0],
         generation' = [generation EXCEPT ![d] = @ + 1],
         synced' = [synced EXCEPT ![w] = @ + 1],
         UNCHANGED <<kernel, initialized, queue, task, dpc, next, remaining, wpc, gen>>
  PROVE  PoolInv'
<1>1. wpc[w] \in Busy
  BY DEF Busy
<1>2. PICK t \in Nat :
        /\ d \in Dispatchers /\ task[w] = <<d, t>> /\ task[w] # NoTask /\ dpc[d] \notin Resting
        /\ t \in 0..(next[d] - 1) /\ next[d] <= Width(d)
        /\ \A v \in Workers : task[v] = <<d, t>> => v = w
  BY <1>1, ThreadOf
<1>3. PICK W \in Nat \ {0} : W = Width(d)
  BY <1>2, WidthPositive DEF PoolInv
<1>4. PICK k \in Nat : k = generation[d]
  BY <1>2 DEF PoolInv, PoolTypes
<1>5. /\ \A v \in Workers : synced'[v] = IF v = w THEN synced[w] + 1 ELSE synced[v]
      /\ \A e \in Dispatchers : waiting'[e] = IF e = d THEN 0 ELSE waiting[e]
      /\ \A e \in Dispatchers : generation'[e] = IF e = d THEN k + 1 ELSE generation[e]
      /\ DOMAIN wpc = Workers /\ synced' \in [Workers -> Nat] /\ gen \in [Workers -> Nat]
      /\ waiting' \in [Dispatchers -> Nat] /\ generation' \in [Dispatchers -> Nat]
  BY <1>2, <1>4 DEF PoolInv, PoolTypes
<1>6. PoolTypes' /\ WorkerInv' /\ UniqueInv' /\ CountInv'
  BY <1>1, <1>5, BarrierFrame
<1>7. next[d] \in Nat /\ next[d] <= W /\ Live(d) \subseteq 0..(W - 1)
  <2>1. next[d] \in Nat /\ next[d] <= W /\ Live(d) \subseteq 0..(next[d] - 1)
    BY <1>2, <1>3 DEF PoolInv, CountInv, PoolTypes
  <2> QED BY <2>1
<1>8. Inside(d) \cup {t} = 0..(W - 1)
  <2>1. Inside(d) \subseteq Live(d) /\ t \in Live(d)
    BY <1>2 DEF Inside, Live
  <2>2. t \notin Inside(d)
    BY <1>2 DEF Inside
  <2>3. Inside(d) \subseteq 0..(W - 1) /\ Inside(d) \cup {t} \subseteq 0..(W - 1)
    BY <1>7, <2>1
  <2>4. IsFiniteSet(Inside(d))
    BY <2>3, UpTo
  <2>5. Cardinality(Inside(d) \cup {t}) = Cardinality(Inside(d)) + 1
    BY <2>2, <2>4, FS_AddElement
  <2>6. Cardinality(Inside(d)) = waiting[d]
    BY <1>2 DEF PoolInv, StepInv
  <2>7. Cardinality(Inside(d) \cup {t}) = W
    BY <1>3, <2>5, <2>6
  <2> QED BY <2>3, <2>7, UpTo
<1>9. ASSUME NEW s \in 0..(W - 1)
      PROVE  \E v \in Workers : task[v] = <<d, s>> /\ (v = w \/ (wpc[v] = "barrier" /\ gen[v] = k))
  BY <1>2, <1>4, <1>8, <1>9 DEF Inside
<1>10. ASSUME NEW v \in Workers, v # w, task[v] # NoTask, BlockOf(v) = d
       PROVE  wpc[v] = "barrier" /\ gen[v] = k
  <2>1. PICK s \in Nat : task[v] = <<d, s>>
    BY <1>10, TaskOf DEF PoolInv
  <2>2. s \in Live(d)
    BY <2>1 DEF Live
  <2>3. PICK u \in Workers : task[u] = <<d, s>> /\ (u = w \/ (wpc[u] = "barrier" /\ gen[u] = k))
    BY <1>7, <1>9, <2>2
  <2>4. u = v
    BY <1>10, <2>1, <2>3 DEF PoolInv, UniqueInv
  <2> QED BY <1>10, <2>3, <2>4
<1>11. \A s \in Nat : ~Queued(<<d, s>>)
  <2> SUFFICES ASSUME NEW s \in Nat, Queued(<<d, s>>) PROVE FALSE
    OBVIOUS
  <2>1. s \in Live(d)
    BY DEF Live
  <2>2. PICK v \in Workers : task[v] = <<d, s>>
    BY <1>7, <1>9, <2>1
  <2> QED BY <2>2 DEF PoolInv, UniqueInv
<1>12. dpc[d] # "push"
  <2> SUFFICES ASSUME dpc[d] = "push" PROVE FALSE
    OBVIOUS
  <2>1. next[d] < W /\ Live(d) \subseteq 0..(next[d] - 1)
    BY <1>2, <1>3 DEF PoolInv, CountInv
  <2>2. PICK v \in Workers : task[v] = <<d, next[d]>>
    <3>1. next[d] \in 0..(W - 1)
      BY <1>7, <2>1
    <3> QED BY <1>9, <3>1
  <2>3. next[d] \in Live(d)
    BY <1>7, <2>2 DEF Live
  <2> QED BY <1>7, <2>1, <2>3
<1>13. /\ Inside(d)' = {}
       /\ \A e \in Dispatchers : e # d => Inside(e)' = Inside(e)
  <2>1. ASSUME NEW s \in Nat, NEW v \in Workers, task[v] = <<d, s>>, wpc[v] = "barrier",
               gen[v] = k + 1
        PROVE  FALSE
    <3>1. v # w /\ task[v] # NoTask /\ BlockOf(v) = d
      BY <1>2, <2>1, TaskFacts DEF BlockOf, Tasks
    <3>2. gen[v] = k
      BY <1>10, <3>1
    <3> QED BY <2>1, <3>2
  <2>2. Inside(d)' = {}
    BY <1>2, <1>5, <2>1 DEF Inside
  <2>3. \A e \in Dispatchers : e # d => Inside(e)' = Inside(e)
    BY <1>5 DEF Inside
  <2> QED BY <2>2, <2>3
<1>14. StepInv'
  <2> SUFFICES ASSUME NEW e \in Dispatchers, dpc[e] \notin Resting
               PROVE  /\ waiting'[e] = Cardinality(Inside(e)')
                      /\ generation'[e] > 0 => dpc[e] # "push" /\ \A s \in Nat : ~Queued(<<e, s>>)
                      /\ \A v \in Workers : task[v] # NoTask /\ BlockOf(v) = e =>
                           /\ wpc[v] = "run" => synced'[v] = generation'[e]
                           /\ wpc[v] = "barrier" =>
                                /\ synced'[v] = gen[v]
                                /\ gen[v] = generation'[e] \/ gen[v] + 1 = generation'[e]
    BY DEF StepInv, BlockOf, Queued
  <2>1. waiting'[e] = Cardinality(Inside(e)')
    <3>1. waiting[e] = Cardinality(Inside(e))
      BY DEF PoolInv, StepInv
    <3> QED BY <1>5, <1>13, <3>1, FS_EmptySet
  <2>2. generation'[e] > 0 => dpc[e] # "push" /\ \A s \in Nat : ~Queued(<<e, s>>)
    <3>1. CASE e = d
      BY <1>11, <1>12, <3>1
    <3>2. CASE e # d
      BY <1>5, <3>2 DEF PoolInv, StepInv
    <3> QED BY <3>1, <3>2
  <2>3. ASSUME NEW v \in Workers, task[v] # NoTask, BlockOf(v) = e
        PROVE  /\ wpc[v] = "run" => synced'[v] = generation'[e]
               /\ wpc[v] = "barrier" =>
                    /\ synced'[v] = gen[v]
                    /\ gen[v] = generation'[e] \/ gen[v] + 1 = generation'[e]
    <3>1. CASE v = w
      <4>1. synced[w] = k
        BY <1>2, <1>4 DEF PoolInv, StepInv
      <4> QED BY <1>5, <2>3, <3>1, <4>1
    <3>2. CASE v # w /\ e = d
      <4>1. wpc[v] = "barrier" /\ gen[v] = k
        BY <1>10, <2>3, <3>2
      <4>2. synced[v] = gen[v]
        BY <2>3, <4>1 DEF PoolInv, StepInv
      <4> QED BY <1>5, <3>2, <4>1, <4>2
    <3>3. CASE v # w /\ e # d
      BY <1>5, <2>3, <3>3 DEF PoolInv, StepInv
    <3> QED BY <3>1, <3>2, <3>3
  <2> QED BY <2>1, <2>2, <2>3
<1> QED BY <1>6, <1>14 DEF PoolInv

-----------------------------------------------------------------------------
(* The theorem *)

LEMMA PoolInvInit == Init => PoolInv
<1> SUFFICES ASSUME Init PROVE PoolInv
  OBVIOUS
<1>1. PoolTypes
  BY DEF Init, PoolTypes
<1>2. WorkerInv /\ UniqueInv
  BY DEF Init, WorkerInv, UniqueInv, Queued, Busy, NoTask
<1>3. \A d \in Dispatchers, t \in Nat : <<d, t>> # NoTask
  BY TaskFacts DEF Tasks
<1>4. \A d \in Dispatchers : Live(d) = {} /\ dpc[d] \in Resting
  BY <1>3 DEF Init, Live, Queued, Resting
<1>5. CountInv /\ StepInv
  BY <1>4 DEF CountInv, StepInv
<1> QED BY <1>1, <1>2, <1>5 DEF PoolInv

LEMMA PoolInvNext == PoolInv /\ [Next]_vars => PoolInv'
<1> SUFFICES ASSUME PoolInv, [Next]_vars PROVE PoolInv'
  OBVIOUS
<1>0. DOMAIN wpc = Workers /\ DOMAIN dpc = Dispatchers
  BY DEF PoolInv, PoolTypes
<1>1. CASE UNCHANGED vars
  <2>1. \A d \in Dispatchers : SamePart(dpc[d], dpc'[d])
    BY <1>1 DEF vars, SamePart
  <2>2. ~initialized' => \A w \in Workers : wpc'[w] \in {"none", "exited"}
    BY <1>1 DEF vars, PoolInv, WorkerInv
  <2> QED BY <1>0, <1>1, <2>1, <2>2, QuietKeeps DEF vars
<1>2. ASSUME NEW d \in Dispatchers, DispatcherStep(d) PROVE PoolInv'
  <2>0. UNCHANGED kernel
    BY <1>2 DEF DispatcherStep
  <2>1. CASE Initialize(d)
    <3>1. /\ \A w \in Workers : wpc[w] \in {"none", "exited"} /\ wpc'[w] = "start"
          /\ DOMAIN wpc' = Workers /\ DOMAIN dpc' = Dispatchers /\ initialized'
          /\ \A e \in Dispatchers : SamePart(dpc[e], dpc'[e])
      BY <1>0, <2>1 DEF Initialize, Dgoto, SamePart, Resting, PoolInv, WorkerInv
    <3>2. UNCHANGED <<queue, task, synced, gen, next, remaining, waiting, generation>>
      BY <2>1 DEF Initialize
    <3> QED BY <2>0, <3>1, <3>2, PoolQuiet
  <2>2. CASE Warm(d)
    BY <2>0, <2>2, DispatcherQuiet DEF Warm, SamePart, Resting
  <2>3. CASE ExecuteSerially(d)
    <3>1. UNCHANGED <<initialized, queue, workerVars, next, remaining, waiting, generation, dpc>>
      BY <2>3 DEF ExecuteSerially, poolVars
    <3>2. \A e \in Dispatchers : SamePart(dpc[e], dpc'[e])
      BY <3>1 DEF SamePart
    <3>3. ~initialized' => \A w \in Workers : wpc'[w] \in {"none", "exited"}
      BY <3>1 DEF workerVars, PoolInv, WorkerInv
    <3> QED BY <1>0, <2>0, <3>1, <3>2, <3>3, QuietKeeps DEF workerVars
  <2>4. CASE Dispatch(d)
    BY <2>0, <2>4, DispatchKeeps
  <2>5. CASE PushTask(d)
    BY <2>0, <2>5, PushKeeps
  <2>6. CASE Fence(d)
    BY <2>0, <2>6, DispatcherQuiet DEF Fence, SamePart, Resting, poolVars
  <2>7. CASE Notify(d)
    BY <2>0, <2>7, DispatcherQuiet DEF Notify, SamePart, Resting
  <2>8. CASE LookAtRemaining(d)
    <3>1. UNCHANGED <<initialized, queue, workerVars, next, remaining, waiting, generation>>
          /\ dpc[d] \in {"spin", "wait"}
      BY <2>8 DEF LookAtRemaining, poolVars
    <3>2. CASE remaining[d] = 0
      BY <2>0, <2>8, <3>1, <3>2, ReturnKeeps DEF LookAtRemaining
    <3>3. CASE remaining[d] # 0
      <4>1. Dgoto(d, "doze") /\ SamePart(dpc[d], "doze")
        BY <2>8, <3>1, <3>3 DEF LookAtRemaining, SamePart, Resting
      <4> QED BY <2>0, <3>1, <4>1, DispatcherQuiet
    <3> QED BY <3>2, <3>3
  <2>9. CASE Doze(d)
    BY <2>0, <2>9, DispatcherQuiet DEF Doze, SamePart, Resting, poolVars
  <2> QED BY <1>2, <2>1, <2>2, <2>3, <2>4, <2>5, <2>6, <2>7, <2>8, <2>9 DEF DispatcherStep
<1>3. ASSUME NEW w \in Workers, WorkerStep(w) PROVE PoolInv'
  <2>0. UNCHANGED kernel
    BY <1>3 DEF WorkerStep
  <2>1. CASE CheckIn(w)
    BY <2>0, <2>1, WorkerQuiet DEF CheckIn, Busy
  <2>2. CASE PopTask(w)
    BY <2>0, <2>2, PopKeeps
  <2>3. CASE FindEmpty(w)
    BY <2>0, <2>3, WorkerQuiet DEF FindEmpty, Busy, poolVars
  <2>4. CASE LookAtStop(w)
    BY <2>0, <2>4, WorkerQuiet DEF LookAtStop, Busy, poolVars
  <2>5. CASE SpinSawWork(w)
    BY <2>0, <2>5, WorkerQuiet DEF SpinSawWork, Busy, poolVars
  <2>6. CASE LockAndLook(w)
    <3>1. PICK l \in {"pop", "block"} : Wgoto(w, l)
      BY <2>6 DEF LockAndLook
    <3> QED BY <2>0, <2>6, <3>1, WorkerQuiet DEF LockAndLook, Busy
  <2>7. CASE Block(w)
    BY <2>0, <2>7, WorkerQuiet DEF Block, Busy
  <2>8. CASE Unblock(w)
    BY <2>0, <2>8, WorkerQuiet DEF Unblock, Busy, poolVars
  <2>9. CASE Sync(w)
    <3>1. PICK d : d = BlockOf(w)
      OBVIOUS
    <3>2. wpc[w] = "run" /\ UNCHANGED <<initialized, queue, task, dpc, next, remaining>>
      BY <2>9 DEF Sync, poolVars
    <3>3. CASE waiting[d] + 1 = Width(d)
      <4>1. /\ waiting' = [waiting EXCEPT ![d] = 0]
            /\ generation' = [generation EXCEPT ![d] = @ + 1]
            /\ synced' = [synced EXCEPT ![w] = @ + 1]
            /\ UNCHANGED <<wpc, gen>>
        BY <2>9, <3>1, <3>3 DEF Sync, AfterOpen
      <4> QED BY <2>0, <3>1, <3>2, <3>3, <4>1, OpenKeeps
    <3>4. CASE waiting[d] + 1 # Width(d)
      <4>1. /\ waiting' = [waiting EXCEPT ![d] = @ + 1]
            /\ gen' = [gen EXCEPT ![w] = generation[d]]
            /\ wpc' = [wpc EXCEPT ![w] = "barrier"]
            /\ UNCHANGED <<generation, synced>>
        BY <2>9, <3>1, <3>4 DEF Sync, Wgoto
      <4> QED BY <2>0, <3>1, <3>2, <4>1, ArriveKeeps
    <3> QED BY <3>3, <3>4
  <2>10. CASE LeaveBarrier(w)
    BY <2>0, <2>10, LeaveKeeps
  <2>11. CASE OnDone(w)
    BY <2>0, <2>11, OnDoneKeeps
  <2> QED BY <1>3, <2>1, <2>2, <2>3, <2>4, <2>5, <2>6, <2>7, <2>8, <2>9, <2>10, <2>11
          DEF WorkerStep
<1>4. CASE ShutdownStep
  <2>1. UNCHANGED <<kernel, queue, workerVars, blockVars>>
    BY <1>4 DEF ShutdownStep, BeginShutdown, NotifyShutdown, Join
  <2>2. ~initialized' => \A w \in Workers : wpc'[w] \in {"none", "exited"}
    BY <1>4, <2>1 DEF ShutdownStep, BeginShutdown, NotifyShutdown, Join, workerVars,
                      PoolInv, WorkerInv
  <2>3. \A d \in Dispatchers : SamePart(dpc[d], dpc'[d])
    BY <2>1 DEF blockVars, SamePart
  <2> QED BY <1>0, <2>1, <2>2, <2>3, QuietKeeps DEF workerVars, blockVars
<1> QED BY <1>1, <1>2, <1>3, <1>4 DEF Next

\* When dispatch has returned no task that points at its caller's stack is queued or
\* running, and no thread of a block is past a __syncthreads that another has not
\* reached, for every number of dispatchers and workers and every capacity of the
\* queue: also when a push fails (dispatch then does not return) and when the pool is
\* shut down and initialized anew.
THEOREM DispatchIsSound == Spec => []DispatchSound
<1>1. PoolInv => ReturnSound
  <2> SUFFICES ASSUME PoolInv, NEW d \in Dispatchers, dpc[d] = "idle"
               PROVE  Outstanding(d) = {}
    BY DEF ReturnSound
  <2>1. Live(d) = {}
    BY DEF PoolInv, CountInv, Resting
  <2>2. ASSUME NEW i \in DOMAIN queue, queue[i][1] = d PROVE FALSE
    <3>0. queue[i] \in Tasks
      BY DEF PoolInv, PoolTypes
    <3>1. PICK t \in Nat : queue[i] = <<d, t>>
      BY <2>2, <3>0, TaskFacts
    <3> QED BY <2>1, <3>1 DEF Live, Queued
  <2>3. ASSUME NEW w \in Workers, task[w] # NoTask, BlockOf(w) = d PROVE FALSE
    <3>1. PICK t \in Nat : task[w] = <<d, t>>
      <4>1. task[w] \in Tasks
        BY <2>3 DEF PoolInv, PoolTypes
      <4>2. PICK e \in Dispatchers, t \in Nat : task[w] = <<e, t>> /\ task[w][1] = e
        BY <4>1, TaskFacts
      <4> QED BY <2>3, <4>2 DEF BlockOf
    <3> QED BY <2>1, <3>1 DEF Live
  <2> QED BY <2>2, <2>3 DEF Outstanding
<1>2. PoolInv => BlockInStep
  <2> SUFFICES ASSUME PoolInv, NEW v \in Workers, NEW w \in Workers,
                      task[v] # NoTask, task[w] # NoTask, BlockOf(v) = BlockOf(w)
               PROVE  synced[v] <= synced[w] + (IF wpc[w] = "barrier" THEN 1 ELSE 0)
    BY DEF BlockInStep
  <2>1. wpc[v] \in Busy /\ wpc[w] \in Busy
    BY DEF PoolInv, WorkerInv
  <2>2. PICK d \in Dispatchers : BlockOf(w) = d /\ dpc[d] \notin Resting
    BY <2>1, ThreadOf
  <2>3. PICK k \in Nat : k = generation[d]
    BY DEF PoolInv, PoolTypes
  <2>4. ASSUME NEW u \in {v, w}
        PROVE  /\ wpc[u] = "run" => synced[u] = k
               /\ wpc[u] = "barrier" => synced[u] = k \/ synced[u] + 1 = k
    BY <2>2, <2>3 DEF PoolInv, StepInv
  <2>5. synced[v] \in Nat /\ synced[w] \in Nat
    BY DEF PoolInv, PoolTypes
  <2> QED BY <2>1, <2>4, <2>5 DEF Busy
<1> QED BY <1>1, <1>2, PoolInvInit, PoolInvNext, PTL DEF Spec, DispatchSound
=============================================================================
