--------------------------- MODULE XlaThreadPool ---------------------------
(***************************************************************************)
(* The work-stealing fork-join pool of the HLO interpreter (ThreadPool in  *)
(* src/xla/thread_pool.cpp).  A caller splits a job into chunks, spreads   *)
(* them over the workers' deques and runs or steals tasks until its own    *)
(* job is done.  A task may call parallelFor itself.                       *)
(*                                                                         *)
(* Every thread has a stack of frames: [job, chunk] for a task being run   *)
(* and [job, next] for a parallelFor; the top one moves.  A deque          *)
(* operation is one step (its mutex is held for it alone); pending_, the   *)
(* completion counter and the scan for a victim are separate steps.        *)
(***************************************************************************)
EXTENDS Integers, Sequences, FiniteSets, SequencesExt

CONSTANTS
  NWorkers,   \* workers of the pool
  Callers,    \* threads outside the pool
  Jobs,       \* parallelFor calls
  CallerOf,   \* the caller thread of each top-level job
  ParentOf,   \* the task <<job, chunk>> whose body makes a nested call
  NChunks     \* chunks of each job

Workers     == 0..(NWorkers - 1)
PoolThreads == Workers \union Callers

ASSUME PoolAssumption ==
  /\ NWorkers \in Nat \ {0}
  /\ Callers \cap Workers = {}
  /\ NChunks \in [Jobs -> Nat \ {0, 1}]
  /\ DOMAIN CallerOf \union DOMAIN ParentOf = Jobs
  /\ DOMAIN CallerOf \cap DOMAIN ParentOf = {}
  /\ \A j \in DOMAIN CallerOf : CallerOf[j] \in Callers

VARIABLES
  deque,     \* workers_[i]->dq: tasks <<job, chunk>>
  pending,   \* pending_
  left,      \* *done of each job
  stack,     \* the frames of each thread, the last one on top
  scan,      \* how far a thread is in tryRunOne: -1 when it is not in it
  took,      \* the task it took and has not counted, <<>> if none
  ran,       \* history: times each task ran
  called,    \* history: jobs whose parallelFor was called
  returned,  \* history: jobs whose parallelFor returned
  stop,      \* stop_
  exited     \* workers whose loop has ended

poolVars == <<deque, pending, left, stack, scan, took, ran, called, returned, stop, exited>>

Tasks == UNION {{j} \X (0..(NChunks[j] - 1)) : j \in Jobs}

PoolInit ==
  /\ deque = [w \in Workers |-> <<>>]
  /\ pending = 0
  /\ left = [j \in Jobs |-> NChunks[j]]
  /\ stack = [t \in PoolThreads |-> <<>>]
  /\ scan = [t \in PoolThreads |-> -1]
  /\ took = [t \in PoolThreads |-> <<>>]
  /\ ran = [k \in Tasks |-> 0]
  /\ called = {} /\ returned = {}
  /\ stop = FALSE /\ exited = {}

\* self: a worker's own deque, worker 0's for a thread outside the pool.
Self(t) == IF t \in Workers THEN t ELSE 0

ForFrame(j)  == [op |-> "push", job |-> j, chunk |-> 0]
TaskFrame(k) == [op |-> "body", job |-> k[1], chunk |-> k[2]]
Top(t)  == Last(stack[t])
IsTop(t, op) == stack[t] # <<>> /\ Top(t).op = op
SetTop(t, f) == stack' = [stack EXCEPT ![t] = Append(Front(@), f)]

-----------------------------------------------------------------------------
\* parallelFor on a thread outside the pool, or from the body of a task.
Call(j) ==
  /\ j \notin called /\ ~stop
  /\ called' = called \union {j}
  /\ \/ /\ j \in DOMAIN CallerOf
        /\ stack[CallerOf[j]] = <<>>
        /\ stack' = [stack EXCEPT ![CallerOf[j]] = <<ForFrame(j)>>]
     \/ /\ j \in DOMAIN ParentOf
        /\ \E t \in PoolThreads :
             /\ IsTop(t, "body") /\ <<Top(t).job, Top(t).chunk>> = ParentOf[j]
             /\ stack' = [stack EXCEPT ![t] = Append(Append(Front(@), [Top(t) EXCEPT !.op = "count"]),
                                                     ForFrame(j))]
  /\ UNCHANGED <<deque, pending, left, scan, took, ran, returned, stop, exited>>

\* push: the task is in the deque before pending_ counts it.
PushTask(t) ==
  LET f == Top(t)
      w == (Self(t) + f.chunk) % NWorkers
  IN /\ IsTop(t, "push")
     /\ deque' = [deque EXCEPT ![w] = Append(@, <<f.job, f.chunk>>)]
     /\ SetTop(t, [f EXCEPT !.op = "counted"])
     /\ UNCHANGED <<pending, left, scan, took, ran, called, returned, stop, exited>>

CountPush(t) ==
  LET f == Top(t)
  IN /\ IsTop(t, "counted")
     /\ pending' = pending + 1
     /\ SetTop(t, IF f.chunk + 1 < NChunks[f.job]
                  THEN [f EXCEPT !.op = "push", !.chunk = @ + 1]
                  ELSE [f EXCEPT !.op = "join"])
     /\ UNCHANGED <<deque, left, scan, took, ran, called, returned, stop, exited>>

\* Mutant: the caller waits for the workers without helping.
JoinWaiting(t) ==
  /\ IsTop(t, "join") /\ scan[t] = -1 /\ left[Top(t).job] = 0
  /\ stack' = [stack EXCEPT ![t] = Front(@)]
  /\ returned' = returned \union {Top(t).job}
  /\ UNCHANGED <<deque, pending, left, scan, took, ran, called, stop, exited>>

\* The caller sees its job done and returns, or looks for a task to run.
Join(t) ==
  LET j == Top(t).job
  IN /\ IsTop(t, "join") /\ scan[t] = -1
     /\ IF left[j] > 0
        THEN scan' = [scan EXCEPT ![t] = 0] /\ UNCHANGED <<stack, returned>>
        ELSE /\ stack' = [stack EXCEPT ![t] = Front(@)]
             /\ returned' = returned \union {j}
             /\ UNCHANGED scan
     /\ UNCHANGED <<deque, pending, left, took, ran, called, stop, exited>>

\* A worker between tasks: it looks for one, after a nap of up to 2 ms when it
\* found none, or leaves when the pool is stopped.
WorkerLoop(t) ==
  /\ t \in Workers \ exited /\ stack[t] = <<>> /\ scan[t] = -1
  /\ IF stop THEN exited' = exited \union {t} /\ UNCHANGED scan
             ELSE scan' = [scan EXCEPT ![t] = 0] /\ UNCHANGED exited
  /\ UNCHANGED <<deque, pending, left, stack, took, ran, called, returned, stop>>

\* tryRunOne: the newest task of the own deque, else the oldest of each deque in
\* turn, its own once more at the end.
TryOne(t) ==
  LET k == scan[t]
      v == IF k = 0 THEN Self(t) ELSE (Self(t) + k) % NWorkers
  IN /\ k >= 0 /\ took[t] = <<>>
     /\ IF deque[v] = <<>>
        THEN scan' = [scan EXCEPT ![t] = IF k = NWorkers THEN -1 ELSE k + 1]
             /\ UNCHANGED <<deque, took>>
        ELSE /\ took' = [took EXCEPT ![t] = IF k = 0 THEN Last(deque[v]) ELSE Head(deque[v])]
             /\ deque' = [deque EXCEPT ![v] = IF k = 0 THEN Front(@) ELSE Tail(@)]
             /\ UNCHANGED scan
     /\ UNCHANGED <<pending, left, stack, ran, called, returned, stop, exited>>

\* Mutant: the job is counted down when its task starts.
StartTaskDone(t) ==
  /\ took[t] # <<>>
  /\ pending' = pending - 1
  /\ left' = [left EXCEPT ![took[t][1]] = @ - 1]
  /\ stack' = [stack EXCEPT ![t] = Append(@, TaskFrame(took[t]))]
  /\ took' = [took EXCEPT ![t] = <<>>] /\ scan' = [scan EXCEPT ![t] = -1]
  /\ UNCHANGED <<deque, ran, called, returned, stop, exited>>

\* The task is uncounted and starts.
StartTask(t) ==
  /\ took[t] # <<>>
  /\ pending' = pending - 1
  /\ stack' = [stack EXCEPT ![t] = Append(@, TaskFrame(took[t]))]
  /\ took' = [took EXCEPT ![t] = <<>>] /\ scan' = [scan EXCEPT ![t] = -1]
  /\ UNCHANGED <<deque, left, ran, called, returned, stop, exited>>

Nested(k) == \E j \in DOMAIN ParentOf : ParentOf[j] = k

\* The body runs; a body with a nested call has its own frame on top meanwhile.
RunBody(t) ==
  LET f == Top(t)
  IN /\ \/ IsTop(t, "body") /\ ~Nested(<<f.job, f.chunk>>)
        \/ IsTop(t, "count") /\ ran[<<f.job, f.chunk>>] = 0
     /\ ran' = [ran EXCEPT ![<<f.job, f.chunk>>] = @ + 1]
     /\ SetTop(t, [f EXCEPT !.op = "finish"])
     /\ UNCHANGED <<deque, pending, left, scan, took, called, returned, stop, exited>>

\* The task counts its job down and is gone.
FinishTask(t) ==
  /\ IsTop(t, "finish")
  /\ left' = [left EXCEPT ![Top(t).job] = @ - 1]
  /\ stack' = [stack EXCEPT ![t] = Front(@)]
  /\ UNCHANGED <<deque, pending, scan, took, ran, called, returned, stop, exited>>

\* The destructor, once no call is in progress.
Destroy ==
  /\ ~stop /\ \A t \in Callers : stack[t] = <<>>
  /\ stop' = TRUE
  /\ UNCHANGED <<deque, pending, left, stack, scan, took, ran, called, returned, exited>>

\* What a thread does once it has something to do, and a worker's search for work.
Busy(t) == \/ PushTask(t) \/ CountPush(t) \/ Join(t) \/ StartTask(t) \/ RunBody(t)
           \/ FinishTask(t) \/ (stack[t] # <<>> /\ TryOne(t))
Idle(t) == WorkerLoop(t) \/ (stack[t] = <<>> /\ TryOne(t))

PoolNext == \/ \E j \in Jobs : Call(j)
            \/ \E t \in PoolThreads : Busy(t) \/ Idle(t)
            \/ Destroy

\* A thread inside a call or a task is scheduled; an idle worker need not look
\* for work until the pool is stopped.  A task that makes a nested call makes it.
PoolFairness ==
  /\ \A t \in PoolThreads : WF_poolVars(Busy(t)) /\ WF_poolVars(stop /\ Idle(t))
  /\ \A j \in DOMAIN ParentOf : WF_poolVars(Call(j))

PoolSpec == PoolInit /\ [][PoolNext]_poolVars /\ PoolFairness

-----------------------------------------------------------------------------
Queued   == UNION {{w} \X DOMAIN deque[w] : w \in Workers}
Counting == {t \in PoolThreads : IsTop(t, "counted")}
Taking   == {t \in PoolThreads : took[t] # <<>>}

\* parallelFor returns only after every chunk ran exactly once, and then no task
\* of the job is queued, taken or on a stack: none of them can still use the
\* caller's body, which dies with the call.  pending_ may be behind by the pushes
\* not yet counted, even negative, but is exact once they are counted.
ForReturnsSound ==
  /\ \A k \in Tasks :
       /\ ran[k] <= 1
       /\ k[1] \in returned =>
            /\ ran[k] = 1
            /\ \A w \in Workers : k \notin ToSet(deque[w])
            /\ \A t \in PoolThreads :
                 took[t] # k /\ \A i \in DOMAIN stack[t] : stack[t][i].job # k[1]
  /\ pending = Cardinality(Queued) - Cardinality(Counting) + Cardinality(Taking)

\* Every parallelFor returns although idle workers may never help: the caller
\* works off its own job.  A stopped pool loses all its workers.
ForReturns ==
  <>[](called \subseteq returned /\ (stop => exited = Workers))
=============================================================================
