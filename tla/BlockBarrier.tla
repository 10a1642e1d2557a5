---------------------------- MODULE BlockBarrier ----------------------------
(***************************************************************************)
(* The reusable barrier behind __syncthreads() and its reducing variants   *)
(* (BlockBarrier in include/vgre/runtime/gpu_thread_context.h).  A kernel  *)
(* is the sequence of barrier calls every thread of the block makes.       *)
(*                                                                         *)
(* mutex_ is held from the entry of a call to its end or to the wait that  *)
(* releases it, so the part before the wait is one step and the part after *)
(* it another.  generation_ is an int: it is counted modulo GenMod.        *)
(***************************************************************************)
EXTENDS Naturals, FiniteSets

CONSTANTS
  BlockThreads,  \* the threads of the block
  GenMod,        \* number of values of generation_ (2^32)
  BarrierCalls   \* bound: barrier calls per thread

ASSUME BarrierAssumption ==
  /\ IsFiniteSet(BlockThreads)
  /\ GenMod \in Nat \ {0, 1}
  /\ BarrierCalls \in Nat

Ops    == {"sync", "count", "and", "or"}
Rounds == 1..BarrierCalls

\* count_
Count == Cardinality(BlockThreads)

VARIABLES
  kernel,       \* the call of each round
  waiting,      \* waiting_
  blockGen,     \* generation_
  reduceAccum,  \* reduceAccum_
  reduceResult, \* reduceResult_
  threadGen,    \* each thread's local gen
  inWait,       \* threads inside cv_.wait
  asleep,       \* those of them not notified
  call,         \* history: calls each thread has returned from
  pred,         \* history: the arguments of the last two rounds, by parity
  gotValue      \* what each thread's last call returned

barrierVars == <<kernel, waiting, blockGen, reduceAccum, reduceResult, threadGen, inWait,
                 asleep, call, pred, gotValue>>

BarrierInit ==
  /\ kernel \in [Rounds -> Ops]
  /\ waiting = 0
  /\ blockGen = 0
  /\ reduceAccum = 0
  /\ reduceResult = 0
  /\ threadGen = [t \in BlockThreads |-> 0]
  /\ inWait = {}
  /\ asleep = {}
  /\ call = [t \in BlockThreads |-> 0]
  /\ pred = [i \in {0, 1} |-> [t \in BlockThreads |-> 0]]
  /\ gotValue = [t \in BlockThreads |-> 0]

-----------------------------------------------------------------------------
\* reduceAccum_ after predicate p joins it.
Identity(op) == IF op = "and" THEN 1 ELSE 0

Combine(op, acc, p) ==
  CASE op = "and" -> IF acc # 0 /\ p # 0 THEN 1 ELSE 0
    [] op = "or"  -> IF acc # 0 \/ p # 0 THEN 1 ELSE 0
    [] OTHER      -> acc + p

AccumulateKeepsOld(op, p) == Combine(op, reduceAccum, p)

Accumulate(op, p) ==
  Combine(op, IF waiting = 0 THEN Identity(op) ELSE reduceAccum, p)

Return(t, v) ==
  /\ call' = [call EXCEPT ![t] = @ + 1]
  /\ gotValue' = [gotValue EXCEPT ![t] = v]

\* The last thread to arrive opens the barrier, wakes all and does not wait.
AfterOpen == 0

StillAsleep == asleep
NoneAsleep == {}

Open(t) ==
  /\ waiting' = AfterOpen
  /\ blockGen' = (blockGen + 1) % GenMod
  /\ asleep' = NoneAsleep
  /\ Return(t, reduceResult')
  /\ UNCHANGED <<threadGen, inWait>>

Wait(t) ==
  /\ waiting' = waiting + 1
  /\ threadGen' = [threadGen EXCEPT ![t] = blockGen]
  /\ inWait' = inWait \cup {t}
  /\ asleep' = asleep \cup {t}
  /\ UNCHANGED <<blockGen, call, gotValue>>

ArriveOrOpen(t) == IF waiting + 1 = Count THEN Open(t) ELSE Wait(t)

\* A thread between two calls makes the next call of the kernel.
AtCall(t, op) ==
  /\ t \notin inWait
  /\ call[t] < BarrierCalls
  /\ kernel[call[t] + 1] = op

ArriveAndWait(t) ==
  /\ AtCall(t, "sync")
  /\ UNCHANGED <<kernel, reduceAccum, reduceResult, pred>>
  /\ ArriveOrOpen(t)

\* predicate is normalised to 0 or 1; the result is stored by the last to
\* arrive.
ArriveAndReduce(t, op, p) ==
  /\ AtCall(t, op)
  /\ pred' = [pred EXCEPT ![(call[t] + 1) % 2] = [@ EXCEPT ![t] = p]]
  /\ reduceAccum' = Accumulate(op, p)
  /\ reduceResult' = IF waiting + 1 = Count THEN reduceAccum' ELSE reduceResult
  /\ ArriveOrOpen(t)
  /\ UNCHANGED kernel

\* cv_.wait returns only when the generation has changed; a thread that was
\* woken for nothing goes back to sleep.
Opened(t) == blockGen # threadGen[t]

Leave(t) ==
  /\ t \in inWait \ asleep
  /\ Opened(t)
  /\ inWait' = inWait \ {t}
  /\ Return(t, reduceResult)
  /\ UNCHANGED <<kernel, waiting, blockGen, reduceAccum, reduceResult, threadGen,
                 asleep, pred>>

SleepAgain(t) ==
  /\ t \in inWait \ asleep
  /\ ~Opened(t)
  /\ asleep' = asleep \cup {t}
  /\ UNCHANGED <<kernel, waiting, blockGen, reduceAccum, reduceResult, threadGen,
                 inWait, call, pred, gotValue>>

SpuriousWakeup(t) ==
  /\ t \in asleep
  /\ asleep' = asleep \ {t}
  /\ UNCHANGED <<kernel, waiting, blockGen, reduceAccum, reduceResult, threadGen,
                 inWait, call, pred, gotValue>>

Arrive(t) ==
  \/ ArriveAndWait(t)
  \/ \E op \in Ops \ {"sync"}, p \in {0, 1} : ArriveAndReduce(t, op, p)

BarrierNext ==
  \E t \in BlockThreads : Arrive(t) \/ Leave(t) \/ SleepAgain(t) \/ SpuriousWakeup(t)

BarrierSpec == BarrierInit /\ [][BarrierNext]_barrierVars

\* A thread that can run keeps running; wakeups need not be spurious.
BarrierFairSpec ==
  /\ BarrierSpec
  /\ \A t \in BlockThreads : WF_barrierVars(Arrive(t)) /\ WF_barrierVars(Leave(t))

-----------------------------------------------------------------------------
(* Properties *)

\* The calls a thread has entered.
Entered(t) == call[t] + (IF t \in inWait THEN 1 ELSE 0)

\* No thread runs ahead: one that has returned from its n-th call leaves no
\* thread of the block that has not entered its own n-th call.
NoRunAhead == \A t, u \in BlockThreads : call[t] <= Entered(u)

BlockReduced(op, ps) ==
  CASE op = "and" -> IF \A t \in BlockThreads : ps[t] = 1 THEN 1 ELSE 0
    [] op = "or"  -> IF \E t \in BlockThreads : ps[t] = 1 THEN 1 ELSE 0
    [] OTHER      -> Cardinality({t \in BlockThreads : ps[t] = 1})

\* "Every thread receives the same reduced result", the reduction of what all
\* threads passed in that round: a slow thread reads it before the next round
\* can replace it, and nothing of the round before remains in it.
ReduceRight ==
  \A t \in BlockThreads :
    t \notin inWait /\ call[t] > 0 /\ kernel[call[t]] # "sync" =>
      gotValue[t] = BlockReduced(kernel[call[t]], pred[call[t] % 2])

\* What the barrier promises a block.
BarrierSound == NoRunAhead /\ ReduceRight

\* Once a thread has entered a barrier, every thread gets through every barrier
\* of the kernel.
BarrierPasses ==
  <>[](inWait = {} /\ \A t, u \in BlockThreads : call[t] > 0 => call[u] = BarrierCalls)
=============================================================================
