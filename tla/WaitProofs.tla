----------------------------- MODULE WaitProofs -----------------------------
(***************************************************************************)
(* Where the threads of a kernel or of the host wait: the block's barrier  *)
(* is sound for every number of threads, every kernel and every width of   *)
(* generation_, which may wrap, and a successful synchronize() of an event *)
(* means what it says, for any number of events, streams and hosts.  A     *)
(* parallelFor of the fork-join pool returns only after its chunks all ran *)
(* once and none can run again, for any pool and any nesting of calls.     *)
(***************************************************************************)
EXTENDS BlockBarrier, Event, XlaThreadPool, FiniteSetTheorems, TLAPS

-----------------------------------------------------------------------------
(* The barrier *)

Bits == {0, 1}

BarrierTypes ==
  /\ kernel \in [Rounds -> Ops]
  /\ waiting \in Nat
  /\ blockGen \in 0..(GenMod - 1)
  /\ reduceAccum \in Nat /\ reduceResult \in Nat
  /\ threadGen \in [BlockThreads -> 0..(GenMod - 1)]
  /\ inWait \subseteq BlockThreads
  /\ call \in [BlockThreads -> Nat]
  /\ pred \in [Bits -> [BlockThreads -> Bits]]
  /\ gotValue \in [BlockThreads -> Nat]

\* A thread that waits although the barrier has opened, and those that wait for
\* it to open.
Late(t) == t \in inWait /\ threadGen[t] # blockGen
Waiters == {t \in inWait : threadGen[t] = blockGen}

\* The reduction of what the threads of S passed.
PartReduced(op, ps, S) ==
  CASE op = "and" -> IF \A t \in S : ps[t] = 1 THEN 1 ELSE 0
    [] op = "or"  -> IF \E t \in S : ps[t] = 1 THEN 1 ELSE 0
    [] OTHER      -> Cardinality({t \in S : ps[t] = 1})

\* The barrier has opened k times: every thread has returned k times but the late
\* ones, which are one behind, and waiting_ counts those at the next call.
RoundInv(k) ==
  /\ waiting = Cardinality(Waiters)
  /\ \A t \in BlockThreads : call[t] = IF Late(t) THEN k - 1 ELSE k
  /\ \A t \in BlockThreads : Late(t) => k > 0

\* The k-th result is in place for the late threads, the others have it, and the
\* next one has what the waiters passed.
ReduceInv(k) ==
  /\ k \in Rounds /\ kernel[k] # "sync" =>
       /\ reduceResult = BlockReduced(kernel[k], pred[k % 2])
       /\ \A t \in BlockThreads \ inWait : gotValue[t] = reduceResult
  /\ k + 1 \in Rounds /\ kernel[k + 1] # "sync" /\ waiting > 0 =>
       reduceAccum = PartReduced(kernel[k + 1], pred[(k + 1) % 2], Waiters)

\* NoRunAhead and ReduceRight are about single threads; what makes them inductive
\* is the number of openings, which no variable holds.
BarrierInv ==
  /\ BarrierTypes
  /\ \E k \in 0..BarrierCalls : RoundInv(k) /\ ReduceInv(k)

-----------------------------------------------------------------------------
(* Arithmetic and reductions *)

LEMMA NextGeneration ==
  ASSUME NEW g \in 0..(GenMod - 1)
  PROVE  (g + 1) % GenMod \in 0..(GenMod - 1) /\ (g + 1) % GenMod # g
<1>1. CASE g + 1 < GenMod
  BY <1>1, BarrierAssumption
<1>2. CASE g + 1 = GenMod
  BY <1>2, BarrierAssumption
<1> QED BY <1>1, <1>2, BarrierAssumption

\* Consecutive rounds have different parities.
LEMMA Parity ==
  ASSUME NEW k \in Nat
  PROVE  k % 2 \in Bits /\ (k + 1) % 2 \in Bits /\ (k + 1) % 2 # k % 2
BY DEF Bits

LEMMA PartOfNone ==
  ASSUME NEW op \in Ops \ {"sync"}, NEW ps
  PROVE  PartReduced(op, ps, {}) = Identity(op)
<1>1. {t \in {} : ps[t] = 1} = {}
  OBVIOUS
<1> QED BY <1>1, FS_EmptySet DEF PartReduced, Identity, Ops

\* One more thread joins the reduction.
LEMMA PartOfOneMore ==
  ASSUME NEW op \in Ops \ {"sync"}, NEW S, NEW t \in BlockThreads, NEW p \in Bits,
         NEW ps, NEW qs, S \subseteq BlockThreads, IsFiniteSet(S), t \notin S,
         qs[t] = p, \A u \in S : ps[u] \in Bits /\ qs[u] = ps[u]
  PROVE  PartReduced(op, qs, S \cup {t}) = Combine(op, PartReduced(op, ps, S), p)
<1> DEFINE A  == {u \in S : ps[u] = 1}
           B  == {u \in S \cup {t} : qs[u] = 1}
<1>1. CASE op = "and"
  BY <1>1 DEF PartReduced, Combine, Bits
<1>2. CASE op = "or"
  BY <1>2 DEF PartReduced, Combine, Bits
<1>3. CASE op = "count"
  <2>1. IsFiniteSet(A) /\ Cardinality(A) \in Nat /\ t \notin A
    BY FS_Subset, FS_CardinalityType
  <2>2. Cardinality(B) = Cardinality(A) + p
    <3>1. CASE p = 1
      <4>1. B = A \cup {t}
        BY <3>1
      <4> QED BY <2>1, <3>1, <4>1, FS_AddElement
    <3>2. CASE p = 0
      <4>1. B = A
        BY <3>2
      <4> HIDE DEF A, B
      <4>2. Cardinality(B) = Cardinality(A)
        BY <4>1
      <4> QED BY <2>1, <3>2, <4>2
    <3> QED BY <3>1, <3>2 DEF Bits
  <2>3. /\ PartReduced(op, qs, S \cup {t}) = Cardinality(B)
        /\ PartReduced(op, ps, S) = Cardinality(A)
        /\ Combine(op, Cardinality(A), p) = Cardinality(A) + p
    BY <1>3 DEF PartReduced, Combine
  <2> QED BY <2>2, <2>3
<1> QED BY <1>1, <1>2, <1>3 DEF Ops

LEMMA PartOfAll ==
  ASSUME NEW op, NEW ps
  PROVE  PartReduced(op, ps, BlockThreads) = BlockReduced(op, ps)
BY DEF PartReduced, BlockReduced

LEMMA PartType ==
  ASSUME NEW op, NEW ps, NEW S, IsFiniteSet(S)
  PROVE  PartReduced(op, ps, S) \in Nat
<1>1. Cardinality({t \in S : ps[t] = 1}) \in Nat
  BY FS_Subset, FS_CardinalityType
<1> QED BY <1>1 DEF PartReduced

-----------------------------------------------------------------------------
(* The steps *)

LEMMA FiniteWaiters ==
  ASSUME inWait \subseteq BlockThreads
  PROVE  IsFiniteSet(Waiters) /\ Waiters \subseteq BlockThreads
         /\ Cardinality(Waiters) \in Nat
<1>1. Waiters \subseteq BlockThreads
  BY DEF Waiters
<1> QED BY <1>1, FS_Subset, FS_CardinalityType, BarrierAssumption

LEMMA BarrierInvInit ==
  ASSUME BarrierInit
  PROVE  BarrierInv
<1>1. BarrierTypes
  BY BarrierAssumption DEF BarrierInit, BarrierTypes, Bits
<1>2. Waiters = {}
  BY DEF BarrierInit, Waiters
<1>3. RoundInv(0)
  BY <1>2, FS_EmptySet DEF BarrierInit, RoundInv, Late
<1>4. ReduceInv(0)
  BY DEF BarrierInit, ReduceInv, Rounds
<1>5. 0 \in 0..BarrierCalls
  BY BarrierAssumption
<1> QED BY <1>1, <1>3, <1>4, <1>5 DEF BarrierInv

\* A call of round k + 1, reducing or not: what it does to the reduction.
Joins(t, k, op, p) ==
  /\ op = kernel[k + 1]
  /\ op = "sync" => UNCHANGED <<reduceAccum, reduceResult, pred>>
  /\ op # "sync" =>
       /\ pred' = [pred EXCEPT ![(k + 1) % 2] = [@ EXCEPT ![t] = p]]
       /\ reduceAccum' = Accumulate(op, p)
       /\ reduceResult' = IF waiting + 1 = Count THEN reduceAccum' ELSE reduceResult

LEMMA ArriveJoins ==
  ASSUME BarrierTypes, NEW k \in 0..BarrierCalls, RoundInv(k), BarrierCalls \in Nat,
         NEW t \in BlockThreads, Arrive(t)
  PROVE  /\ t \notin inWait /\ call[t] = k /\ k + 1 \in Rounds
         /\ UNCHANGED kernel /\ ArriveOrOpen(t)
         /\ \E op \in Ops, p \in Bits : Joins(t, k, op, p)
<1>1. t \notin inWait /\ call[t] < BarrierCalls /\ UNCHANGED kernel /\ ArriveOrOpen(t)
  BY DEF Arrive, ArriveAndWait, ArriveAndReduce, AtCall
<1>2. call[t] = k /\ k + 1 \in Rounds
  BY <1>1 DEF RoundInv, Late, Rounds
<1>3. CASE ArriveAndWait(t)
  BY <1>2, <1>3 DEF ArriveAndWait, AtCall, Joins, Bits, Ops
<1>4. ASSUME NEW op \in Ops \ {"sync"}, NEW p \in {0, 1}, ArriveAndReduce(t, op, p)
      PROVE  Joins(t, k, op, p)
  BY <1>2, <1>4 DEF ArriveAndReduce, AtCall, Joins
<1> QED BY <1>1, <1>2, <1>3, <1>4 DEF Arrive, Bits

\* What the call adds to the part of the reduction the waiters have made.
LEMMA JoinedPart ==
  ASSUME BarrierTypes, NEW k \in 0..BarrierCalls,
         RoundInv(k), ReduceInv(k), k + 1 \in Rounds,
         NEW t \in BlockThreads \ inWait, NEW op \in Ops, NEW p \in Bits, Joins(t, k, op, p)
  PROVE  /\ pred' \in [Bits -> [BlockThreads -> Bits]]
         /\ pred'[k % 2] = pred[k % 2]
         /\ reduceAccum' \in Nat
         /\ op # "sync" =>
              reduceAccum' = PartReduced(op, pred'[(k + 1) % 2], Waiters \cup {t})
<1> USE DEF BarrierTypes
<1>1. k \in Nat /\ k % 2 \in Bits /\ (k + 1) % 2 \in Bits /\ (k + 1) % 2 # k % 2
  BY Parity, BarrierAssumption
<1>2. CASE op = "sync"
  BY <1>2 DEF Joins
<1>3. CASE op # "sync"
  <2> DEFINE ps == pred[(k + 1) % 2]
  <2>1. ps \in [BlockThreads -> Bits]
    BY <1>1
  <2>2. pred' = [pred EXCEPT ![(k + 1) % 2] = [ps EXCEPT ![t] = p]]
    BY <1>1, <1>3 DEF Joins
  <2>3. [ps EXCEPT ![t] = p] \in [BlockThreads -> Bits]
    BY <2>1
  <2>4. /\ pred' \in [Bits -> [BlockThreads -> Bits]]
        /\ pred'[k % 2] = pred[k % 2]
        /\ pred'[(k + 1) % 2] = [ps EXCEPT ![t] = p]
    BY <1>1, <2>2, <2>3
  <2>5. IsFiniteSet(Waiters) /\ Waiters \in SUBSET BlockThreads /\ t \in BlockThreads \ Waiters
    BY FiniteWaiters DEF Waiters
  <2>6. reduceAccum' = Combine(op, PartReduced(op, ps, Waiters), p)
    <3>1. CASE waiting = 0
      <4>1. Waiters = {}
        BY <2>5, <3>1, FS_EmptySet DEF RoundInv
      <4> QED BY <1>3, <3>1, <4>1, PartOfNone DEF Joins, Accumulate
    <3>2. CASE waiting # 0
      BY <1>3, <3>2 DEF Joins, Accumulate, ReduceInv
    <3> QED BY <3>1, <3>2
  <2>7. reduceAccum' = PartReduced(op, pred'[(k + 1) % 2], Waiters \cup {t})
    <3>1. op \in Ops \ {"sync"}
      BY <1>3
    <3> DEFINE qs == pred'[(k + 1) % 2]
    <3>2. qs[t] = p /\ \A u \in Waiters : ps[u] \in Bits /\ qs[u] = ps[u]
      BY <2>1, <2>4, <2>5
    <3> HIDE DEF ps, qs, BarrierTypes
    <3>3. PartReduced(op, qs, Waiters \cup {t})
            = Combine(op, PartReduced(op, ps, Waiters), p)
      BY <2>5, <3>1, <3>2, PartOfOneMore
    <3> QED BY <2>6, <3>3 DEF qs
  <2>8. reduceAccum' \in Nat
    BY <2>5, <2>7, PartType, FS_AddElement
  <2> QED BY <2>4, <2>7, <2>8
<1> QED BY <1>2, <1>3

\* A call that waits joins the waiters of the same round.
LEMMA WaitStep ==
  ASSUME BarrierInv, NEW t \in BlockThreads, Arrive(t),
         waiting + 1 # Count
  PROVE  BarrierInv'
<1>1. PICK k \in 0..BarrierCalls : RoundInv(k) /\ ReduceInv(k)
  BY DEF BarrierInv
<1>2. BarrierTypes /\ BarrierCalls \in Nat
  BY BarrierAssumption DEF BarrierInv
<1>3. /\ t \notin inWait /\ call[t] = k /\ k + 1 \in Rounds
      /\ UNCHANGED kernel /\ Wait(t)
  BY <1>1, <1>2, ArriveJoins DEF ArriveOrOpen
<1>4. PICK op \in Ops, p \in Bits : Joins(t, k, op, p)
  BY <1>1, <1>2, ArriveJoins
<1>5. /\ pred' \in [Bits -> [BlockThreads -> Bits]]
      /\ pred'[k % 2] = pred[k % 2]
      /\ reduceAccum' \in Nat
      /\ op # "sync" =>
           reduceAccum' = PartReduced(op, pred'[(k + 1) % 2], Waiters \cup {t})
  BY <1>1, <1>2, <1>3, <1>4, JoinedPart
<1>6. UNCHANGED reduceResult
  BY <1>4 DEF Joins
<1>7. BarrierTypes'
  BY <1>2, <1>3, <1>5, <1>6 DEF BarrierTypes, Wait
<1>8. Waiters' = Waiters \cup {t} /\ \A u \in BlockThreads : Late(u)' <=> Late(u)
  BY <1>2, <1>3 DEF Wait, Waiters, Late, BarrierTypes
<1>9. waiting' = Cardinality(Waiters')
  <2>1. IsFiniteSet(Waiters) /\ t \notin Waiters /\ Cardinality(Waiters) \in Nat
    BY <1>2, <1>3, FiniteWaiters DEF BarrierTypes, Waiters
  <2> QED BY <1>1, <1>3, <1>8, <2>1, FS_AddElement DEF RoundInv, Wait
<1>10. RoundInv(k)'
  BY <1>1, <1>3, <1>8, <1>9 DEF RoundInv, Wait
<1>11. ReduceInv(k)'
  <2>1. k \in Rounds /\ kernel'[k] # "sync" =>
          /\ reduceResult' = BlockReduced(kernel'[k], pred'[k % 2])
          /\ \A u \in BlockThreads \ inWait' : gotValue'[u] = reduceResult'
    BY <1>1, <1>3, <1>5, <1>6 DEF ReduceInv, Wait
  <2>2. kernel'[k + 1] # "sync" =>
          reduceAccum' = PartReduced(kernel'[k + 1], pred'[(k + 1) % 2], Waiters')
    BY <1>3, <1>4, <1>5, <1>8 DEF Joins
  <2> QED BY <2>1, <2>2 DEF ReduceInv
<1> QED BY <1>7, <1>10, <1>11 DEF BarrierInv

\* The last call of a round: all other threads are its waiters, and all of them
\* are late once the generation has changed.
LEMMA OpenStep ==
  ASSUME BarrierInv, NEW t \in BlockThreads, Arrive(t),
         waiting + 1 = Count
  PROVE  BarrierInv'
<1>1. PICK k \in 0..BarrierCalls : RoundInv(k) /\ ReduceInv(k)
  BY DEF BarrierInv
<1>2. BarrierTypes /\ BarrierCalls \in Nat
  BY BarrierAssumption DEF BarrierInv
<1>3. /\ t \notin inWait /\ call[t] = k /\ k + 1 \in Rounds
      /\ UNCHANGED kernel /\ Open(t)
  BY <1>1, <1>2, ArriveJoins DEF ArriveOrOpen
<1>4. PICK op \in Ops, p \in Bits : Joins(t, k, op, p)
  BY <1>1, <1>2, ArriveJoins
<1>5. /\ pred' \in [Bits -> [BlockThreads -> Bits]]
      /\ reduceAccum' \in Nat
      /\ op # "sync" =>
           reduceAccum' = PartReduced(op, pred'[(k + 1) % 2], Waiters \cup {t})
  BY <1>1, <1>2, <1>3, <1>4, JoinedPart
<1>6. Waiters \cup {t} = BlockThreads
  <2>1. /\ IsFiniteSet(Waiters) /\ t \notin Waiters /\ Cardinality(Waiters) \in Nat
        /\ Waiters \subseteq BlockThreads
    BY <1>2, <1>3, FiniteWaiters DEF BarrierTypes, Waiters
  <2>2. Cardinality(Waiters \cup {t}) = Cardinality(BlockThreads)
    BY <1>1, <2>1, FS_AddElement DEF RoundInv, Count
  <2> QED BY <2>1, <2>2, FS_Subset, BarrierAssumption
<1>7. reduceResult' = IF op = "sync" THEN reduceResult ELSE reduceAccum'
  BY <1>4 DEF Joins
<1>8. blockGen' \in 0..(GenMod - 1) /\ blockGen' # blockGen
  BY <1>2, <1>3, NextGeneration DEF BarrierTypes, Open
<1>9. BarrierTypes'
  BY <1>1, <1>2, <1>3, <1>5, <1>7, <1>8 DEF BarrierTypes, Open, Return, AfterOpen
<1>10. /\ Waiters' = {}
       /\ ~Late(t)' /\ \A u \in BlockThreads \ {t} : ~Late(u) /\ Late(u)' /\ u \in inWait
  BY <1>2, <1>3, <1>6, <1>8 DEF BarrierTypes, Open, Waiters, Late
<1>11. RoundInv(k + 1)'
  <2>1. waiting' = Cardinality(Waiters')
    BY <1>3, <1>10, FS_EmptySet DEF Open, AfterOpen
  <2>2. \A u \in BlockThreads : call'[u] = IF u = t THEN k + 1 ELSE k
    BY <1>1, <1>2, <1>3, <1>10 DEF RoundInv, Open, Return, BarrierTypes
  <2> QED BY <1>2, <1>10, <2>1, <2>2 DEF RoundInv
<1>12. ReduceInv(k + 1)'
  <2>1. CASE op # "sync"
    <3>1. reduceResult' = BlockReduced(kernel'[k + 1], pred'[(k + 1) % 2])
      BY <1>3, <1>4, <1>5, <1>6, <1>7, <2>1, PartOfAll DEF Joins
    <3>2. \A u \in BlockThreads \ inWait' : u = t
      BY <1>3, <1>10 DEF Open
    <3>3. gotValue'[t] = reduceResult'
      BY <1>2, <1>3 DEF Open, Return, BarrierTypes
    <3> QED BY <1>3, <3>1, <3>2, <3>3 DEF ReduceInv, Open, AfterOpen
  <2>2. CASE op = "sync"
    BY <1>3, <1>4, <2>2 DEF ReduceInv, Open, AfterOpen, Joins
  <2> QED BY <2>1, <2>2
<1>13. k + 1 \in 0..BarrierCalls
  BY <1>2, <1>3 DEF Rounds
<1> QED BY <1>9, <1>11, <1>12, <1>13 DEF BarrierInv

LEMMA LeaveStep ==
  ASSUME BarrierInv, NEW t \in BlockThreads, Leave(t)
  PROVE  BarrierInv'
<1>1. PICK k \in 0..BarrierCalls : RoundInv(k) /\ ReduceInv(k)
  BY DEF BarrierInv
<1>2. BarrierTypes /\ BarrierCalls \in Nat
  BY BarrierAssumption DEF BarrierInv
<1>3. Late(t) /\ k > 0 /\ call[t] = k - 1
  BY <1>1 DEF Leave, Opened, Late, RoundInv
<1>4. BarrierTypes'
  BY <1>2 DEF BarrierTypes, Leave, Return
<1>5. Waiters' = Waiters /\ ~Late(t)' /\ \A u \in BlockThreads \ {t} : Late(u)' <=> Late(u)
  BY DEF Leave, Waiters, Late, Opened
<1>6. call'[t] = k /\ gotValue'[t] = reduceResult
      /\ \A u \in BlockThreads \ {t} : call'[u] = call[u] /\ gotValue'[u] = gotValue[u]
  BY <1>2, <1>3 DEF Leave, Return, BarrierTypes
<1>7. RoundInv(k)'
  BY <1>1, <1>5, <1>6 DEF RoundInv, Leave
<1>8. ReduceInv(k)'
  BY <1>1, <1>5, <1>6 DEF ReduceInv, Leave
<1> QED BY <1>4, <1>7, <1>8 DEF BarrierInv

LEMMA SleepStep ==
  ASSUME BarrierInv,
         UNCHANGED <<kernel, waiting, blockGen, reduceAccum, reduceResult, threadGen,
                     inWait, call, pred, gotValue>>
  PROVE  BarrierInv'
BY DEF BarrierInv, BarrierTypes, RoundInv, ReduceInv, Late, Waiters

LEMMA BarrierInvNext ==
  ASSUME BarrierInv, [BarrierNext]_barrierVars
  PROVE  BarrierInv'
<1>1. ASSUME NEW t \in BlockThreads, Arrive(t)
      PROVE  BarrierInv'
  BY <1>1, WaitStep, OpenStep
<1>2. ASSUME NEW t \in BlockThreads, SleepAgain(t) \/ SpuriousWakeup(t)
      PROVE  BarrierInv'
  BY <1>2, SleepStep DEF SleepAgain, SpuriousWakeup
<1>3. CASE UNCHANGED barrierVars
  BY <1>3, SleepStep DEF barrierVars
<1> QED BY <1>1, <1>2, <1>3, LeaveStep DEF BarrierNext

-----------------------------------------------------------------------------
(* The theorem *)

LEMMA BarrierInvSound ==
  ASSUME BarrierInv
  PROVE  BarrierSound
<1>1. PICK k \in 0..BarrierCalls : RoundInv(k) /\ ReduceInv(k)
  BY DEF BarrierInv
<1>2. BarrierTypes /\ BarrierCalls \in Nat
  BY BarrierAssumption DEF BarrierInv
<1>3. NoRunAhead
  <2>1. \A t \in BlockThreads : call[t] <= k /\ k <= Entered(t)
    <3> SUFFICES ASSUME NEW t \in BlockThreads
                 PROVE  call[t] <= k /\ k <= Entered(t)
      OBVIOUS
    <3>1. k \in Nat /\ call[t] \in Nat
      BY <1>2 DEF BarrierTypes
    <3>2. CASE Late(t)
      BY <1>1, <3>1, <3>2 DEF RoundInv, Late, Entered
    <3>3. CASE ~Late(t)
      BY <1>1, <3>1, <3>3 DEF RoundInv, Entered
    <3> QED BY <3>2, <3>3
  <2>2. \A t \in BlockThreads : call[t] \in Nat /\ Entered(t) \in Nat
    BY <1>2 DEF BarrierTypes, Entered
  <2> QED BY <1>2, <2>1, <2>2 DEF NoRunAhead
<1>4. ReduceRight
  <2>1. \A t \in BlockThreads : t \notin inWait => call[t] = k
    BY <1>1 DEF RoundInv, Late
  <2> QED BY <1>1, <1>2, <2>1 DEF ReduceInv, ReduceRight, Rounds
<1> QED BY <1>3, <1>4 DEF BarrierSound

\* The inductive invariant holds in every reachable state.
THEOREM BarrierInvAlways == BarrierSpec => []BarrierInv
<1>1. BarrierInit => BarrierInv
  BY BarrierInvInit
<1>2. BarrierInv /\ [BarrierNext]_barrierVars => BarrierInv'
  BY BarrierInvNext
<1> QED BY <1>1, <1>2, PTL DEF BarrierSpec

\* Whatever the block's size, the kernel and the width of generation_, no thread
\* leaves a __syncthreads() another has not reached, and a reducing one gives
\* every thread the reduction of what all threads passed in that round: reusing
\* the accumulator, the result and a wrapping generation_ is safe.
THEOREM BarrierIsSound == BarrierSpec => []BarrierSound
<1>1. BarrierInv => BarrierSound
  BY BarrierInvSound
<1> QED BY <1>1, BarrierInvAlways, PTL

-----------------------------------------------------------------------------
(* Events *)

Task == [id : Nat, event : Events \cup {None}]
Places  == {"idle", "sync", "poll", "look", "dozing", "asleep", "read", "get"}
Results == {None, "success", "invalid", "timeout", "elapsed", "throws"}
HostCall == [pc : Places, ev : Events \cup {None}, fut : Nat, todo : Events \cup {None},
         pair : Seq(Events), futs : Seq(Nat), result : Results]

\* A call under way has an event, and reads the futures of a pair.
Sensible(c) ==
  /\ c.pc # "idle" => c.ev \in Events
  /\ c.pair = <<>> \/ Len(c.pair) = 2
  /\ c.pc = "read" => Len(c.pair) = 2

\* The number of the i-th task waiting in stream s.
IdAt(s, i) == stream[s][i].id

EventTypes ==
  /\ future \in [Events -> Nat]
  /\ stream \in [EventStreams -> Seq(Task)]
  /\ nTasks \in Nat
  /\ host \in [Hosts -> HostCall] /\ \A h \in Hosts : Sensible(host[h])
  /\ ready \subseteq DOMAIN ahead
  /\ DOMAIN ahead \subseteq 1..nTasks
  /\ ahead = [f \in DOMAIN ahead |-> ahead[f]]
  /\ \A f \in DOMAIN ahead : ahead[f] \subseteq 1..nTasks

\* A task waits in one place of one stream.
TasksDistinct ==
  \A s, u \in EventStreams : \A i \in DOMAIN stream[s], j \in DOMAIN stream[u] :
    IdAt(s, i) = IdAt(u, j) => s = u /\ i = j
TasksMade ==
  \A s \in EventStreams : \A i \in DOMAIN stream[s] :
    /\ IdAt(s, i) \in 1..nTasks
    /\ stream[s][i].event # None => IdAt(s, i) \in DOMAIN ahead

\* What was in front of a record that waits, and has not run, is still in front
\* of it in its stream.
StillAhead ==
  \A s, u \in EventStreams : \A i \in DOMAIN stream[s], j \in DOMAIN stream[u] :
    stream[s][i].event # None /\ IdAt(u, j) \in ahead[IdAt(s, i)] => u = s /\ j < i

\* A future that is ready, and not broken, has nothing left in front of it.
ReadyPast ==
  \A f \in ready \ broken : \A s \in EventStreams : \A i \in DOMAIN stream[s] :
    IdAt(s, i) # f /\ IdAt(s, i) \notin ahead[f]

SuccessReady ==
  \A h \in Hosts :
    host[h].pc = "idle" /\ host[h].result = "success" => host[h].fut \in ready

\* SyncSound is about the hosts; it holds because the streams keep the order of
\* the records.
EventInv ==
  /\ EventTypes /\ TasksDistinct /\ TasksMade /\ StillAhead /\ ReadyPast
  /\ SuccessReady

LEMMA IdleCall ==
  /\ NotCalling \in HostCall /\ NotCalling.pc = "idle" /\ NotCalling.result = None
  /\ NotCalling.pair = <<>>
BY DEF NotCalling, HostCall, Places, Results, None

LEMMA EventInvInit ==
  ASSUME EventInit
  PROVE  EventInv
<1>1. \A s \in EventStreams : DOMAIN stream[s] = {}
  BY DEF EventInit
<1>2. EventTypes
  <2>1. NotCalling \in HostCall /\ Sensible(NotCalling)
    BY IdleCall DEF Sensible
  <2>2. ahead = [f \in DOMAIN ahead |-> ahead[f]] /\ DOMAIN ahead = {}
    BY DEF EventInit
  <2> QED BY <2>1, <2>2 DEF EventInit, EventTypes
<1>3. SuccessReady
  BY DEF EventInit, SuccessReady, NotCalling, None
<1>4. TasksDistinct /\ TasksMade /\ StillAhead /\ ReadyPast
  BY <1>1 DEF TasksDistinct, TasksMade, StillAhead, ReadyPast
<1> QED BY <1>2, <1>3, <1>4 DEF EventInv

-----------------------------------------------------------------------------
(* The streams *)

\* Sequences that grow at the end, and lose their head.
LEMMA AppendAt ==
  ASSUME NEW S, NEW q \in Seq(S), NEW x \in S
  PROVE  /\ Append(q, x) \in Seq(S)
         /\ DOMAIN Append(q, x) = DOMAIN q \cup {Len(q) + 1}
         /\ Len(q) + 1 \notin DOMAIN q
         /\ \A i \in DOMAIN q : Append(q, x)[i] = q[i] /\ i < Len(q) + 1
         /\ Append(q, x)[Len(q) + 1] = x
OBVIOUS

LEMMA TailAt ==
  ASSUME NEW S, NEW q \in Seq(S), q # <<>>
  PROVE  /\ Tail(q) \in Seq(S) /\ Head(q) = q[1] /\ 1 \in DOMAIN q /\ Head(q) \in S
         /\ DOMAIN q \subseteq Nat \ {0}
         /\ \A i \in DOMAIN Tail(q) :
              i \in Nat /\ i + 1 \in DOMAIN q /\ i + 1 # 1 /\ Tail(q)[i] = q[i + 1]
OBVIOUS

\* A task of a new number joins a stream: a kernel, or a record that writes down
\* what is in front of it.
LEMMA TaskJoins ==
  ASSUME EventInv, NEW s \in EventStreams, NEW e \in Events \cup {None},
         nTasks' = nTasks + 1,
         stream' = [stream EXCEPT ![s] = Append(@, [id |-> nTasks + 1, event |-> e])],
         UNCHANGED <<ready, broken>>,
         \/ e = None /\ UNCHANGED ahead
         \/ ahead' = [g \in DOMAIN ahead \union {nTasks + 1} |->
                        IF g = nTasks + 1 THEN {k.id : k \in ToSet(stream[s])}
                        ELSE ahead[g]],
         UNCHANGED host, future' \in [Events -> Nat]
  PROVE  EventInv'
<1> DEFINE n == nTasks + 1
           q == stream[s]
           x == [id |-> n, event |-> e]
<1>1. /\ EventTypes /\ TasksDistinct /\ TasksMade /\ StillAhead /\ ReadyPast
      /\ SuccessReady
  BY DEF EventInv
<1>2. n \in Nat /\ n \notin DOMAIN ahead /\ n \notin ready /\ x \in Task
      /\ x.id = n /\ x.event = e
  BY <1>1 DEF EventTypes, Task
<1>3. q \in Seq(Task) /\ stream'[s] = Append(q, x)
      /\ \A u \in EventStreams \ {s} : stream'[u] = stream[u]
  BY <1>1 DEF EventTypes
<1>4. /\ Append(q, x) \in Seq(Task)
      /\ DOMAIN stream'[s] = DOMAIN q \cup {Len(q) + 1}
      /\ Len(q) + 1 \notin DOMAIN q
      /\ \A i \in DOMAIN q : stream'[s][i] = q[i] /\ i < Len(q) + 1
      /\ stream'[s][Len(q) + 1] = x
  BY <1>2, <1>3, AppendAt
<1> HIDE DEF x
\* Each task of stream' is the new one, at the end of s, or was there before.
<1>5. \A u \in EventStreams : \A i \in DOMAIN stream'[u] :
        \/ /\ u = s /\ i = Len(q) + 1 /\ IdAt(u, i)' = n /\ stream'[u][i].event = e
        \/ /\ i \in DOMAIN stream[u] /\ IdAt(u, i)' = IdAt(u, i)
           /\ stream'[u][i].event = stream[u][i].event
           /\ u = s => i < Len(q) + 1
  BY <1>2, <1>3, <1>4 DEF IdAt
<1>6. \A u \in EventStreams : \A i \in DOMAIN stream[u] :
        IdAt(u, i) \in 1..nTasks /\ IdAt(u, i) # n
  BY <1>1 DEF TasksMade, EventTypes
<1>7. /\ \A g \in DOMAIN ahead : g \in DOMAIN ahead' /\ ahead'[g] = ahead[g]
      /\ DOMAIN ahead' \subseteq DOMAIN ahead \cup {n}
      /\ ahead' = [f \in DOMAIN ahead' |-> ahead'[f]]
  BY <1>1, <1>2 DEF EventTypes
<1>8. e # None => /\ n \in DOMAIN ahead'
                  /\ ahead'[n] = {k.id : k \in ToSet(q)}
  BY <1>2
<1>9. {k.id : k \in ToSet(q)} = {IdAt(s, i) : i \in DOMAIN q}
  BY DEF IdAt, ToSet
<1>10. \A g \in DOMAIN ahead' : ahead'[g] \subseteq 1..nTasks
  <2>1. {k.id : k \in ToSet(q)} \subseteq 1..nTasks
    BY <1>6, <1>9
  <2>2. n \in DOMAIN ahead' => ahead'[n] = {k.id : k \in ToSet(q)}
    BY <1>2
  <2> QED BY <1>1, <1>7, <2>1, <2>2 DEF EventTypes
<1>11. EventTypes'
  <2>1. stream' \in [EventStreams -> Seq(Task)]
    BY <1>1, <1>3, <1>4 DEF EventTypes
  <2>2. DOMAIN ahead' \subseteq 1..nTasks' /\ 1..nTasks \subseteq 1..nTasks'
    <3>1. nTasks \in Nat /\ nTasks' = nTasks + 1
      BY <1>1 DEF EventTypes
    <3>2. DOMAIN ahead' \subseteq 1..nTasks \cup {n}
      BY <1>1, <1>7 DEF EventTypes
    <3> QED BY <3>1, <3>2
  <2> QED BY <1>1, <1>2, <1>7, <1>10, <2>1, <2>2 DEF EventTypes
<1>12. TasksDistinct'
  BY <1>1, <1>5, <1>6 DEF TasksDistinct
<1>13. TasksMade'
  BY <1>1, <1>2, <1>5, <1>6, <1>7, <1>8 DEF TasksMade, EventTypes
<1>14. StillAhead'
  <2> SUFFICES ASSUME NEW u \in EventStreams, NEW v \in EventStreams,
                      NEW i \in DOMAIN stream'[u], NEW j \in DOMAIN stream'[v],
                      stream'[u][i].event # None,
                      IdAt(v, j)' \in ahead'[IdAt(u, i)']
               PROVE  v = u /\ j < i
    BY DEF StillAhead
  <2>1. IdAt(u, i)' \in DOMAIN ahead'
    BY <1>13 DEF TasksMade
  <2>2. j \in DOMAIN stream[v] /\ IdAt(v, j)' = IdAt(v, j)
    BY <1>1, <1>2, <1>5, <1>10, <2>1 DEF EventTypes
  <2>3. CASE u = s /\ i = Len(q) + 1
    <3>1. IdAt(u, i)' = n /\ e # None
      BY <1>4, <1>2, <2>3 DEF IdAt
    <3>2. IdAt(v, j) \in {IdAt(s, m) : m \in DOMAIN q}
      BY <1>8, <1>9, <2>2, <3>1
    <3> PICK k \in DOMAIN q : IdAt(v, j) = IdAt(s, k)
      BY <3>2
    <3>3. v = s /\ j = k
      BY <1>1, <2>2 DEF TasksDistinct
    <3> QED BY <1>4, <2>3, <3>3
  <2>4. CASE ~(u = s /\ i = Len(q) + 1)
    <3>1. /\ i \in DOMAIN stream[u] /\ IdAt(u, i)' = IdAt(u, i)
          /\ stream[u][i].event # None
      BY <1>5, <2>4
    <3>2. IdAt(u, i) \in DOMAIN ahead
      BY <1>1, <3>1 DEF TasksMade
    <3> QED BY <1>1, <1>7, <2>2, <3>1, <3>2 DEF StillAhead
  <2> QED BY <2>3, <2>4
<1>15. ReadyPast'
  <2> SUFFICES ASSUME NEW f \in ready \ broken, NEW u \in EventStreams,
                      NEW i \in DOMAIN stream'[u]
               PROVE  IdAt(u, i)' # f /\ IdAt(u, i)' \notin ahead'[f]
    BY DEF ReadyPast
  <2>1. f \in DOMAIN ahead /\ ahead'[f] = ahead[f] /\ n \notin ahead[f] /\ f # n
    BY <1>1, <1>2, <1>7 DEF EventTypes
  <2> QED BY <1>1, <1>5, <2>1 DEF ReadyPast
<1>16. SuccessReady'
  BY <1>1 DEF SuccessReady
<1> QED BY <1>11, <1>12, <1>13, <1>14, <1>15, <1>16 DEF EventInv

LEMMA RunTaskStep ==
  ASSUME EventInv, NEW s \in EventStreams, RunTask(s)
  PROVE  EventInv'
<1> DEFINE q == stream[s]
           k == Head(q)
<1>1. /\ EventTypes /\ TasksDistinct /\ TasksMade /\ StillAhead /\ ReadyPast
      /\ SuccessReady
  BY DEF EventInv
<1>2. q \in Seq(Task) /\ q # <<>> /\ stream'[s] = Tail(q)
      /\ \A u \in EventStreams \ {s} : stream'[u] = stream[u]
  BY <1>1 DEF EventTypes, RunTask
<1>3. /\ Tail(q) \in Seq(Task) /\ k = q[1] /\ 1 \in DOMAIN q /\ k \in Task
      /\ DOMAIN q \subseteq Nat \ {0}
      /\ \A i \in DOMAIN Tail(q) :
           i \in Nat /\ i + 1 \in DOMAIN q /\ i + 1 # 1 /\ Tail(q)[i] = q[i + 1]
  BY <1>2, TailAt
<1>4. UNCHANGED <<nTasks, broken, host, ahead, future>>
      /\ ready' = IF k.event = None THEN ready ELSE ready \union {k.id}
  BY DEF RunTask
<1>5. \A u \in EventStreams : \A i \in DOMAIN stream'[u] :
        LET j == IF u = s THEN i + 1 ELSE i IN
        /\ j \in DOMAIN stream[u] /\ stream'[u][i] = stream[u][j]
        /\ IdAt(u, i)' = IdAt(u, j) /\ (u = s => j # 1)
  BY <1>2, <1>3 DEF IdAt
<1>6. IdAt(s, 1) = k.id /\ (k.event # None => k.id \in DOMAIN ahead)
  BY <1>1, <1>3 DEF IdAt, TasksMade
<1>7. \A u \in EventStreams : \A i \in DOMAIN stream'[u] : IdAt(u, i)' # k.id
  BY <1>1, <1>3, <1>5, <1>6 DEF TasksDistinct
<1>8. EventTypes'
  <2>1. stream' \in [EventStreams -> Seq(Task)]
    BY <1>1, <1>2, <1>3 DEF EventTypes, RunTask
  <2> QED BY <1>1, <1>4, <1>6, <2>1 DEF EventTypes
<1>9. TasksDistinct'
  <2> SUFFICES ASSUME NEW u \in EventStreams, NEW v \in EventStreams,
                      NEW i \in DOMAIN stream'[u], NEW j \in DOMAIN stream'[v],
                      IdAt(u, i)' = IdAt(v, j)'
               PROVE  u = v /\ i = j
    BY DEF TasksDistinct
  <2>1. (u = s => i \in Nat) /\ (v = s => j \in Nat)
    BY <1>2, <1>3
  <2>2. u = v /\ (IF u = s THEN i + 1 ELSE i) = (IF v = s THEN j + 1 ELSE j)
    BY <1>1, <1>5 DEF TasksDistinct
  <2> QED BY <2>1, <2>2
<1>10. TasksMade'
  BY <1>1, <1>4, <1>5 DEF TasksMade
<1>11. StillAhead'
  <2> SUFFICES ASSUME NEW u \in EventStreams, NEW v \in EventStreams,
                      NEW i \in DOMAIN stream'[u], NEW j \in DOMAIN stream'[v],
                      stream'[u][i].event # None,
                      IdAt(v, j)' \in ahead'[IdAt(u, i)']
               PROVE  v = u /\ j < i
    BY DEF StillAhead
  <2>1. (u = s => i \in Nat) /\ (v = s => j \in Nat)
    BY <1>2, <1>3
  <2>2. v = u /\ (IF v = s THEN j + 1 ELSE j) < (IF u = s THEN i + 1 ELSE i)
    BY <1>1, <1>4, <1>5 DEF StillAhead
  <2> QED BY <2>1, <2>2
<1>12. ReadyPast'
  <2> SUFFICES ASSUME NEW f \in ready' \ broken, NEW u \in EventStreams,
                      NEW i \in DOMAIN stream'[u]
               PROVE  IdAt(u, i)' # f /\ IdAt(u, i)' \notin ahead[f]
    BY <1>4 DEF ReadyPast
  <2>1. CASE f \in ready
    BY <1>1, <1>5, <2>1 DEF ReadyPast
  <2>2. CASE f = k.id /\ k.event # None
    <3>1. q[1].event # None /\ f = IdAt(s, 1)
      BY <1>3, <1>6, <2>2
    <3>2. SUFFICES ASSUME IdAt(u, i)' \in ahead[f] PROVE FALSE
      BY <1>7, <2>2
    <3>3. u = s /\ i \in Nat /\ i + 1 < 1
      BY <1>1, <1>2, <1>3, <1>5, <3>1, <3>2 DEF StillAhead
    <3> QED BY <3>3
  <2> QED BY <1>4, <2>1, <2>2
<1>13. SuccessReady'
  BY <1>1, <1>4 DEF SuccessReady
<1> QED BY <1>8, <1>9, <1>10, <1>11, <1>12, <1>13 DEF EventInv

-----------------------------------------------------------------------------
(* Records and hosts *)

LEMMA RecordStep ==
  ASSUME EventInv, NEW e \in Events, NEW s \in EventStreams, Record(e, s)
  PROVE  EventInv'
<1> DEFINE n == nTasks + 1
<1>1. /\ EventTypes /\ TasksDistinct /\ TasksMade /\ StillAhead /\ ReadyPast
      /\ SuccessReady
  BY DEF EventInv
<1>2. future' \in [Events -> Nat] /\ nTasks' = n
  BY <1>1 DEF Record, EventTypes
<1>3. CASE ~shut
  BY <1>2, <1>3, TaskJoins DEF Record
<1>4. CASE shut
  <2>1. /\ ready' = ready \cup {n} /\ broken' = broken \cup {n}
        /\ UNCHANGED <<stream, host>>
        /\ ahead' = [g \in DOMAIN ahead \union {n} |->
                       IF g = n THEN {k.id : k \in ToSet(stream[s])} ELSE ahead[g]]
    BY <1>4 DEF Record
  <2>2. {k.id : k \in ToSet(stream[s])} = {IdAt(s, i) : i \in DOMAIN stream[s]}
    BY DEF IdAt, ToSet
  <2>3. {k.id : k \in ToSet(stream[s])} \subseteq 1..nTasks
    BY <1>1, <2>2 DEF TasksMade
  <2>4. n \in Nat /\ 1..nTasks \subseteq 1..n /\ n \in 1..n /\ n \notin 1..nTasks
    BY <1>1 DEF EventTypes
  <2>5. /\ \A g \in DOMAIN ahead : g \in DOMAIN ahead' /\ ahead'[g] = ahead[g]
        /\ DOMAIN ahead' = DOMAIN ahead \cup {n} /\ ahead'[n] \subseteq 1..nTasks
        /\ ahead' = [g \in DOMAIN ahead' |-> ahead'[g]]
    BY <1>1, <2>1, <2>3, <2>4 DEF EventTypes
  <2>6. EventTypes'
    BY <1>1, <1>2, <2>1, <2>4, <2>5 DEF EventTypes
  <2>7. TasksDistinct' /\ TasksMade'
    BY <1>1, <1>2, <2>1, <2>4, <2>5 DEF TasksDistinct, TasksMade, IdAt
  <2>8. StillAhead'
    BY <1>1, <2>1, <2>5 DEF StillAhead, TasksMade, IdAt
  <2>9. ReadyPast' /\ SuccessReady'
    BY <1>1, <2>1, <2>5 DEF ReadyPast, SuccessReady, EventTypes, IdAt
  <2> QED BY <2>6, <2>7, <2>8, <2>9 DEF EventInv
<1> QED BY <1>3, <1>4

\* Steps that leave the streams and the futures alone.
StreamsStay == UNCHANGED <<future, stream, nTasks, ready, broken, ahead>>

\* A call as a step may leave it: one that has succeeded saw a ready future.
Sound(c) ==
  /\ c \in HostCall /\ Sensible(c)
  /\ c.pc # "idle" \/ c.result # "success" \/ c.fut \in ready

LEMMA HostsOnly ==
  ASSUME EventInv, StreamsStay, host' \in [Hosts -> HostCall],
         \A h \in Hosts : host'[h] = host[h] \/ Sound(host'[h])
  PROVE  EventInv'
<1>1. EventTypes' /\ SuccessReady'
  BY DEF EventInv, EventTypes, SuccessReady, StreamsStay, Sound
<1>2. TasksDistinct' /\ TasksMade' /\ StillAhead' /\ ReadyPast'
  BY DEF EventInv, TasksDistinct, TasksMade, StillAhead, ReadyPast, IdAt, StreamsStay
<1> QED BY <1>1, <1>2 DEF EventInv

LEMMA OneHost ==
  ASSUME NEW h \in Hosts, NEW c, EventInv, StreamsStay, Set(h, c), Sound(c)
  PROVE  EventInv'
<1>1. host \in [Hosts -> HostCall]
  BY DEF EventInv, EventTypes
<1>2. c \in HostCall
  BY DEF Sound
<1>3. host' \in [Hosts -> HostCall] /\ \A g \in Hosts : host'[g] = host[g] \/ Sound(host'[g])
  BY <1>1, <1>2 DEF Set
<1> QED BY <1>3, HostsOnly

LEMMA ReturnedSound ==
  ASSUME NEW c \in HostCall, NEW r \in Results, Sensible(c), c.pc # "idle",
         r = "success" => c.fut \in ready
  PROVE  Sound(Returned(c, r))
<1>1. CASE c.pair = <<>>
  <2>1. Returned(c, r) = [NotCalling EXCEPT !.result = r, !.fut = c.fut]
    BY <1>1 DEF Returned
  <2> QED BY <1>1, <2>1, IdleCall DEF HostCall, Results, Sound, Sensible
<1>2. CASE c.pair # <<>> /\ r # "success"
  <2>1. Returned(c, r) = [NotCalling EXCEPT !.result = "invalid"]
    BY <1>2 DEF Returned
  <2> QED BY <1>2, <2>1, IdleCall DEF HostCall, Results, Sound, Sensible
<1>3. CASE c.pair # <<>> /\ r = "success" /\ c.todo # None
  <2>1. Returned(c, r) = [c EXCEPT !.pc = "sync", !.ev = c.todo, !.todo = None]
    BY <1>3 DEF Returned
  <2> QED BY <1>3, <2>1 DEF HostCall, Places, Sound, Sensible
<1>4. CASE c.pair # <<>> /\ r = "success" /\ c.todo = None
  <2>1. Returned(c, r) = [c EXCEPT !.pc = "read"]
    BY <1>4 DEF Returned
  <2> QED BY <1>4, <2>1 DEF HostCall, Places, Sound, Sensible
<1> QED BY <1>1, <1>2, <1>3, <1>4

LEMMA HostStepKeeps ==
  ASSUME EventInv, NEW h \in Hosts, HostStep(h) \/ Timeout(h)
  PROVE  EventInv'
<1> DEFINE c == host[h]
<1>1. c \in HostCall /\ Sensible(c) /\ future \in [Events -> Nat]
  BY DEF EventInv, EventTypes
<1>2. StreamsStay
  BY DEF HostStep, Timeout, CopyFuture, PollReady, PollTimeout, Look, FallAsleep,
         BlockingTimeout, ReadFutures, GetBoth, StreamsStay
<1> SUFFICES \E d : Set(h, d) /\ Sound(d)
  BY <1>2, OneHost
<1>3. CASE CopyFuture(h)
  <2>1. CASE ~recorded[c.ev] \/ future[c.ev] = 0
    <3>1. Set(h, Returned(c, "invalid")) /\ c.pc # "idle"
      BY <1>3, <2>1 DEF CopyFuture
    <3>2. Sound(Returned(c, "invalid"))
      BY <1>1, <3>1, ReturnedSound DEF Results
    <3> QED BY <3>1, <3>2
  <2>2. CASE ~(~recorded[c.ev] \/ future[c.ev] = 0)
    <3> DEFINE d == [c EXCEPT !.fut = future[c.ev],
                              !.pc = IF c.ev \in Blocking THEN "look" ELSE "poll"]
    <3>1. Set(h, d) /\ c.ev \in Events
      BY <1>1, <1>3, <2>2 DEF CopyFuture, Sensible
    <3>2. Sound(d)
      BY <1>1, <3>1 DEF HostCall, Places, Sound, Sensible
    <3> QED BY <3>1, <3>2
  <2> QED BY <2>1, <2>2
<1>4. CASE PollReady(h)
  <2>1. Set(h, Returned(c, "success")) /\ c.pc # "idle" /\ c.fut \in ready
    BY <1>4 DEF PollReady
  <2>2. Sound(Returned(c, "success"))
    BY <1>1, <2>1, ReturnedSound DEF Results
  <2> QED BY <2>1, <2>2
<1>5. CASE PollTimeout(h)
  <2>1. Set(h, Returned(c, "timeout")) /\ c.pc # "idle"
    BY <1>5 DEF PollTimeout
  <2>2. Sound(Returned(c, "timeout"))
    BY <1>1, <2>1, ReturnedSound DEF Results
  <2> QED BY <2>1, <2>2
<1>6. CASE Look(h)
  <2>1. CASE c.fut \in ready
    <3>1. Set(h, Returned(c, "success")) /\ c.pc # "idle"
      BY <1>6, <2>1 DEF Look, WaitOver
    <3>2. Sound(Returned(c, "success"))
      BY <1>1, <2>1, <3>1, ReturnedSound DEF Results
    <3> QED BY <3>1, <3>2
  <2>2. CASE c.fut \notin ready
    <3> DEFINE d == [c EXCEPT !.pc = "dozing"]
    <3>1. Set(h, d) /\ c.pc # "idle"
      BY <1>6, <2>2 DEF Look, WaitOver
    <3>2. Sound(d)
      BY <1>1, <3>1 DEF HostCall, Places, Sound, Sensible
    <3> QED BY <3>1, <3>2
  <2> QED BY <2>1, <2>2
<1>7. CASE FallAsleep(h)
  <2> DEFINE d == [c EXCEPT !.pc = "asleep"]
  <2>1. Set(h, d) /\ c.pc # "idle"
    BY <1>7 DEF FallAsleep
  <2>2. Sound(d)
    BY <1>1, <2>1 DEF HostCall, Places, Sound, Sensible
  <2> QED BY <2>1, <2>2
<1>8. CASE BlockingTimeout(h)
  <2> DEFINE r == IF c.fut \in ready THEN "success" ELSE "timeout"
  <2>1. Set(h, Returned(c, r)) /\ c.pc # "idle"
    BY <1>8 DEF BlockingTimeout, MayTimeOut
  <2>2. r \in Results /\ (r = "success" => c.fut \in ready)
    BY DEF Results
  <2> HIDE DEF r
  <2>3. Sound(Returned(c, r))
    BY <1>1, <2>1, <2>2, ReturnedSound
  <2> QED BY <2>1, <2>3
<1>9. CASE ReadFutures(h)
  <2> DEFINE fs == <<future[c.pair[1]], future[c.pair[2]]>>
             d  == [c EXCEPT !.pc = "get", !.futs = fs]
  <2>1. Set(h, d) /\ c.pc = "read"
    BY <1>9 DEF ReadFutures
  <2>2. c.pair[1] \in Events /\ c.pair[2] \in Events
    BY <1>1, <2>1 DEF Sensible, HostCall
  <2>3. fs \in Seq(Nat)
    <3>1. future[c.pair[1]] \in Nat /\ future[c.pair[2]] \in Nat
      BY <1>1, <2>2
    <3> QED BY <3>1
  <2> HIDE DEF fs
  <2>4. Sound(d)
    BY <1>1, <2>1, <2>3 DEF HostCall, Places, Sound, Sensible
  <2> QED BY <2>1, <2>4
<1>10. CASE GetBoth(h)
  <2> DEFINE r == IF ToSet(c.futs) \cap broken = {} THEN "elapsed" ELSE "throws"
             d == [NotCalling EXCEPT !.result = r]
  <2>1. Set(h, d)
    BY <1>10 DEF GetBoth
  <2>2. r \in Results /\ r # "success"
    BY DEF Results
  <2> HIDE DEF r
  <2>3. Sound(d)
    BY <2>2, IdleCall DEF HostCall, Sound, Sensible
  <2> QED BY <2>1, <2>3
<1> QED BY <1>3, <1>4, <1>5, <1>6, <1>7, <1>8, <1>9, <1>10 DEF HostStep, Timeout

LEMMA CallBegins ==
  ASSUME NEW h \in Hosts, NEW e \in Events, NEW d \in Events, EventInv,
         Synchronize(h, e) \/ ElapsedTime(h, e, d)
  PROVE  EventInv'
<1>1. StreamsStay
  BY DEF Synchronize, ElapsedTime, StreamsStay
<1>2. CASE Synchronize(h, e)
  <2> DEFINE c == [NotCalling EXCEPT !.pc = "sync", !.ev = e]
  <2>1. Set(h, c)
    BY <1>2 DEF Synchronize
  <2>2. Sound(c)
    BY IdleCall DEF HostCall, Places, Sound, Sensible
  <2> QED BY <1>1, <2>1, <2>2, OneHost
<1>3. CASE ElapsedTime(h, e, d)
  <2> DEFINE c == [NotCalling EXCEPT !.pc = "sync", !.ev = e, !.todo = d, !.pair = <<e, d>>]
  <2>1. Set(h, c)
    BY <1>3 DEF ElapsedTime
  <2>2. Sound(c)
    <3>1. <<e, d>> \in Seq(Events) /\ Len(<<e, d>>) = 2
      OBVIOUS
    <3> QED BY <3>1, IdleCall DEF HostCall, Places, Sound, Sensible
  <2> QED BY <1>1, <2>1, <2>2, OneHost
<1> QED BY <1>2, <1>3

LEMMA NotifyKeeps ==
  ASSUME NEW s \in EventStreams, EventInv, NotifyAll(s)
  PROVE  EventInv'
<1>1. StreamsStay /\ host \in [Hosts -> HostCall]
  BY DEF NotifyAll, StreamsStay, EventInv, EventTypes
<1>2. \A h \in Hosts : host'[h] = host[h] \/ Sound(host'[h])
  <2> SUFFICES ASSUME NEW h \in Hosts, host[h].pc = "asleep",
                      host'[h] = [host[h] EXCEPT !.pc = "look"]
               PROVE  Sound(host'[h])
    BY DEF NotifyAll
  <2>1. Sensible(host[h])
    BY DEF EventInv, EventTypes
  <2> QED BY <1>1, <2>1 DEF HostCall, Places, Sound, Sensible
<1>3. host' \in [Hosts -> HostCall]
  <2>1. host' = [h \in Hosts |-> host'[h]]
    BY DEF NotifyAll
  <2>2. \A h \in Hosts : host'[h] \in HostCall
    BY <1>1, <1>2 DEF Sound
  <2> QED BY <2>1, <2>2
<1> QED BY <1>1, <1>2, <1>3, HostsOnly

LEMMA EventInvNext ==
  ASSUME EventInv, [EventNext]_eventVars
  PROVE  EventInv'
<1>1. ASSUME NEW s \in EventStreams, SubmitKernel(s)
      PROVE  EventInv'
  <2>1. future \in [Events -> Nat]
    BY DEF EventInv, EventTypes
  <2> QED BY <1>1, <2>1, TaskJoins DEF SubmitKernel
<1>2. CASE Shutdown \/ UNCHANGED eventVars
  <2>1. StreamsStay /\ host' = host /\ host \in [Hosts -> HostCall]
    BY <1>2 DEF Shutdown, eventVars, StreamsStay, EventInv, EventTypes
  <2> QED BY <2>1, HostsOnly
<1> QED BY <1>1, <1>2, RunTaskStep, NotifyKeeps, RecordStep, CallBegins, HostStepKeeps
        DEF EventNext

-----------------------------------------------------------------------------
(* The theorem *)

LEMMA EventInvSound ==
  ASSUME EventInv
  PROVE  SyncSound
<1> SUFFICES ASSUME NEW h \in Hosts, host[h].pc = "idle", host[h].result = "success",
                    host[h].fut \notin broken
             PROVE  host[h].fut \notin Unrun /\ ahead[host[h].fut] \cap Unrun = {}
  BY DEF SyncSound
<1>1. host[h].fut \in ready \ broken
  BY DEF EventInv, SuccessReady
<1>2. \A x \in Unrun : \E s \in EventStreams : \E i \in DOMAIN stream[s] : x = IdAt(s, i)
  BY DEF Unrun, ToSet, IdAt
<1> QED BY <1>1, <1>2 DEF EventInv, ReadyPast

\* For any events, streams and hosts: whatever records, kernels, notifications,
\* time limits and shutdowns come in between, a synchronize() that returned
\* success has nothing of what was in front of its record left to run.
THEOREM SynchronizeIsSound == EventSpec => []SyncSound
<1>1. EventInit => EventInv
  BY EventInvInit
<1>2. EventInv /\ [EventNext]_eventVars => EventInv'
  BY EventInvNext
<1>3. EventInv => SyncSound
  BY EventInvSound
<1> QED BY <1>1, <1>2, <1>3, PTL DEF EventSpec

-----------------------------------------------------------------------------
(* The fork-join pool *)

ForOps  == {"push", "counted", "join"}
TaskOps == {"body", "count", "finish"}

\* The frames of a parallelFor and of a task.
Frame == {f \in [op : ForOps \cup TaskOps, job : Jobs, chunk : Nat] : f.chunk < NChunks[f.job]}
Key(f) == <<f.job, f.chunk>>

PoolTypes ==
  /\ deque \in [Workers -> Seq(Tasks)]
  /\ pending \in Int
  /\ left \in [Jobs -> Int]
  /\ stack \in [PoolThreads -> Seq(Frame)]
  /\ scan \in [PoolThreads -> Int]
  /\ took \in [PoolThreads -> Tasks \cup {<<>>}]
  /\ ran \in [Tasks -> Nat]
  /\ called \subseteq Jobs
  /\ returned \subseteq called

\* A thread looks for a task in a join or, if it is a worker, between tasks; only
\* the top frame of a stack is active.
StackInv ==
  \A t \in PoolThreads :
    /\ \A i \in 1..(Len(stack[t]) - 1) : stack[t][i].op \in {"join", "count"}
    /\ took[t] # <<>> => scan[t] >= 0
    /\ scan[t] >= 0 => IsTop(t, "join") \/ (stack[t] = <<>> /\ t \in Workers)

\* Task k is at place p: queued, taken or on a stack.
AtDeque(k, p) == \E w \in Workers : \E i \in 1..Len(deque[w]) :
                    p = <<"deque", w, i>> /\ deque[w][i] = k
AtTook(k, p)  == \E t \in PoolThreads : p = <<"took", t, 0>> /\ took[t] = k
AtStack(k, p) == \E t \in PoolThreads : \E i \in 1..Len(stack[t]) :
                    p = <<"stack", t, i>> /\ stack[t][i].op \in TaskOps /\ Key(stack[t][i]) = k
At(k, p) == AtDeque(k, p) \/ AtTook(k, p) \/ AtStack(k, p)

\* Task k has run and its frame is still there.
Finishing(k) == \E t \in PoolThreads : \E i \in 1..Len(stack[t]) :
                  stack[t][i].op = "finish" /\ Key(stack[t][i]) = k

\* A task is in one place at most, has run only if it is finishing or gone, and
\* belongs to a job in progress.
TaskInv ==
  /\ \A k \in Tasks : \A p, q : At(k, p) /\ At(k, q) => p = q
  /\ \A k \in Tasks : ran[k] = 0 \/ ran[k] = 1
  /\ \A k \in Tasks : Finishing(k) => ran[k] = 1
  /\ \A k \in Tasks : \A p : At(k, p) /\ ~Finishing(k) => ran[k] = 0
  /\ \A k \in Tasks : \A p : At(k, p) => k[1] \in called \ returned
  /\ \A k \in Tasks : k[1] \in returned => ran[k] = 1

Untouched(k) == ran[k] = 0 /\ \A p : ~At(k, p)

\* One parallelFor frame per job in progress; what it has not pushed is untouched.
OneCall ==
  \A t, u \in PoolThreads : \A i \in 1..Len(stack[t]), m \in 1..Len(stack[u]) :
    stack[t][i].op \in ForOps /\ stack[u][m].op \in ForOps /\ stack[t][i].job = stack[u][m].job
      => t = u /\ i = m
CallsOpen ==
  \A t \in PoolThreads : \A i \in 1..Len(stack[t]) :
    stack[t][i].op \in ForOps => stack[t][i].job \in called \ returned
Ahead ==
  \A t \in PoolThreads : \A i \in 1..Len(stack[t]) : \A k \in Tasks :
    /\ k[1] = stack[t][i].job
    /\ \/ stack[t][i].op = "push" /\ k[2] >= stack[t][i].chunk
       \/ stack[t][i].op = "counted" /\ k[2] > stack[t][i].chunk
    => Untouched(k)
Uncalled == \A k \in Tasks : k[1] \notin called => Untouched(k)
ForInv == OneCall /\ CallsOpen /\ Ahead /\ Uncalled

\* The completion counter of a job counts the chunks that are not done.
Unfinished(j) == {c \in 0..(NChunks[j] - 1) : ran[<<j, c>>] = 0 \/ Finishing(<<j, c>>)}
LeftInv == \A j \in Jobs : left[j] = Cardinality(Unfinished(j))

PendingInv ==
  /\ IsFiniteSet(Queued) /\ IsFiniteSet(Counting) /\ IsFiniteSet(Taking)
  /\ pending = Cardinality(Queued) - Cardinality(Counting) + Cardinality(Taking)

PoolInv == PoolTypes /\ StackInv /\ TaskInv /\ ForInv /\ LeftInv /\ PendingInv

-----------------------------------------------------------------------------
(* Frames and stacks *)

\* What the assumption says of the constants.
LEMMA PoolFacts ==
  /\ NWorkers \in Nat /\ NWorkers > 0
  /\ \A j \in Jobs : NChunks[j] \in Nat /\ NChunks[j] >= 2
  /\ \A j \in DOMAIN CallerOf : CallerOf[j] \in PoolThreads /\ CallerOf[j] \notin Workers
  /\ \A t \in PoolThreads : Self(t) \in Workers
BY PoolAssumption DEF PoolAssumption, PoolThreads, Workers, Self

\* A task is a job and one of its chunks.
LEMMA TaskParts ==
  ASSUME NEW k
  PROVE  k \in Tasks <=> \E j \in Jobs : \E c \in 0..(NChunks[j] - 1) : k = <<j, c>>
BY DEF Tasks

\* A frame's key is a task, and a frame stays one when its op changes.
LEMMA FrameFacts ==
  ASSUME NEW f \in Frame
  PROVE  /\ Key(f) \in Tasks /\ Key(f)[1] = f.job /\ Key(f)[2] = f.chunk
         /\ f.job \in Jobs /\ f.chunk \in Nat /\ f.chunk < NChunks[f.job]
         /\ \A o \in ForOps \cup TaskOps :
              /\ [f EXCEPT !.op = o] \in Frame
              /\ [f EXCEPT !.op = o].op = o
              /\ [f EXCEPT !.op = o].job = f.job
              /\ [f EXCEPT !.op = o].chunk = f.chunk
<1>1. /\ f.job \in Jobs /\ f.chunk \in Nat /\ f.chunk < NChunks[f.job]
      /\ f \in [op : ForOps \cup TaskOps, job : Jobs, chunk : Nat]
  BY DEF Frame
<1>2. NChunks[f.job] \in Nat
  BY <1>1, PoolFacts
<1>3. f.chunk \in 0..(NChunks[f.job] - 1)
  BY <1>1, <1>2
<1>4. Key(f) \in Tasks /\ Key(f)[1] = f.job /\ Key(f)[2] = f.chunk
  BY <1>1, <1>3, TaskParts DEF Key
<1>5. ASSUME NEW o \in ForOps \cup TaskOps
      PROVE  /\ [f EXCEPT !.op = o] \in Frame
             /\ [f EXCEPT !.op = o].op = o
             /\ [f EXCEPT !.op = o].job = f.job
             /\ [f EXCEPT !.op = o].chunk = f.chunk
  BY <1>1 DEF Frame
<1> QED BY <1>1, <1>4, <1>5

\* The frames a call and a task begin with.
LEMMA NewFrames ==
  /\ \A j \in Jobs : /\ ForFrame(j) \in Frame /\ ForFrame(j).op = "push"
                     /\ ForFrame(j).job = j /\ ForFrame(j).chunk = 0
  /\ \A k \in Tasks : /\ TaskFrame(k) \in Frame /\ TaskFrame(k).op = "body"
                      /\ Key(TaskFrame(k)) = k
<1>1. ASSUME NEW j \in Jobs
      PROVE  /\ ForFrame(j) \in Frame /\ ForFrame(j).op = "push"
             /\ ForFrame(j).job = j /\ ForFrame(j).chunk = 0
  <2>1. NChunks[j] \in Nat /\ 0 < NChunks[j]
    BY PoolFacts
  <2> QED BY <2>1 DEF ForFrame, Frame, ForOps, TaskOps
<1>2. ASSUME NEW k \in Tasks
      PROVE  /\ TaskFrame(k) \in Frame /\ TaskFrame(k).op = "body" /\ Key(TaskFrame(k)) = k
  <2>1. PICK j \in Jobs : \E c \in 0..(NChunks[j] - 1) : k = <<j, c>>
    BY TaskParts
  <2>5. PICK c \in 0..(NChunks[j] - 1) : k = <<j, c>>
    BY <2>1
  <2>2. NChunks[j] \in Nat
    BY PoolFacts
  <2>3. c \in Nat /\ c < NChunks[j]
    BY <2>2
  <2>4. TaskFrame(k) = [op |-> "body", job |-> j, chunk |-> c]
    BY <2>5 DEF TaskFrame
  <2> QED BY <2>5, <2>3, <2>4 DEF Frame, ForOps, TaskOps, Key
<1> QED BY <1>1, <1>2

\* What is left of a sequence without its last element.
LEMMA FrontAt ==
  ASSUME NEW T, NEW s \in Seq(T), s # <<>>
  PROVE  /\ Len(s) \in Nat /\ Len(s) > 0 /\ s[Len(s)] \in T
         /\ Front(s) \in Seq(T) /\ Len(Front(s)) = Len(s) - 1
         /\ \A i \in 1..(Len(s) - 1) : Front(s)[i] = s[i]
         /\ Last(s) = s[Len(s)]
<1>1. PICK n \in Nat : n = Len(s)
  OBVIOUS
<1>2. n > 0 /\ s[n] \in T
  BY <1>1
<1>3. Front(s) = SubSeq(s, 1, n - 1) /\ Last(s) = s[n]
  BY <1>1 DEF Front, Last
<1>4. \A i \in 1..(n - 1) : s[i] \in T
  BY <1>1
<1>5. /\ SubSeq(s, 1, n - 1) \in Seq(T) /\ Len(SubSeq(s, 1, n - 1)) = n - 1
      /\ \A i \in 1..(n - 1) : SubSeq(s, 1, n - 1)[i] = s[i]
  BY <1>1, <1>2, <1>4
<1> QED BY <1>1, <1>2, <1>3, <1>5

\* The top of a stack replaced, and one frame more.
LEMMA SetTopAt ==
  ASSUME NEW s \in Seq(Frame), s # <<>>, NEW f \in Frame
  PROVE  /\ Append(Front(s), f) \in Seq(Frame)
         /\ Len(Append(Front(s), f)) = Len(s)
         /\ \A i \in 1..(Len(s) - 1) : Append(Front(s), f)[i] = s[i]
         /\ Append(Front(s), f)[Len(s)] = f
<1>1. PICK r \in Seq(Frame) : r = Front(s)
  BY FrontAt
<1>2. Len(s) \in Nat /\ Len(s) > 0 /\ Len(r) = Len(s) - 1
      /\ \A i \in 1..(Len(s) - 1) : r[i] = s[i]
  BY <1>1, FrontAt
<1>3. /\ Append(r, f) \in Seq(Frame) /\ Len(Append(r, f)) = Len(r) + 1
      /\ \A i \in 1..Len(r) : Append(r, f)[i] = r[i]
      /\ Append(r, f)[Len(r) + 1] = f
  OBVIOUS
<1> QED BY <1>1, <1>2, <1>3

-----------------------------------------------------------------------------
(* What a step may do to the stacks without disturbing the invariant *)

\* The frames of tasks, of finishing tasks and of calls in S are in S2 as well.
TasksWithin(S, S2) ==
  \A t \in PoolThreads : \A i \in 1..Len(S[t]) :
    S[t][i].op \in TaskOps =>
      i \in 1..Len(S2[t]) /\ S2[t][i].op \in TaskOps /\ Key(S2[t][i]) = Key(S[t][i])
FinishWithin(S, S2) ==
  \A t \in PoolThreads : \A i \in 1..Len(S[t]) :
    S[t][i].op = "finish" =>
      i \in 1..Len(S2[t]) /\ S2[t][i].op = "finish" /\ Key(S2[t][i]) = Key(S[t][i])
CallsWithin(S, S2) ==
  \A t \in PoolThreads : \A i \in 1..Len(S[t]) :
    S[t][i].op \in ForOps => i \in 1..Len(S2[t]) /\ S2[t][i] = S[t][i]

\* No task gets a place, and a task that had none and had not run stays so.
NoneNew == \A k \in Tasks : \A p : At(k, p)' => \E q : At(k, q)
OnePlace == \A k \in Tasks : \A p, q : At(k, p) /\ At(k, q) => p = q
FinishSame == \A k \in Tasks : Finishing(k)' <=> Finishing(k)

\* With deques and hands as they were, a task is nowhere it was not before.
LEMMA AtKeeps ==
  ASSUME deque' = deque, took' = took, TasksWithin(stack', stack)
  PROVE  \A k, p : At(k, p)' => At(k, p)
<1> SUFFICES ASSUME NEW k, NEW p, At(k, p)' PROVE At(k, p)
  OBVIOUS
<1>1. AtDeque(k, p)' => AtDeque(k, p)
  BY DEF AtDeque
<1>2. AtTook(k, p)' => AtTook(k, p)
  BY DEF AtTook
<1>3. ASSUME AtStack(k, p)' PROVE AtStack(k, p)
  <2>1. PICK t \in PoolThreads : \E i \in 1..Len(stack'[t]) :
          p = <<"stack", t, i>> /\ stack'[t][i].op \in TaskOps /\ Key(stack'[t][i]) = k
    BY <1>3 DEF AtStack, Key
  <2>2. PICK i \in 1..Len(stack'[t]) :
          p = <<"stack", t, i>> /\ stack'[t][i].op \in TaskOps /\ Key(stack'[t][i]) = k
    BY <2>1
  <2>3. i \in 1..Len(stack[t]) /\ stack[t][i].op \in TaskOps /\ Key(stack[t][i]) = k
    BY <2>2 DEF TasksWithin
  <2> QED BY <2>2, <2>3 DEF AtStack
<1> QED BY <1>1, <1>2, <1>3 DEF At

\* The tasks being finished are the same when the finish frames are.
LEMMA FinishKeeps ==
  ASSUME FinishWithin(stack', stack), FinishWithin(stack, stack')
  PROVE  FinishSame
BY DEF FinishWithin, Finishing, FinishSame, Key

\* The places only move: the invariant of the tasks is kept.
LEMMA TasksKeep ==
  ASSUME TaskInv, NoneNew, OnePlace', FinishSame,
         ran' = ran, returned' = returned, called \subseteq called'
  PROVE  TaskInv'
<1>1. \A k \in Tasks : Finishing(k)' => ran'[k] = 1
  BY DEF TaskInv, FinishSame
<1>2. ASSUME NEW k \in Tasks, NEW p, At(k, p)'
      PROVE  (~Finishing(k)' => ran'[k] = 0) /\ k[1] \in called' \ returned'
  <2>1. PICK q : At(k, q)
    BY <1>2 DEF NoneNew
  <2> QED BY <2>1 DEF TaskInv, FinishSame
<1>3. \A k \in Tasks : (ran'[k] = 0 \/ ran'[k] = 1) /\ (k[1] \in returned' => ran'[k] = 1)
  BY DEF TaskInv
<1> QED BY <1>1, <1>2, <1>3 DEF TaskInv, OnePlace

\* No new call: the invariant of the calls is kept.
LEMMA CallsKeep ==
  ASSUME ForInv, CallsWithin(stack', stack), called' = called, returned' = returned,
         \A k \in Tasks : Untouched(k) => Untouched(k)'
  PROVE  ForInv'
<1>1. ASSUME NEW t \in PoolThreads, NEW u \in PoolThreads,
             NEW i \in 1..Len(stack'[t]), NEW m \in 1..Len(stack'[u]),
             stack'[t][i].op \in ForOps, stack'[u][m].op \in ForOps,
             stack'[t][i].job = stack'[u][m].job
      PROVE  t = u /\ i = m
  <2>1. i \in 1..Len(stack[t]) /\ stack[t][i] = stack'[t][i]
    BY <1>1 DEF CallsWithin
  <2>2. m \in 1..Len(stack[u]) /\ stack[u][m] = stack'[u][m]
    BY <1>1 DEF CallsWithin
  <2> QED BY <1>1, <2>1, <2>2 DEF ForInv, OneCall
<1>2. ASSUME NEW t \in PoolThreads, NEW i \in 1..Len(stack'[t]), stack'[t][i].op \in ForOps
      PROVE  /\ stack'[t][i].job \in called' \ returned'
             /\ \A k \in Tasks :
                 /\ k[1] = stack'[t][i].job
                 /\ \/ stack'[t][i].op = "push" /\ k[2] >= stack'[t][i].chunk
                    \/ stack'[t][i].op = "counted" /\ k[2] > stack'[t][i].chunk
                 => Untouched(k)'
  <2>1. i \in 1..Len(stack[t]) /\ stack[t][i] = stack'[t][i]
    BY <1>2 DEF CallsWithin
  <2> QED BY <1>2, <2>1 DEF ForInv, CallsOpen, Ahead
<1>3. \A k \in Tasks : k[1] \notin called' => Untouched(k)'
  BY DEF ForInv, Uncalled
<1> QED BY <1>1, <1>2, <1>3 DEF ForInv, OneCall, CallsOpen, Ahead, Uncalled, ForOps

\* A task without a place stays without one.
LEMMA UntouchedKeeps ==
  ASSUME NoneNew, ran' = ran
  PROVE  \A k \in Tasks : Untouched(k) => Untouched(k)'
BY DEF NoneNew, Untouched

\* The completion counters count the same chunks.
LEMMA LeftKeeps ==
  ASSUME LeftInv, FinishSame, ran' = ran, left' = left
  PROVE  LeftInv'
<1>1. ASSUME NEW j \in Jobs PROVE Unfinished(j)' = Unfinished(j)
  <2>1. \A c \in 0..(NChunks[j] - 1) : <<j, c>> \in Tasks
    BY TaskParts
  <2> QED BY <2>1 DEF Unfinished, FinishSame
<1> QED BY <1>1 DEF LeftInv

-----------------------------------------------------------------------------
(* The three ways a stack changes *)

Others(t) == stack' \in [PoolThreads -> Seq(Frame)] /\ \A u \in PoolThreads \ {t} : stack'[u] = stack[u]

Replaced(t, n, f) ==
  /\ Others(t) /\ n \in Nat /\ n > 0 /\ Len(stack[t]) = n /\ Len(stack'[t]) = n
  /\ \A i \in 1..(n - 1) : stack'[t][i] = stack[t][i]
  /\ stack'[t][n] = f
Pushed(t, n, f) ==
  /\ Others(t) /\ n \in Nat /\ Len(stack[t]) = n /\ Len(stack'[t]) = n + 1
  /\ \A i \in 1..n : stack'[t][i] = stack[t][i]
  /\ stack'[t][n + 1] = f
Popped(t, n) ==
  /\ Others(t) /\ n \in Nat /\ n > 0 /\ Len(stack[t]) = n /\ Len(stack'[t]) = n - 1
  /\ \A i \in 1..(n - 1) : stack'[t][i] = stack[t][i]

\* The top frame is the last one.
TopIs(t, n, f) == /\ n \in Nat /\ n > 0 /\ Len(stack[t]) = n /\ stack[t][n] = f /\ f \in Frame
                  /\ Top(t) = f /\ stack[t] # <<>>

\* A stack that is not empty has a top frame.
LEMMA TopFrame ==
  ASSUME PoolTypes, NEW t \in PoolThreads, stack[t] # <<>>
  PROVE  \E n \in Nat, f \in Frame : TopIs(t, n, f)
<1>1. stack[t] \in Seq(Frame)
  BY DEF PoolTypes
<1>2. TopIs(t, Len(stack[t]), stack[t][Len(stack[t])])
  BY <1>1, FrontAt DEF TopIs, Top
<1> QED BY <1>1, <1>2, FrontAt

\* Which operation the top frame is of.
LEMMA IsTopAt ==
  ASSUME PoolTypes, NEW t \in PoolThreads, NEW o
  PROVE  IsTop(t, o) <=> /\ Len(stack[t]) \in Nat /\ Len(stack[t]) > 0
                         /\ stack[t][Len(stack[t])].op = o
<1>1. stack[t] \in Seq(Frame)
  BY DEF PoolTypes
<1>2. Len(stack[t]) \in Nat /\ (stack[t] = <<>> <=> Len(stack[t]) = 0)
  BY <1>1
<1> QED BY <1>2 DEF IsTop, Top, Last

\* SetTop exchanges the top frame.
LEMMA SetTopReplaces ==
  ASSUME PoolTypes, NEW t \in PoolThreads, NEW n, NEW f, TopIs(t, n, f), NEW g \in Frame, SetTop(t, g)
  PROVE  Replaced(t, n, g)
<1>1. stack[t] \in Seq(Frame) /\ stack[t] # <<>> /\ Len(stack[t]) = n /\ n \in Nat /\ n > 0
  BY DEF PoolTypes, TopIs
<1>2. stack' = [stack EXCEPT ![t] = Append(Front(stack[t]), g)]
  BY DEF SetTop
<1>3. stack'[t] = Append(Front(stack[t]), g)
  BY <1>2 DEF PoolTypes
<1>4. Others(t)
  BY <1>1, <1>2, SetTopAt DEF Others, PoolTypes
<1> QED BY <1>1, <1>3, <1>4, SetTopAt DEF Replaced

\* A call puts a frame on top.
LEMMA AppendPushes ==
  ASSUME PoolTypes, NEW t \in PoolThreads, NEW g \in Frame,
         stack' = [stack EXCEPT ![t] = Append(stack[t], g)]
  PROVE  \E n \in Nat : Pushed(t, n, g)
<1>1. PICK s \in Seq(Frame) : s = stack[t]
  BY DEF PoolTypes
<1>2. /\ Append(s, g) \in Seq(Frame) /\ Len(s) \in Nat /\ Len(Append(s, g)) = Len(s) + 1
      /\ \A i \in 1..Len(s) : Append(s, g)[i] = s[i]
      /\ Append(s, g)[Len(s) + 1] = g
  OBVIOUS
<1>3. stack'[t] = Append(s, g)
  BY <1>1 DEF PoolTypes
<1>4. Others(t)
  BY <1>1, <1>2 DEF Others, PoolTypes
<1>5. Pushed(t, Len(s), g)
  BY <1>1, <1>2, <1>3, <1>4 DEF Pushed
<1> QED BY <1>2, <1>5

\* A return takes the top frame away.
LEMMA FrontPops ==
  ASSUME PoolTypes, NEW t \in PoolThreads, NEW n, NEW f, TopIs(t, n, f),
         stack' = [stack EXCEPT ![t] = Front(stack[t])]
  PROVE  Popped(t, n)
<1>1. stack[t] \in Seq(Frame) /\ stack[t] # <<>> /\ Len(stack[t]) = n /\ n \in Nat /\ n > 0
  BY DEF PoolTypes, TopIs
<1>2. stack'[t] = Front(stack[t])
  BY DEF PoolTypes
<1>3. Others(t)
  BY <1>1, FrontAt DEF Others, PoolTypes
<1> QED BY <1>1, <1>2, <1>3, FrontAt DEF Popped

\* A top frame replaced by one of the same kind, for the same task.
LEMMA ReplacedTasks ==
  ASSUME PoolTypes, NEW t \in PoolThreads, NEW n, NEW f, NEW g, TopIs(t, n, f), Replaced(t, n, g),
         f.op \in TaskOps <=> g.op \in TaskOps, Key(f) = Key(g)
  PROVE  TasksWithin(stack', stack)
<1> SUFFICES ASSUME NEW u \in PoolThreads, NEW i \in 1..Len(stack'[u]), stack'[u][i].op \in TaskOps
             PROVE  i \in 1..Len(stack[u]) /\ stack[u][i].op \in TaskOps /\ Key(stack[u][i]) = Key(stack'[u][i])
  BY DEF TasksWithin
<1>1. CASE u # t
  BY <1>1 DEF Replaced, Others
<1>2. CASE u = t /\ i # n
  BY <1>2 DEF Replaced
<1>3. CASE u = t /\ i = n
  BY <1>3 DEF Replaced, TopIs
<1> QED BY <1>1, <1>2, <1>3

\* Exchanging two frames that are not finish frames.
LEMMA ReplacedFinish ==
  ASSUME PoolTypes, NEW t \in PoolThreads, NEW n, NEW f, NEW g, TopIs(t, n, f), Replaced(t, n, g),
         f.op # "finish", g.op # "finish"
  PROVE  FinishSame
<1>1. ASSUME NEW u \in PoolThreads, NEW i \in 1..Len(stack'[u]), stack'[u][i].op = "finish"
      PROVE  i \in 1..Len(stack[u]) /\ stack[u][i] = stack'[u][i]
  <2>1. CASE u # t
    BY <2>1 DEF Replaced, Others
  <2>2. CASE u = t /\ i # n
    BY <2>2 DEF Replaced
  <2>3. CASE u = t /\ i = n
    BY <1>1, <2>3 DEF Replaced
  <2> QED BY <2>1, <2>2, <2>3
<1>2. ASSUME NEW u \in PoolThreads, NEW i \in 1..Len(stack[u]), stack[u][i].op = "finish"
      PROVE  i \in 1..Len(stack'[u]) /\ stack'[u][i] = stack[u][i]
  <2>1. CASE u # t
    BY <2>1 DEF Replaced, Others
  <2>2. CASE u = t /\ i # n
    BY <2>2 DEF Replaced
  <2>3. CASE u = t /\ i = n
    BY <1>2, <2>3 DEF TopIs
  <2> QED BY <2>1, <2>2, <2>3
<1>3. FinishWithin(stack', stack)
  BY <1>1 DEF FinishWithin
<1>4. FinishWithin(stack, stack')
  BY <1>2 DEF FinishWithin
<1> QED BY <1>3, <1>4, FinishKeeps

\* A pushed frame that is not of a task, and one that is not finishing.
LEMMA PushedTasks ==
  ASSUME PoolTypes, NEW t \in PoolThreads, NEW n, NEW g, Pushed(t, n, g), g.op \notin TaskOps
  PROVE  TasksWithin(stack', stack)
<1> SUFFICES ASSUME NEW u \in PoolThreads, NEW i \in 1..Len(stack'[u]), stack'[u][i].op \in TaskOps
             PROVE  i \in 1..Len(stack[u]) /\ stack[u][i] = stack'[u][i]
  BY DEF TasksWithin
<1>1. CASE u # t
  BY <1>1 DEF Pushed, Others
<1>2. CASE u = t
  BY <1>2 DEF Pushed
<1> QED BY <1>1, <1>2

\* Pushing a frame that is not a finish frame.
LEMMA PushedFinish ==
  ASSUME PoolTypes, NEW t \in PoolThreads, NEW n, NEW g, Pushed(t, n, g), g.op # "finish"
  PROVE  FinishSame
<1>1. ASSUME NEW u \in PoolThreads, NEW i \in 1..Len(stack'[u]), stack'[u][i].op = "finish"
      PROVE  i \in 1..Len(stack[u]) /\ stack[u][i] = stack'[u][i]
  <2>1. CASE u # t
    BY <2>1 DEF Pushed, Others
  <2>2. CASE u = t
    BY <1>1, <2>2 DEF Pushed
  <2> QED BY <2>1, <2>2
<1>2. ASSUME NEW u \in PoolThreads, NEW i \in 1..Len(stack[u]), stack[u][i].op = "finish"
      PROVE  i \in 1..Len(stack'[u]) /\ stack'[u][i] = stack[u][i]
  <2>1. CASE u # t
    BY <2>1 DEF Pushed, Others
  <2>2. CASE u = t
    BY <2>2 DEF Pushed
  <2> QED BY <2>1, <2>2
<1>3. FinishWithin(stack', stack)
  BY <1>1 DEF FinishWithin
<1>4. FinishWithin(stack, stack')
  BY <1>2 DEF FinishWithin
<1> QED BY <1>3, <1>4, FinishKeeps

\* A popped frame leaves only what was there.
LEMMA PoppedFrames ==
  ASSUME PoolTypes, NEW t \in PoolThreads, NEW n, Popped(t, n),
         NEW u \in PoolThreads, NEW i \in 1..Len(stack'[u])
  PROVE  i \in 1..Len(stack[u]) /\ stack[u][i] = stack'[u][i]
<1>1. CASE u # t
  BY <1>1 DEF Popped, Others
<1>2. CASE u = t
  BY <1>2 DEF Popped
<1> QED BY <1>1, <1>2

-----------------------------------------------------------------------------
(* What the rest of the invariant needs of a step *)

\* A thread whose top frame is not a join looks for no task and has none.
LEMMA NotScanning ==
  ASSUME StackInv, NEW t \in PoolThreads, NEW n, NEW f, TopIs(t, n, f), f.op # "join"
  PROVE  ~(scan[t] >= 0) /\ took[t] = <<>>
BY DEF StackInv, TopIs, IsTop

\* The frames below the top wait for the ones above.
LEMMA BelowTop ==
  ASSUME StackInv, NEW t \in PoolThreads, NEW n \in Nat, Len(stack[t]) = n,
         \A i \in 1..(n - 1) : stack'[t][i] = stack[t][i]
  PROVE  \A i \in 1..(n - 1) : stack'[t][i].op \in {"join", "count"}
BY DEF StackInv

\* The frames below the top of one stack, which is not looking for a task.
LEMMA StackKeeps ==
  ASSUME StackInv, NEW t \in PoolThreads, Others(t),
         \A u \in PoolThreads \ {t} : scan'[u] = scan[u] /\ took'[u] = took[u],
         ~(scan'[t] >= 0), took'[t] = <<>>,
         \A i \in 1..(Len(stack'[t]) - 1) : stack'[t][i].op \in {"join", "count"}
  PROVE  StackInv'
<1> SUFFICES ASSUME NEW u \in PoolThreads
             PROVE  /\ \A i \in 1..(Len(stack'[u]) - 1) : stack'[u][i].op \in {"join", "count"}
                    /\ took'[u] # <<>> => scan'[u] >= 0
                    /\ scan'[u] >= 0 => IsTop(u, "join")' \/ (stack'[u] = <<>> /\ u \in Workers)
  BY DEF StackInv
<1>1. CASE u = t
  BY <1>1
<1>2. CASE u # t
  <2>1. stack'[u] = stack[u] /\ scan'[u] = scan[u] /\ took'[u] = took[u]
    BY <1>2 DEF Others
  <2>2. IsTop(u, "join")' <=> IsTop(u, "join")
    BY <2>1 DEF IsTop, Top
  <2> QED BY <2>1, <2>2 DEF StackInv
<1> QED BY <1>1, <1>2

\* Places only disappear.
LEMMA PlacesKeep ==
  ASSUME TaskInv, \A k, p : At(k, p)' => At(k, p)
  PROVE  NoneNew /\ OnePlace'
BY DEF TaskInv, NoneNew, OnePlace

\* The pushes not yet counted, when one stack changes.
LEMMA CountingOthers ==
  ASSUME NEW t \in PoolThreads, Others(t)
  PROVE  \A u \in PoolThreads \ {t} : u \in Counting' <=> u \in Counting
BY DEF Others, Counting, IsTop, Top

\* No one starts or ends counting a push.
LEMMA CountingKeeps ==
  ASSUME NEW t \in PoolThreads, Others(t), ~IsTop(t, "counted"), ~IsTop(t, "counted")'
  PROVE  Counting' = Counting
<1>1. t \notin Counting /\ t \notin Counting'
  BY DEF Counting
<1>2. Counting \subseteq PoolThreads /\ Counting' \subseteq PoolThreads
  BY DEF Counting
<1> QED BY <1>1, <1>2, CountingOthers

\* pending_ stays exact when what it counts stays.
LEMMA PendingKeeps ==
  ASSUME PendingInv, deque' = deque, took' = took, Counting' = Counting, pending' = pending
  PROVE  PendingInv'
BY DEF PendingInv, Queued, Taking

-----------------------------------------------------------------------------
(* The steps *)

\* What changes nothing but scan, stop and exited.
LEMMA SearchStep ==
  ASSUME PoolInv, UNCHANGED <<deque, pending, left, stack, took, ran, called, returned>>,
         scan' \in [PoolThreads -> Int],
         \A t \in PoolThreads :
           /\ took[t] # <<>> => scan'[t] >= 0
           /\ scan'[t] >= 0 => IsTop(t, "join") \/ (stack[t] = <<>> /\ t \in Workers)
  PROVE  PoolInv'
<1>1. PoolTypes'
  BY DEF PoolInv, PoolTypes
<1>2. StackInv'
  BY DEF PoolInv, StackInv, IsTop, Top
<1>3. \A k, p : At(k, p)' <=> At(k, p)
  BY DEF At, AtDeque, AtTook, AtStack, Key
<1>4. FinishSame
  BY DEF FinishSame, Finishing, Key
<1>5. NoneNew /\ OnePlace'
  BY <1>3, PlacesKeep DEF PoolInv
<1>6. TaskInv'
  BY <1>4, <1>5, TasksKeep DEF PoolInv
<1>7. ForInv'
  BY <1>5, UntouchedKeeps, CallsKeep DEF PoolInv, CallsWithin
<1>8. LeftInv'
  BY <1>4, LeftKeeps DEF PoolInv
<1>9. PendingInv'
  BY PendingKeeps DEF PoolInv, Counting, IsTop, Top
<1> QED BY <1>1, <1>2, <1>6, <1>7, <1>8, <1>9 DEF PoolInv

\* A worker starts to look for work, or leaves.
LEMMA WorkerLoopStep ==
  ASSUME PoolInv, NEW t \in PoolThreads, WorkerLoop(t)
  PROVE  PoolInv'
<1>1. UNCHANGED <<deque, pending, left, stack, took, ran, called, returned>>
  BY DEF WorkerLoop
<1>2. scan \in [PoolThreads -> Int] /\ t \in Workers /\ stack[t] = <<>>
  BY DEF PoolInv, PoolTypes, WorkerLoop
<1>3. scan' = scan \/ scan' = [scan EXCEPT ![t] = 0]
  BY DEF WorkerLoop
<1>4. scan' \in [PoolThreads -> Int] /\ \A u \in PoolThreads :
        scan'[u] = scan[u] \/ (u = t /\ scan'[u] = 0)
  BY <1>2, <1>3
<1>5. \A u \in PoolThreads :
        /\ took[u] # <<>> => scan'[u] >= 0
        /\ scan'[u] >= 0 => IsTop(u, "join") \/ (stack[u] = <<>> /\ u \in Workers)
  BY <1>2, <1>4 DEF PoolInv, StackInv
<1> QED BY <1>1, <1>4, <1>5, SearchStep

\* The destructor only sets the flag.
LEMMA DestroyStep == PoolInv /\ Destroy => PoolInv'
BY SearchStep DEF Destroy, PoolInv, PoolTypes, StackInv

\* Nothing changes.
LEMMA StutterStep == PoolInv /\ UNCHANGED poolVars => PoolInv'
BY SearchStep DEF poolVars, PoolInv, PoolTypes, StackInv

\* CountPush: the frame moves to the next chunk, or to the join.
LEMMA CountPushStep ==
  ASSUME PoolInv, NEW t \in PoolThreads, CountPush(t)
  PROVE  PoolInv'
<1>0. PoolTypes /\ StackInv /\ TaskInv /\ ForInv /\ LeftInv /\ PendingInv
  BY DEF PoolInv
<1>1. IsTop(t, "counted") /\ stack[t] # <<>>
  BY DEF CountPush, IsTop
<1>2. PICK n \in Nat, f \in Frame : TopIs(t, n, f)
  BY <1>0, <1>1, TopFrame
<1>3. f.op = "counted" /\ Top(t) = f
  BY <1>1, <1>2 DEF IsTop, TopIs
<1>4. PICK g : g = IF f.chunk + 1 < NChunks[f.job]
                   THEN [f EXCEPT !.op = "push", !.chunk = @ + 1]
                   ELSE [f EXCEPT !.op = "join"]
  OBVIOUS
<1>5. /\ g \in Frame /\ g.job = f.job
      /\ g.op = "join" \/ (g.op = "push" /\ g.chunk = f.chunk + 1)
  <2>0. /\ f \in [op : ForOps \cup TaskOps, job : Jobs, chunk : Nat] /\ f.job \in Jobs /\ f.chunk \in Nat
    BY DEF Frame
  <2>1. CASE f.chunk + 1 < NChunks[f.job]
    <3>1. g = [f EXCEPT !.op = "push", !.chunk = f.chunk + 1]
      BY <1>4, <2>1
    <3>2. g.job = f.job /\ g.op = "push" /\ g.chunk = f.chunk + 1
      BY <2>0, <3>1
    <3>4. "push" \in ForOps \cup TaskOps /\ f.chunk + 1 \in Nat
      BY <2>0 DEF ForOps
    <3>3. g \in [op : ForOps \cup TaskOps, job : Jobs, chunk : Nat]
      BY <2>0, <3>1, <3>4
    <3> QED BY <2>1, <3>2, <3>3 DEF Frame
  <2>2. CASE ~(f.chunk + 1 < NChunks[f.job])
    <3>1. g = [f EXCEPT !.op = "join"] /\ "join" \in ForOps \cup TaskOps
      BY <1>4, <2>2 DEF ForOps
    <3> QED BY <3>1, FrameFacts
  <2> QED BY <2>1, <2>2
<1>6. SetTop(t, g) /\ pending' = pending + 1
      /\ UNCHANGED <<deque, left, scan, took, ran, called, returned>>
  BY <1>3, <1>4 DEF CountPush
<1>7. Replaced(t, n, g)
  BY <1>0, <1>2, <1>5, <1>6, SetTopReplaces
<1>8. Others(t) /\ Len(stack[t]) = n /\ Len(stack'[t]) = n /\ stack'[t][n] = g /\ stack[t][n] = f /\ n > 0
  BY <1>2, <1>7 DEF Replaced, TopIs
<1>9. PoolTypes'
  BY <1>0, <1>6, <1>8 DEF PoolTypes, Others
<1>10. StackInv'
  <2>1. ~(scan[t] >= 0) /\ took[t] = <<>>
    BY <1>0, <1>2, <1>3, NotScanning
  <2>2. \A i \in 1..(Len(stack'[t]) - 1) : stack'[t][i].op \in {"join", "count"}
    BY <1>0, <1>7, <1>8, BelowTop DEF Replaced
  <2> QED BY <1>0, <1>6, <1>8, <2>1, <2>2, StackKeeps
<1>11. FinishSame
  BY <1>0, <1>2, <1>3, <1>5, <1>7, ReplacedFinish
<1>12. TasksWithin(stack', stack)
  <2> SUFFICES ASSUME NEW u \in PoolThreads, NEW i \in 1..Len(stack'[u]), stack'[u][i].op \in TaskOps
               PROVE  i \in 1..Len(stack[u]) /\ stack[u][i] = stack'[u][i]
    BY DEF TasksWithin
  <2>1. CASE u # t
    BY <2>1, <1>8 DEF Others
  <2>2. CASE u = t
    BY <2>2, <1>5, <1>7, <1>8 DEF Replaced, TaskOps
  <2> QED BY <2>1, <2>2
<1>13. NoneNew /\ OnePlace'
  BY <1>0, <1>6, <1>12, AtKeeps, PlacesKeep
<1>14. TaskInv'
  BY <1>0, <1>6, <1>11, <1>13, TasksKeep
<1>15. LeftInv'
  BY <1>0, <1>6, <1>11, LeftKeeps
<1>16. ForInv'
  <2>1. \A k \in Tasks : Untouched(k) => Untouched(k)'
    BY <1>6, <1>13, UntouchedKeeps
  <2>2. ASSUME NEW u \in PoolThreads, NEW i \in 1..Len(stack'[u]), stack'[u][i].op \in ForOps
        PROVE  /\ i \in 1..Len(stack[u]) /\ stack[u][i].op \in ForOps
               /\ stack[u][i].job = stack'[u][i].job
               /\ stack'[u][i] = stack[u][i] \/ (u = t /\ i = n)
    <3>1. CASE u # t
      BY <2>2, <3>1, <1>8 DEF Others
    <3>2. CASE u = t /\ i # n
      BY <2>2, <3>2, <1>7, <1>8 DEF Replaced
    <3>3. CASE u = t /\ i = n
      BY <3>3, <1>3, <1>5, <1>8 DEF ForOps
    <3> QED BY <3>1, <3>2, <3>3
  <2>3. ASSUME NEW u \in PoolThreads, NEW v \in PoolThreads,
               NEW i \in 1..Len(stack'[u]), NEW m \in 1..Len(stack'[v]),
               stack'[u][i].op \in ForOps, stack'[v][m].op \in ForOps,
               stack'[u][i].job = stack'[v][m].job
        PROVE  u = v /\ i = m
    BY <1>0, <2>2, <2>3 DEF ForInv, OneCall
  <2>4. ASSUME NEW u \in PoolThreads, NEW i \in 1..Len(stack'[u]), stack'[u][i].op \in ForOps
        PROVE  stack'[u][i].job \in called' \ returned'
    BY <1>0, <1>6, <2>2, <2>4 DEF ForInv, CallsOpen
  <2>5. ASSUME NEW u \in PoolThreads, NEW i \in 1..Len(stack'[u]), NEW k \in Tasks,
               k[1] = stack'[u][i].job,
               \/ stack'[u][i].op = "push" /\ k[2] >= stack'[u][i].chunk
               \/ stack'[u][i].op = "counted" /\ k[2] > stack'[u][i].chunk
        PROVE  Untouched(k)'
    <3>0. stack'[u][i].op \in ForOps
      BY <2>5 DEF ForOps
    <3>1. CASE stack'[u][i] = stack[u][i]
      BY <1>0, <2>1, <2>2, <2>5, <3>0, <3>1 DEF ForInv, Ahead
    <3>2. CASE u = t /\ i = n
      <4>1. k[1] = f.job /\ k[2] >= f.chunk + 1
        BY <2>5, <3>2, <1>5, <1>8
      <4>2. f.chunk \in Nat /\ k[2] \in Int
        <5>1. PICK j \in Jobs : \E c \in 0..(NChunks[j] - 1) : k = <<j, c>>
          BY TaskParts
        <5> QED BY <5>1, FrameFacts
      <4>3. k[2] > f.chunk
        BY <4>1, <4>2
      <4> QED BY <1>0, <1>3, <1>8, <2>1, <3>2, <4>1, <4>3 DEF ForInv, Ahead
    <3> QED BY <2>2, <3>0, <3>1, <3>2
  <2>6. \A k \in Tasks : k[1] \notin called' => Untouched(k)'
    BY <1>0, <1>6, <2>1 DEF ForInv, Uncalled
  <2> QED BY <2>3, <2>4, <2>5, <2>6 DEF ForInv, OneCall, CallsOpen, Ahead, Uncalled
<1>17. PendingInv'
  <2>1. Counting' = Counting \ {t}
    <3>1. t \notin Counting'
      BY <1>5, <1>8, <1>9 DEF Counting, IsTop, Top, Last
    <3>2. Counting \subseteq PoolThreads /\ Counting' \subseteq PoolThreads
      BY DEF Counting
    <3> QED BY <1>8, <3>1, <3>2, CountingOthers
  <2>2. t \in Counting
    BY <1>1 DEF Counting
  <2>3. Queued' = Queued /\ Taking' = Taking
    BY <1>6 DEF Queued, Taking
  <2>4. IsFiniteSet(Queued) /\ IsFiniteSet(Counting) /\ IsFiniteSet(Taking)
    BY <1>0 DEF PendingInv
  <2>5. /\ Cardinality(Queued) \in Nat /\ Cardinality(Counting) \in Nat /\ Cardinality(Taking) \in Nat
        /\ IsFiniteSet(Counting \ {t}) /\ Cardinality(Counting \ {t}) = Cardinality(Counting) - 1
    BY <2>2, <2>4, FS_CardinalityType, FS_RemoveElement
  <2>6. pending = Cardinality(Queued) - Cardinality(Counting) + Cardinality(Taking)
    BY <1>0 DEF PendingInv
  <2>7. pending' = Cardinality(Queued') - Cardinality(Counting') + Cardinality(Taking')
    BY <1>6, <2>1, <2>3, <2>5, <2>6
  <2> QED BY <2>1, <2>3, <2>4, <2>5, <2>7 DEF PendingInv
<1> QED BY <1>9, <1>10, <1>14, <1>15, <1>16, <1>17 DEF PoolInv

\* Join: the job is done, so its tasks have all run and are gone.
LEMMA AllDone ==
  ASSUME PoolInv, NEW j \in Jobs, ~(left[j] > 0), NEW k \in Tasks, k[1] = j
  PROVE  ran[k] = 1 /\ ~Finishing(k) /\ \A p : ~At(k, p)
<1>1. PICK c \in 0..(NChunks[j] - 1) : k = <<j, c>>
  <2>1. PICK j0 \in Jobs : \E c \in 0..(NChunks[j0] - 1) : k = <<j0, c>>
    BY TaskParts
  <2> QED BY <2>1
<1>0. NChunks[j] - 1 \in Int
  BY PoolFacts
<1>2. IsFiniteSet(0..(NChunks[j] - 1)) /\ Unfinished(j) \subseteq 0..(NChunks[j] - 1)
  BY <1>0, FS_Interval DEF Unfinished
<1>3. IsFiniteSet(Unfinished(j))
  BY <1>2, FS_Subset
<1>4. Cardinality(Unfinished(j)) = 0
  BY <1>3, FS_CardinalityType DEF PoolInv, LeftInv
<1>5. Unfinished(j) = {}
  BY <1>3, <1>4, FS_EmptySet
<1>6. ran[k] # 0 /\ ~Finishing(k)
  BY <1>1, <1>5 DEF Unfinished
<1> QED BY <1>6 DEF PoolInv, TaskInv

\* The caller finds its counter at zero and returns.
LEMMA JoinReturns ==
  ASSUME PoolInv, NEW t \in PoolThreads, IsTop(t, "join"), scan[t] = -1, ~(left[Top(t).job] > 0),
         stack' = [stack EXCEPT ![t] = Front(stack[t])], returned' = returned \union {Top(t).job},
         UNCHANGED <<deque, pending, left, scan, took, ran, called>>
  PROVE  PoolInv'
<1>0. PoolTypes /\ StackInv /\ TaskInv /\ ForInv /\ LeftInv /\ PendingInv
  BY DEF PoolInv
<1>1. stack[t] # <<>>
  BY DEF IsTop
<1>2. PICK n \in Nat, f \in Frame : TopIs(t, n, f)
  BY <1>0, <1>1, TopFrame
<1>3. f.op = "join" /\ Top(t) = f /\ f.job \in Jobs
  BY <1>2, FrameFacts DEF IsTop, TopIs
<1>4. Popped(t, n)
  BY <1>0, <1>2, FrontPops
<1>5. Others(t) /\ Len(stack[t]) = n /\ Len(stack'[t]) = n - 1 /\ stack[t][n] = f /\ n > 0
  BY <1>2, <1>4 DEF Popped, TopIs
<1>6. n \in 1..Len(stack[t])
  BY <1>5
<1>7. \A u \in PoolThreads : \A i \in 1..Len(stack'[u]) :
        i \in 1..Len(stack[u]) /\ stack[u][i] = stack'[u][i] /\ ~(u = t /\ i = n)
  <2>1. \A u \in PoolThreads : \A i \in 1..Len(stack'[u]) :
          i \in 1..Len(stack[u]) /\ stack[u][i] = stack'[u][i]
    BY <1>0, <1>4, PoppedFrames
  <2> QED BY <2>1, <1>5
<1>8. f.job \in called \ returned
  BY <1>0, <1>3, <1>5, <1>6 DEF ForInv, CallsOpen, ForOps
<1>9. PoolTypes'
  BY <1>0, <1>3, <1>5, <1>8 DEF PoolTypes, Others
<1>10. StackInv'
  <2>1. ~(scan[t] >= 0) /\ took[t] = <<>>
    BY <1>0 DEF StackInv
  <2>2. \A i \in 1..(Len(stack'[t]) - 1) : stack'[t][i].op \in {"join", "count"}
    <3>1. \A i \in 1..(n - 1) : stack'[t][i].op \in {"join", "count"}
      BY <1>0, <1>4, <1>5, BelowTop DEF Popped
    <3> QED BY <1>5, <3>1
  <2> QED BY <1>0, <1>5, <2>1, <2>2, StackKeeps
<1>11. FinishSame
  <2>1. ASSUME NEW u \in PoolThreads, NEW i \in 1..Len(stack[u]), stack[u][i].op = "finish"
        PROVE  i \in 1..Len(stack'[u]) /\ stack'[u][i] = stack[u][i]
    <3>1. CASE u # t
      BY <3>1, <1>5 DEF Others
    <3>2. CASE u = t
      BY <2>1, <3>2, <1>3, <1>4, <1>5 DEF Popped
    <3> QED BY <3>1, <3>2
  <2>2. FinishWithin(stack, stack')
    BY <2>1 DEF FinishWithin
  <2>3. FinishWithin(stack', stack)
    BY <1>7 DEF FinishWithin
  <2> QED BY <2>2, <2>3, FinishKeeps
<1>12. TasksWithin(stack', stack)
  BY <1>7 DEF TasksWithin
<1>13. \A k, p : At(k, p)' => At(k, p)
  BY <1>12, AtKeeps
<1>14. NoneNew /\ OnePlace'
  BY <1>0, <1>13, PlacesKeep
<1>15. \A k \in Tasks : k[1] = f.job => ran[k] = 1 /\ ~Finishing(k) /\ \A p : ~At(k, p)
  BY <1>3, AllDone
<1>16. TaskInv'
  <2>1. \A k \in Tasks : Finishing(k)' => ran'[k] = 1
    BY <1>0, <1>11 DEF TaskInv, FinishSame
  <2>2. ASSUME NEW k \in Tasks, NEW p, At(k, p)'
        PROVE  (~Finishing(k)' => ran'[k] = 0) /\ k[1] \in called' \ returned'
    BY <1>0, <1>3, <1>11, <1>13, <1>15, <2>2 DEF TaskInv, FinishSame
  <2>3. \A k \in Tasks : (ran'[k] = 0 \/ ran'[k] = 1) /\ (k[1] \in returned' => ran'[k] = 1)
    BY <1>0, <1>3, <1>15 DEF TaskInv
  <2> QED BY <1>14, <2>1, <2>2, <2>3 DEF TaskInv, OnePlace
<1>17. LeftInv'
  BY <1>0, <1>11, LeftKeeps
<1>18. ForInv'
  <2>1. \A k \in Tasks : Untouched(k) => Untouched(k)'
    BY <1>14, UntouchedKeeps
  <2>2. ASSUME NEW u \in PoolThreads, NEW v \in PoolThreads,
               NEW i \in 1..Len(stack'[u]), NEW m \in 1..Len(stack'[v]),
               stack'[u][i].op \in ForOps, stack'[v][m].op \in ForOps,
               stack'[u][i].job = stack'[v][m].job
        PROVE  u = v /\ i = m
    BY <1>0, <1>7, <2>2 DEF ForInv, OneCall
  <2>3. ASSUME NEW u \in PoolThreads, NEW i \in 1..Len(stack'[u]), stack'[u][i].op \in ForOps
        PROVE  stack'[u][i].job \in called' \ returned'
    <3>1. i \in 1..Len(stack[u]) /\ stack[u][i] = stack'[u][i] /\ ~(u = t /\ i = n)
      BY <1>7
    <3>2. stack[u][i].job \in called \ returned
      BY <1>0, <2>3, <3>1 DEF ForInv, CallsOpen
    <3>3. stack[u][i].job # f.job
      BY <1>0, <1>3, <1>5, <1>6, <2>3, <3>1 DEF ForInv, OneCall, ForOps
    <3> QED BY <1>3, <3>1, <3>2, <3>3
  <2>4. ASSUME NEW u \in PoolThreads, NEW i \in 1..Len(stack'[u]), NEW k \in Tasks,
               k[1] = stack'[u][i].job,
               \/ stack'[u][i].op = "push" /\ k[2] >= stack'[u][i].chunk
               \/ stack'[u][i].op = "counted" /\ k[2] > stack'[u][i].chunk
        PROVE  Untouched(k)'
    BY <1>0, <1>7, <2>1, <2>4 DEF ForInv, Ahead
  <2>5. \A k \in Tasks : k[1] \notin called' => Untouched(k)'
    BY <1>0, <2>1 DEF ForInv, Uncalled
  <2> QED BY <2>2, <2>3, <2>4, <2>5 DEF ForInv, OneCall, CallsOpen, Ahead, Uncalled
<1>19. PendingInv'
  <2>1. ~IsTop(t, "counted")
    BY <1>3 DEF IsTop
  <2>2. ~IsTop(t, "counted")'
    <3>1. ASSUME IsTop(t, "counted")' PROVE FALSE
      <4>1. n - 1 > 0 /\ stack'[t][n - 1].op = "counted"
        <5>1. stack'[t] \in Seq(Frame) /\ stack'[t] # <<>> /\ Last(stack'[t]).op = "counted"
          BY <1>5, <3>1 DEF IsTop, Top, Others
        <5> QED BY <1>5, <5>1, FrontAt
      <4>2. n - 1 \in 1..(Len(stack[t]) - 1) /\ stack'[t][n - 1] = stack[t][n - 1]
        BY <1>4, <1>5, <4>1 DEF Popped
      <4>3. stack[t][n - 1].op \in {"join", "count"}
        BY <1>0, <4>2 DEF StackInv
      <4> QED BY <4>1, <4>2, <4>3
    <3> QED BY <3>1
  <2>3. Counting' = Counting
    BY <1>5, <2>1, <2>2, CountingKeeps
  <2> QED BY <1>0, <2>3, PendingKeeps
<1> QED BY <1>9, <1>10, <1>16, <1>17, <1>18, <1>19 DEF PoolInv

\* A round of the join: look for work, or return.
LEMMA JoinStep ==
  ASSUME PoolInv, NEW t \in PoolThreads, Join(t)
  PROVE  PoolInv'
<1>1. CASE left[Top(t).job] > 0
  <2>1. /\ UNCHANGED <<deque, pending, left, stack, took, ran, called, returned>>
        /\ scan' = [scan EXCEPT ![t] = 0] /\ IsTop(t, "join")
    BY <1>1 DEF Join
  <2>2. scan \in [PoolThreads -> Int]
    BY DEF PoolInv, PoolTypes
  <2>3. scan' \in [PoolThreads -> Int] /\ \A u \in PoolThreads :
          scan'[u] = scan[u] \/ (u = t /\ scan'[u] = 0)
    BY <2>1, <2>2
  <2>4. \A u \in PoolThreads :
          /\ took[u] # <<>> => scan'[u] >= 0
          /\ scan'[u] >= 0 => IsTop(u, "join") \/ (stack[u] = <<>> /\ u \in Workers)
    BY <2>1, <2>3 DEF PoolInv, StackInv
  <2> QED BY <2>1, <2>3, <2>4, SearchStep
<1>2. CASE ~(left[Top(t).job] > 0)
  <2>1. /\ IsTop(t, "join") /\ scan[t] = -1
        /\ stack' = [stack EXCEPT ![t] = Front(stack[t])] /\ returned' = returned \union {Top(t).job}
        /\ UNCHANGED <<deque, pending, left, scan, took, ran, called>>
    BY <1>2 DEF Join
  <2> QED BY <1>2, <2>1, JoinReturns
<1> QED BY <1>1, <1>2

\* A task frame is a place of its task.
LEMMA FrameIsPlace ==
  ASSUME NEW t \in PoolThreads, NEW i \in 1..Len(stack[t]), stack[t][i].op \in TaskOps
  PROVE  At(Key(stack[t][i]), <<"stack", t, i>>)
BY DEF At, AtStack

\* FinishTask: the task is gone and its job counts it.
LEMMA FinishTaskStep ==
  ASSUME PoolInv, NEW t \in PoolThreads, FinishTask(t)
  PROVE  PoolInv'
<1>0. PoolTypes /\ StackInv /\ TaskInv /\ ForInv /\ LeftInv /\ PendingInv
  BY DEF PoolInv
<1>1. IsTop(t, "finish") /\ stack[t] # <<>>
  BY DEF IsTop, FinishTask
<1>2. PICK n \in Nat, f \in Frame : TopIs(t, n, f)
  BY <1>0, <1>1, TopFrame
<1>3. f.op = "finish" /\ Top(t) = f /\ f.job \in Jobs
  BY <1>1, <1>2, FrameFacts DEF IsTop, TopIs
<1>t. /\ stack' = [stack EXCEPT ![t] = Front(stack[t])]
      /\ left' = [left EXCEPT ![f.job] = left[f.job] - 1]
      /\ UNCHANGED <<deque, pending, scan, took, ran, called, returned>>
  BY <1>3 DEF FinishTask
<1>4. Popped(t, n)
  BY <1>0, <1>2, <1>t, FrontPops
<1>5. Others(t) /\ Len(stack[t]) = n /\ Len(stack'[t]) = n - 1 /\ stack[t][n] = f /\ n > 0
  BY <1>2, <1>4 DEF Popped, TopIs
<1>6. n \in 1..Len(stack[t])
  BY <1>5
<1>7. \A u \in PoolThreads : \A i \in 1..Len(stack'[u]) :
        i \in 1..Len(stack[u]) /\ stack[u][i] = stack'[u][i] /\ ~(u = t /\ i = n)
  <2>1. \A u \in PoolThreads : \A i \in 1..Len(stack'[u]) :
          i \in 1..Len(stack[u]) /\ stack[u][i] = stack'[u][i]
    BY <1>0, <1>4, PoppedFrames
  <2> QED BY <2>1, <1>5
<1>8. PICK k0 \in Tasks : k0 = Key(f) /\ k0 = <<f.job, f.chunk>>
  BY FrameFacts DEF Key
<1>9. At(k0, <<"stack", t, n>>) /\ Finishing(k0) /\ ran[k0] = 1
  <2>1. Finishing(k0)
    BY <1>3, <1>5, <1>6, <1>8 DEF Finishing
  <2>2. At(k0, <<"stack", t, n>>)
    BY <1>3, <1>5, <1>6, <1>8, FrameIsPlace DEF TaskOps
  <2> QED BY <1>0, <2>1, <2>2 DEF TaskInv
<1>10. PoolTypes'
  BY <1>0, <1>3, <1>5, <1>t DEF PoolTypes, Others
<1>11. StackInv'
  <2>1. ~(scan[t] >= 0) /\ took[t] = <<>>
    BY <1>0, <1>2, <1>3, NotScanning
  <2>2. \A i \in 1..(Len(stack'[t]) - 1) : stack'[t][i].op \in {"join", "count"}
    <3>1. \A i \in 1..(n - 1) : stack'[t][i].op \in {"join", "count"}
      BY <1>0, <1>4, <1>5, BelowTop DEF Popped
    <3> QED BY <1>5, <3>1
  <2> QED BY <1>0, <1>5, <1>t, <2>1, <2>2, StackKeeps
<1>12. \A k, p : At(k, p)' => At(k, p)
  BY <1>7, <1>t, AtKeeps DEF TasksWithin
<1>13. NoneNew /\ OnePlace'
  BY <1>0, <1>12, PlacesKeep
<1>14. \A p : ~At(k0, p)'
  <2> SUFFICES ASSUME NEW p, At(k0, p)' PROVE FALSE
    OBVIOUS
  <2>1. p = <<"stack", t, n>>
    BY <1>0, <1>9, <1>12 DEF TaskInv
  <2>2. ~AtDeque(k0, p)' /\ ~AtTook(k0, p)'
    BY <2>1 DEF AtDeque, AtTook
  <2>3. AtStack(k0, p)'
    BY <2>2 DEF At
  <2>4. n \in 1..Len(stack'[t])
    BY <2>1, <2>3 DEF AtStack
  <2> QED BY <1>5, <2>4
<1>15. \A k \in Tasks : Finishing(k)' <=> Finishing(k) /\ k # k0
  <2>1. ASSUME NEW k \in Tasks, Finishing(k)' PROVE Finishing(k) /\ k # k0
    <3>1. PICK u \in PoolThreads : \E i \in 1..Len(stack'[u]) :
            stack'[u][i].op = "finish" /\ Key(stack'[u][i]) = k
      BY <2>1 DEF Finishing, Key
    <3>2. PICK i \in 1..Len(stack'[u]) : stack'[u][i].op = "finish" /\ Key(stack'[u][i]) = k
      BY <3>1
    <3>3. Finishing(k)
      BY <1>7, <3>2 DEF Finishing
    <3>4. At(k, <<"stack", u, i>>)'
      BY <3>2 DEF At, AtStack, TaskOps, Key
    <3> QED BY <1>14, <3>3, <3>4
  <2>2. ASSUME NEW k \in Tasks, Finishing(k), k # k0 PROVE Finishing(k)'
    <3>1. PICK u \in PoolThreads : \E i \in 1..Len(stack[u]) :
            stack[u][i].op = "finish" /\ Key(stack[u][i]) = k
      BY <2>2 DEF Finishing
    <3>2. PICK i \in 1..Len(stack[u]) : stack[u][i].op = "finish" /\ Key(stack[u][i]) = k
      BY <3>1
    <3>3. ~(u = t /\ i = n)
      BY <1>5, <1>8, <2>2, <3>2
    <3>4. i \in 1..Len(stack'[u]) /\ stack'[u][i] = stack[u][i]
      <4>1. CASE u # t
        BY <4>1, <1>5 DEF Others
      <4>2. CASE u = t
        BY <4>2, <3>3, <1>4, <1>5 DEF Popped
      <4> QED BY <4>1, <4>2
    <3> QED BY <3>2, <3>4 DEF Finishing, Key
  <2> QED BY <2>1, <2>2
<1>16. TaskInv'
  <2>1. \A k \in Tasks : Finishing(k)' => ran'[k] = 1
    BY <1>0, <1>15, <1>t DEF TaskInv
  <2>2. ASSUME NEW k \in Tasks, NEW p, At(k, p)'
        PROVE  (~Finishing(k)' => ran'[k] = 0) /\ k[1] \in called' \ returned'
    BY <1>0, <1>t, <1>12, <1>14, <1>15, <2>2 DEF TaskInv
  <2>3. \A k \in Tasks : (ran'[k] = 0 \/ ran'[k] = 1) /\ (k[1] \in returned' => ran'[k] = 1)
    BY <1>0, <1>t DEF TaskInv
  <2> QED BY <1>13, <2>1, <2>2, <2>3 DEF TaskInv, OnePlace
<1>17. LeftInv'
  <2> SUFFICES ASSUME NEW j \in Jobs PROVE left'[j] = Cardinality(Unfinished(j)')
    BY DEF LeftInv
  <2>1. \A c \in 0..(NChunks[j] - 1) : <<j, c>> \in Tasks
    BY TaskParts
  <2>2. left[j] = Cardinality(Unfinished(j))
    BY <1>0 DEF LeftInv
  <2>3. CASE j # f.job
    <3>1. Unfinished(j)' = Unfinished(j)
      BY <1>8, <1>15, <1>t, <2>1, <2>3 DEF Unfinished
    <3> QED BY <1>0, <1>t, <2>2, <2>3, <3>1 DEF PoolTypes
  <2>4. CASE j = f.job
    <3>1. Unfinished(j)' = Unfinished(j) \ {f.chunk}
      BY <1>8, <1>9, <1>15, <1>t, <2>1, <2>4 DEF Unfinished
    <3>2. f.chunk \in Unfinished(j)
      <4>1. f.chunk \in 0..(NChunks[j] - 1)
        BY <2>4, FrameFacts, PoolFacts
      <4> QED BY <1>8, <1>9, <2>4, <4>1 DEF Unfinished
    <3>3. IsFiniteSet(Unfinished(j))
      <4>1. NChunks[j] - 1 \in Int
        BY PoolFacts
      <4>2. IsFiniteSet(0..(NChunks[j] - 1)) /\ Unfinished(j) \subseteq 0..(NChunks[j] - 1)
        BY <4>1, FS_Interval DEF Unfinished
      <4> QED BY <4>2, FS_Subset
    <3>4. Cardinality(Unfinished(j) \ {f.chunk}) = Cardinality(Unfinished(j)) - 1
      BY <3>2, <3>3, FS_RemoveElement
    <3>5. left'[j] = left[j] - 1
      BY <1>0, <1>t, <2>4 DEF PoolTypes
    <3> QED BY <2>2, <3>1, <3>4, <3>5
  <2> QED BY <2>3, <2>4
<1>18. ForInv'
  BY <1>0, <1>7, <1>13, <1>t, UntouchedKeeps, CallsKeep DEF CallsWithin
<1>19. PendingInv'
  <2>1. ~IsTop(t, "counted")
    BY <1>3 DEF IsTop
  <2>2. ~IsTop(t, "counted")'
    <3>1. ASSUME IsTop(t, "counted")' PROVE FALSE
      <4>1. n - 1 > 0 /\ stack'[t][n - 1].op = "counted"
        <5>1. stack'[t] \in Seq(Frame) /\ stack'[t] # <<>> /\ Last(stack'[t]).op = "counted"
          BY <1>5, <3>1 DEF IsTop, Top, Others
        <5> QED BY <1>5, <5>1, FrontAt
      <4>2. n - 1 \in 1..(Len(stack[t]) - 1) /\ stack'[t][n - 1] = stack[t][n - 1]
        BY <1>4, <1>5, <4>1 DEF Popped
      <4>3. stack[t][n - 1].op \in {"join", "count"}
        BY <1>0, <4>2 DEF StackInv
      <4> QED BY <4>1, <4>2, <4>3
    <3> QED BY <3>1
  <2>3. Counting' = Counting
    BY <1>5, <2>1, <2>2, CountingKeeps
  <2> QED BY <1>0, <1>t, <2>3, PendingKeeps
<1> QED BY <1>10, <1>11, <1>16, <1>17, <1>18, <1>19 DEF PoolInv

\* RunBody: the task has run and its frame stays until it is counted.
LEMMA RunBodyStep ==
  ASSUME PoolInv, NEW t \in PoolThreads, RunBody(t)
  PROVE  PoolInv'
<1>0. PoolTypes /\ StackInv /\ TaskInv /\ ForInv /\ LeftInv /\ PendingInv
  BY DEF PoolInv
<1>1. (IsTop(t, "body") \/ IsTop(t, "count")) /\ stack[t] # <<>>
  BY DEF RunBody, IsTop
<1>2. PICK n \in Nat, f \in Frame : TopIs(t, n, f)
  BY <1>0, <1>1, TopFrame
<1>3. f.op \in {"body", "count"} /\ Top(t) = f
  BY <1>1, <1>2 DEF IsTop, TopIs
<1>4. PICK g \in Frame : /\ g = [f EXCEPT !.op = "finish"]
                         /\ g.op = "finish" /\ g.job = f.job /\ g.chunk = f.chunk
  <2>1. "finish" \in ForOps \cup TaskOps
    BY DEF TaskOps
  <2> QED BY <2>1, FrameFacts
<1>5. PICK k0 \in Tasks : k0 = Key(f) /\ k0 = Key(g) /\ k0 = <<f.job, f.chunk>>
  BY <1>4, FrameFacts DEF Key
<1>6. /\ SetTop(t, g) /\ ran' = [ran EXCEPT ![k0] = ran[k0] + 1]
      /\ UNCHANGED <<deque, pending, left, scan, took, called, returned>>
  BY <1>3, <1>4, <1>5 DEF RunBody
<1>7. Replaced(t, n, g)
  BY <1>0, <1>2, <1>6, SetTopReplaces
<1>8. /\ Others(t) /\ Len(stack[t]) = n /\ Len(stack'[t]) = n /\ stack'[t][n] = g /\ stack[t][n] = f /\ n > 0
      /\ n \in 1..Len(stack[t]) /\ n \in 1..Len(stack'[t])
  BY <1>2, <1>7 DEF Replaced, TopIs
<1>9. At(k0, <<"stack", t, n>>)
  BY <1>3, <1>5, <1>8, FrameIsPlace DEF TaskOps
<1>10. ~Finishing(k0)
  <2> SUFFICES ASSUME Finishing(k0) PROVE FALSE
    OBVIOUS
  <2>1. PICK u \in PoolThreads : \E i \in 1..Len(stack[u]) :
          stack[u][i].op = "finish" /\ Key(stack[u][i]) = k0
    BY DEF Finishing
  <2>2. PICK i \in 1..Len(stack[u]) : stack[u][i].op = "finish" /\ Key(stack[u][i]) = k0
    BY <2>1
  <2>3. At(k0, <<"stack", u, i>>)
    BY <2>2, FrameIsPlace DEF TaskOps
  <2>4. <<"stack", u, i>> = <<"stack", t, n>>
    BY <1>0, <1>9, <2>3 DEF TaskInv
  <2> QED BY <1>3, <1>8, <2>2, <2>4
<1>11. ran[k0] = 0
  BY <1>0, <1>9, <1>10 DEF TaskInv
<1>12. \A k \in Tasks : ran'[k] = IF k = k0 THEN 1 ELSE ran[k]
  BY <1>0, <1>6, <1>11 DEF PoolTypes
<1>13. PoolTypes'
  BY <1>0, <1>6, <1>8 DEF PoolTypes, Others
<1>14. StackInv'
  <2>1. ~(scan[t] >= 0) /\ took[t] = <<>>
    BY <1>0, <1>2, <1>3, NotScanning
  <2>2. \A i \in 1..(Len(stack'[t]) - 1) : stack'[t][i].op \in {"join", "count"}
    BY <1>0, <1>7, <1>8, BelowTop DEF Replaced
  <2> QED BY <1>0, <1>6, <1>8, <2>1, <2>2, StackKeeps
<1>15. \A k, p : At(k, p)' => At(k, p)
  <2>1. f.op \in TaskOps /\ g.op \in TaskOps
    BY <1>3, <1>4 DEF TaskOps
  <2> QED BY <1>0, <1>2, <1>5, <1>6, <1>7, <2>1, ReplacedTasks, AtKeeps
<1>16. NoneNew /\ OnePlace'
  BY <1>0, <1>15, PlacesKeep
<1>17. \A k \in Tasks : Finishing(k)' <=> Finishing(k) \/ k = k0
  <2>1. Finishing(k0)'
    BY <1>4, <1>5, <1>8 DEF Finishing, Key
  <2>2. ASSUME NEW k \in Tasks, Finishing(k)', k # k0 PROVE Finishing(k)
    <3>1. PICK u \in PoolThreads : \E i \in 1..Len(stack'[u]) :
            stack'[u][i].op = "finish" /\ Key(stack'[u][i]) = k
      BY <2>2 DEF Finishing, Key
    <3>2. PICK i \in 1..Len(stack'[u]) : stack'[u][i].op = "finish" /\ Key(stack'[u][i]) = k
      BY <3>1
    <3>3. ~(u = t /\ i = n)
      BY <1>5, <1>8, <2>2, <3>2
    <3>4. i \in 1..Len(stack[u]) /\ stack'[u][i] = stack[u][i]
      <4>1. CASE u # t
        BY <4>1, <1>8 DEF Others
      <4>2. CASE u = t
        BY <4>2, <3>3, <1>7, <1>8 DEF Replaced
      <4> QED BY <4>1, <4>2
    <3> QED BY <3>2, <3>4 DEF Finishing
  <2>3. ASSUME NEW k \in Tasks, Finishing(k) PROVE Finishing(k)'
    <3>1. PICK u \in PoolThreads : \E i \in 1..Len(stack[u]) :
            stack[u][i].op = "finish" /\ Key(stack[u][i]) = k
      BY <2>3 DEF Finishing
    <3>2. PICK i \in 1..Len(stack[u]) : stack[u][i].op = "finish" /\ Key(stack[u][i]) = k
      BY <3>1
    <3>3. ~(u = t /\ i = n)
      BY <1>3, <1>8, <3>2
    <3>4. i \in 1..Len(stack'[u]) /\ stack'[u][i] = stack[u][i]
      <4>1. CASE u # t
        BY <4>1, <1>8 DEF Others
      <4>2. CASE u = t
        BY <4>2, <3>3, <1>7, <1>8 DEF Replaced
      <4> QED BY <4>1, <4>2
    <3> QED BY <3>2, <3>4 DEF Finishing, Key
  <2> QED BY <2>1, <2>2, <2>3
<1>18. TaskInv'
  <2>1. \A k \in Tasks : Finishing(k)' => ran'[k] = 1
    BY <1>0, <1>12, <1>17 DEF TaskInv
  <2>2. ASSUME NEW k \in Tasks, NEW p, At(k, p)'
        PROVE  (~Finishing(k)' => ran'[k] = 0) /\ k[1] \in called' \ returned'
    BY <1>0, <1>6, <1>12, <1>15, <1>17, <2>2 DEF TaskInv
  <2>3. \A k \in Tasks : (ran'[k] = 0 \/ ran'[k] = 1) /\ (k[1] \in returned' => ran'[k] = 1)
    BY <1>0, <1>6, <1>12 DEF TaskInv
  <2> QED BY <1>16, <2>1, <2>2, <2>3 DEF TaskInv, OnePlace
<1>19. LeftInv'
  <2> SUFFICES ASSUME NEW j \in Jobs PROVE left'[j] = Cardinality(Unfinished(j)')
    BY DEF LeftInv
  <2>1. \A c \in 0..(NChunks[j] - 1) : <<j, c>> \in Tasks
    BY TaskParts
  <2>2. Unfinished(j)' = Unfinished(j)
    BY <1>11, <1>12, <1>17, <2>1 DEF Unfinished
  <2> QED BY <1>0, <1>6, <2>2 DEF LeftInv
<1>20. ForInv'
  <2>1. \A k \in Tasks : Untouched(k) => Untouched(k)'
    BY <1>9, <1>12, <1>16 DEF Untouched, NoneNew
  <2>2. CallsWithin(stack', stack)
    <3> SUFFICES ASSUME NEW u \in PoolThreads, NEW i \in 1..Len(stack'[u]), stack'[u][i].op \in ForOps
                 PROVE  i \in 1..Len(stack[u]) /\ stack[u][i] = stack'[u][i]
      BY DEF CallsWithin
    <3>1. CASE u # t
      BY <3>1, <1>8 DEF Others
    <3>2. CASE u = t /\ i # n
      BY <3>2, <1>7, <1>8 DEF Replaced
    <3>3. CASE u = t /\ i = n
      BY <3>3, <1>4, <1>8 DEF ForOps
    <3> QED BY <3>1, <3>2, <3>3
  <2> QED BY <1>0, <1>6, <2>1, <2>2, CallsKeep
<1>21. PendingInv'
  <2>1. ~IsTop(t, "counted")
    BY <1>3 DEF IsTop
  <2>2. ~IsTop(t, "counted")'
    BY <1>4, <1>8 DEF IsTop, Top, Last
  <2>3. Counting' = Counting
    BY <1>8, <2>1, <2>2, CountingKeeps
  <2> QED BY <1>0, <1>6, <2>3, PendingKeeps
<1> QED BY <1>13, <1>14, <1>18, <1>19, <1>20, <1>21 DEF PoolInv

\* Call: the stack of thread t, which looks for no task, gets the frame of job j at m.
Calls(j, t, m) ==
  /\ Others(t)
  /\ \A u \in PoolThreads : \A i \in 1..Len(stack'[u]) : stack'[u][i].op \in ForOps =>
       \/ u = t /\ i = m /\ stack'[u][i] = ForFrame(j)
       \/ i \in 1..Len(stack[u]) /\ stack[u][i] = stack'[u][i]
  /\ TasksWithin(stack', stack) /\ FinishSame
  /\ \A i \in 1..(Len(stack'[t]) - 1) : stack'[t][i].op \in {"join", "count"}
  /\ ~(scan[t] >= 0) /\ took[t] = <<>>
  /\ ~IsTop(t, "counted") /\ ~IsTop(t, "counted")'
  /\ UNCHANGED <<deque, pending, left, scan, took, ran, returned>>

\* A call keeps the invariant.
LEMMA CallAdds ==
  ASSUME PoolInv, NEW j \in Jobs, j \notin called, called' = called \union {j},
         NEW t \in PoolThreads, NEW m, Calls(j, t, m)
  PROVE  PoolInv'
<1>0. PoolTypes /\ StackInv /\ TaskInv /\ ForInv /\ LeftInv /\ PendingInv
  BY DEF PoolInv
<1> USE DEF Calls
<1>1. PoolTypes'
  BY <1>0 DEF PoolTypes, Others
<1>2. StackInv'
  BY <1>0, StackKeeps
<1>3. NoneNew /\ OnePlace'
  BY <1>0, AtKeeps, PlacesKeep
<1>4. TaskInv'
  BY <1>0, <1>3, TasksKeep
<1>5. LeftInv'
  BY <1>0, LeftKeeps
<1>6. PendingInv'
  BY <1>0, CountingKeeps, PendingKeeps
<1>7. ForInv'
  <2>1. \A k \in Tasks : Untouched(k) => Untouched(k)'
    BY <1>3, UntouchedKeeps
  <2>2. ForFrame(j).op = "push" /\ ForFrame(j).job = j
    BY NewFrames
  <2>3. ASSUME NEW u \in PoolThreads, NEW i \in 1..Len(stack'[u]), stack'[u][i].op \in ForOps
        PROVE  \/ u = t /\ i = m /\ stack'[u][i] = ForFrame(j)
               \/ /\ i \in 1..Len(stack[u]) /\ stack[u][i] = stack'[u][i]
                  /\ stack[u][i].job \in called \ returned
    BY <1>0, <2>3 DEF ForInv, CallsOpen
  <2>4. ASSUME NEW u \in PoolThreads, NEW v \in PoolThreads,
               NEW i \in 1..Len(stack'[u]), NEW l \in 1..Len(stack'[v]),
               stack'[u][i].op \in ForOps, stack'[v][l].op \in ForOps,
               stack'[u][i].job = stack'[v][l].job
        PROVE  u = v /\ i = l
    <3>1. CASE stack'[u][i].job = j
      <4>1. u = t /\ i = m
        BY <2>3, <2>4, <3>1
      <4>3. stack'[v][l].op \in ForOps /\ stack'[v][l].job = j
        BY <2>4, <3>1
      <4>2. v = t /\ l = m
        BY <2>3, <4>3
      <4> QED BY <4>1, <4>2
    <3>2. CASE stack'[u][i].job # j
      <4>1. i \in 1..Len(stack[u]) /\ stack[u][i] = stack'[u][i]
        BY <2>2, <2>3, <2>4, <3>2
      <4>2. l \in 1..Len(stack[v]) /\ stack[v][l] = stack'[v][l]
        BY <2>2, <2>3, <2>4, <3>2
      <4> QED BY <1>0, <2>4, <4>1, <4>2 DEF ForInv, OneCall
    <3> QED BY <3>1, <3>2
  <2>5. ASSUME NEW u \in PoolThreads, NEW i \in 1..Len(stack'[u]), stack'[u][i].op \in ForOps
        PROVE  stack'[u][i].job \in called' \ returned'
    <3>1. j \notin returned
      BY <1>0 DEF PoolTypes
    <3> QED BY <2>2, <2>3, <2>5, <3>1
  <2>6. ASSUME NEW u \in PoolThreads, NEW i \in 1..Len(stack'[u]), NEW k \in Tasks,
               k[1] = stack'[u][i].job,
               \/ stack'[u][i].op = "push" /\ k[2] >= stack'[u][i].chunk
               \/ stack'[u][i].op = "counted" /\ k[2] > stack'[u][i].chunk
        PROVE  Untouched(k)'
    <3>1. stack'[u][i].op \in ForOps
      BY <2>6 DEF ForOps
    <3>2. CASE stack'[u][i] = ForFrame(j)
      BY <1>0, <2>1, <2>2, <2>6, <3>2 DEF ForInv, Uncalled
    <3>3. CASE i \in 1..Len(stack[u]) /\ stack[u][i] = stack'[u][i]
      BY <1>0, <2>1, <2>6, <3>3 DEF ForInv, Ahead
    <3> QED BY <2>3, <3>1, <3>2, <3>3
  <2>7. \A k \in Tasks : k[1] \notin called' => Untouched(k)'
    BY <1>0, <2>1 DEF ForInv, Uncalled
  <2> QED BY <2>4, <2>5, <2>6, <2>7 DEF ForInv, OneCall, CallsOpen, Ahead, Uncalled
<1> QED BY <1>1, <1>2, <1>4, <1>5, <1>6, <1>7 DEF PoolInv

\* A call from a thread outside the pool.
LEMMA OuterCall ==
  ASSUME PoolInv, NEW j \in Jobs, j \notin called, called' = called \union {j},
         j \in DOMAIN CallerOf, stack[CallerOf[j]] = <<>>,
         stack' = [stack EXCEPT ![CallerOf[j]] = <<ForFrame(j)>>],
         UNCHANGED <<deque, pending, left, scan, took, ran, returned>>
  PROVE  PoolInv'
<1>0. PoolTypes /\ StackInv
  BY DEF PoolInv
<1>1. PICK t \in PoolThreads : t = CallerOf[j] /\ t \notin Workers
  BY PoolFacts
<1>2. PICK g \in Frame : g = ForFrame(j) /\ g.op = "push"
  BY NewFrames
<1>3. <<g>> \in Seq(Frame) /\ Len(<<g>>) = 1 /\ <<g>>[1] = g
  OBVIOUS
<1>4. stack' = [stack EXCEPT ![t] = <<g>>] /\ stack[t] = <<>>
  BY <1>1, <1>2
<1>5. Others(t) /\ stack'[t] = <<g>>
  BY <1>0, <1>3, <1>4 DEF Others, PoolTypes
<1>6. Others(t) /\ Len(stack'[t]) = 1 /\ stack'[t][1] = g /\ stack[t] = <<>> /\ Pushed(t, 0, g)
  BY <1>3, <1>4, <1>5 DEF Pushed
<1>7. ~IsTop(t, "counted") /\ ~IsTop(t, "join")
  BY <1>6 DEF IsTop
<1>8. ~(scan[t] >= 0) /\ took[t] = <<>>
  BY <1>0, <1>1, <1>7 DEF StackInv
<1>9. ~IsTop(t, "counted")'
  BY <1>2, <1>6 DEF IsTop, Top, Last
<1>10. TasksWithin(stack', stack)
  BY <1>0, <1>2, <1>6, PushedTasks DEF TaskOps
<1>11. FinishSame
  BY <1>0, <1>2, <1>6, PushedFinish
<1>12. \A u \in PoolThreads : \A i \in 1..Len(stack'[u]) : stack'[u][i].op \in ForOps =>
         \/ u = t /\ i = 1 /\ stack'[u][i] = ForFrame(j)
         \/ i \in 1..Len(stack[u]) /\ stack[u][i] = stack'[u][i]
  BY <1>2, <1>6 DEF Others
<1>13. \A i \in 1..(Len(stack'[t]) - 1) : stack'[t][i].op \in {"join", "count"}
  BY <1>6
<1>14. Calls(j, t, 1)
  BY <1>6, <1>7, <1>8, <1>9, <1>10, <1>11, <1>12, <1>13 DEF Calls
<1> QED BY <1>14, CallAdds

\* A call from the body of a task, whose frame waits for it.
LEMMA NestedCall ==
  ASSUME PoolInv, NEW j \in Jobs, j \notin called, called' = called \union {j},
         NEW t \in PoolThreads, IsTop(t, "body"),
         stack' = [stack EXCEPT ![t] = Append(Append(Front(stack[t]), [Top(t) EXCEPT !.op = "count"]),
                                              ForFrame(j))],
         UNCHANGED <<deque, pending, left, scan, took, ran, returned>>
  PROVE  PoolInv'
<1>0. PoolTypes /\ StackInv
  BY DEF PoolInv
<1>1. stack[t] # <<>>
  BY DEF IsTop
<1>2. PICK n \in Nat, f \in Frame : TopIs(t, n, f)
  BY <1>0, <1>1, TopFrame
<1>3. f.op = "body" /\ Top(t) = f /\ n > 0 /\ Len(stack[t]) = n /\ stack[t][n] = f
  BY <1>2 DEF IsTop, TopIs
<1>4. PICK g \in Frame : g = ForFrame(j) /\ g.op = "push"
  BY NewFrames
<1>5. PICK h \in Frame : /\ h = [f EXCEPT !.op = "count"] /\ h.op = "count" /\ Key(h) = Key(f)
  <2>1. "count" \in ForOps \cup TaskOps
    BY DEF TaskOps
  <2> QED BY <2>1, FrameFacts DEF Key
<1>6. PICK s \in Seq(Frame) : /\ s = Append(Front(stack[t]), h) /\ Len(s) = n /\ s[n] = h
                              /\ \A i \in 1..(n - 1) : s[i] = stack[t][i]
  <2>1. PICK r \in Seq(Frame) : r = stack[t] /\ r # <<>> /\ Len(r) = n
    BY <1>0, <1>1, <1>3 DEF PoolTypes
  <2>2. /\ Append(Front(r), h) \in Seq(Frame) /\ Len(Append(Front(r), h)) = n
        /\ \A i \in 1..(n - 1) : Append(Front(r), h)[i] = r[i]
        /\ Append(Front(r), h)[n] = h
    BY <2>1, SetTopAt
  <2> QED BY <2>1, <2>2
<1>7. /\ Append(s, g) \in Seq(Frame) /\ Len(Append(s, g)) = Len(s) + 1
      /\ \A i \in 1..Len(s) : Append(s, g)[i] = s[i]
      /\ Append(s, g)[Len(s) + 1] = g
  OBVIOUS
<1>8. stack'[t] = Append(s, g)
  BY <1>0, <1>3, <1>4, <1>5, <1>6 DEF PoolTypes
<1>9. Others(t)
  BY <1>0, <1>3, <1>4, <1>5, <1>6, <1>7 DEF Others, PoolTypes
<1>10. /\ Len(stack'[t]) = n + 1 /\ stack'[t][n + 1] = g /\ stack'[t][n] = h
       /\ \A i \in 1..(n - 1) : stack'[t][i] = stack[t][i]
  BY <1>3, <1>6, <1>7, <1>8
<1>11. ~IsTop(t, "counted")
  BY <1>3 DEF IsTop
<1>12. ~(scan[t] >= 0) /\ took[t] = <<>>
  BY <1>0, <1>2, <1>3, NotScanning
<1>13. ~IsTop(t, "counted")'
  BY <1>4, <1>10 DEF IsTop, Top, Last
<1>14. ASSUME NEW u \in PoolThreads, NEW i \in 1..Len(stack'[u])
       PROVE  \/ u = t /\ i = n + 1 /\ stack'[u][i] = g
              \/ u = t /\ i = n /\ i \in 1..Len(stack[u]) /\ stack'[u][i] = h /\ stack[u][i] = f
              \/ i \in 1..Len(stack[u]) /\ stack[u][i] = stack'[u][i]
  <2>1. CASE u # t
    BY <2>1, <1>9 DEF Others
  <2>2. CASE u = t
    BY <2>2, <1>3, <1>10
  <2> QED BY <2>1, <2>2
<1>15. TasksWithin(stack', stack)
  BY <1>3, <1>4, <1>5, <1>14 DEF TasksWithin, TaskOps
<1>16. FinishSame
  <2>1. FinishWithin(stack', stack)
    BY <1>3, <1>4, <1>5, <1>14 DEF FinishWithin
  <2>2. FinishWithin(stack, stack')
    <3> SUFFICES ASSUME NEW u \in PoolThreads, NEW i \in 1..Len(stack[u]), stack[u][i].op = "finish"
                 PROVE  i \in 1..Len(stack'[u]) /\ stack'[u][i] = stack[u][i]
      BY DEF FinishWithin
    <3>1. CASE u # t
      BY <3>1, <1>9 DEF Others
    <3>2. CASE u = t
      BY <3>2, <1>3, <1>10
    <3> QED BY <3>1, <3>2
  <2> QED BY <2>1, <2>2, FinishKeeps
<1>17. \A u \in PoolThreads : \A i \in 1..Len(stack'[u]) : stack'[u][i].op \in ForOps =>
         \/ u = t /\ i = n + 1 /\ stack'[u][i] = ForFrame(j)
         \/ i \in 1..Len(stack[u]) /\ stack[u][i] = stack'[u][i]
  BY <1>4, <1>5, <1>14 DEF ForOps
<1>18. ASSUME NEW i \in 1..(Len(stack'[t]) - 1) PROVE stack'[t][i].op \in {"join", "count"}
  <2>1. \A l \in 1..(n - 1) : stack[t][l].op \in {"join", "count"}
    BY <1>0, <1>3 DEF StackInv
  <2>2. i \in 1..(n - 1) \/ i = n
    BY <1>10
  <2> QED BY <1>5, <1>10, <2>1, <2>2
<1>19. Calls(j, t, n + 1)
  BY <1>9, <1>11, <1>12, <1>13, <1>15, <1>16, <1>17, <1>18 DEF Calls
<1> QED BY <1>19, CallAdds

\* A caller outside the pool starts a parallelFor.
LEMMA CallStep ==
  ASSUME PoolInv, NEW j \in Jobs, Call(j)
  PROVE  PoolInv'
<1>1. /\ j \notin called /\ called' = called \union {j}
      /\ UNCHANGED <<deque, pending, left, scan, took, ran, returned>>
  BY DEF Call
<1>2. CASE /\ j \in DOMAIN CallerOf /\ stack[CallerOf[j]] = <<>>
           /\ stack' = [stack EXCEPT ![CallerOf[j]] = <<ForFrame(j)>>]
  BY <1>1, <1>2, OuterCall
<1>3. CASE \E t \in PoolThreads :
             /\ IsTop(t, "body")
             /\ stack' = [stack EXCEPT ![t] = Append(Append(Front(stack[t]), [Top(t) EXCEPT !.op = "count"]),
                                                     ForFrame(j))]
  BY <1>1, <1>3, NestedCall
<1> QED BY <1>2, <1>3 DEF Call

\* The queued tasks, as pairs of a deque and a position.
LEMMA QueuedAt ==
  ASSUME PoolTypes, NEW x
  PROVE  x \in Queued <=> \E w \in Workers : \E i \in 1..Len(deque[w]) : x = <<w, i>>
<1>1. \A w \in Workers : DOMAIN deque[w] = 1..Len(deque[w])
  BY DEF PoolTypes
<1> QED BY <1>1 DEF Queued

\* StartTask: the taken task becomes a frame.
LEMMA StartTaskStep ==
  ASSUME PoolInv, NEW t \in PoolThreads, StartTask(t)
  PROVE  PoolInv'
<1>0. PoolTypes /\ StackInv /\ TaskInv /\ ForInv /\ LeftInv /\ PendingInv
  BY DEF PoolInv
<1>1. PICK k0 \in Tasks : k0 = took[t] /\ k0 # <<>>
  BY <1>0 DEF StartTask, PoolTypes
<1>2. PICK g \in Frame : g = TaskFrame(k0) /\ g.op = "body" /\ Key(g) = k0
  BY NewFrames
<1>3. /\ stack' = [stack EXCEPT ![t] = Append(stack[t], g)] /\ pending' = pending - 1
      /\ took' = [took EXCEPT ![t] = <<>>] /\ scan' = [scan EXCEPT ![t] = -1]
      /\ UNCHANGED <<deque, left, ran, called, returned>>
  BY <1>1, <1>2 DEF StartTask
<1>4. PICK n \in Nat : Pushed(t, n, g)
  BY <1>0, <1>3, AppendPushes
<1>5. /\ Others(t) /\ Len(stack[t]) = n /\ Len(stack'[t]) = n + 1 /\ stack'[t][n + 1] = g
      /\ \A i \in 1..n : stack'[t][i] = stack[t][i]
  BY <1>4 DEF Pushed
<1>6. /\ took'[t] = <<>> /\ scan'[t] = -1
      /\ \A u \in PoolThreads \ {t} : took'[u] = took[u] /\ scan'[u] = scan[u]
      /\ took' \in [PoolThreads -> Tasks \cup {<<>>}] /\ scan' \in [PoolThreads -> Int]
  BY <1>0, <1>3 DEF PoolTypes
<1>7. PoolTypes'
  <2>1. pending \in Int
    BY <1>0 DEF PoolTypes
  <2>2. pending' \in Int
    BY <1>3, <2>1
  <2> QED BY <1>0, <1>3, <1>5, <1>6, <2>2 DEF PoolTypes, Others
<1>8. IsTop(t, "join") \/ stack[t] = <<>>
  BY <1>0, <1>1 DEF StackInv
<1>9. ~IsTop(t, "counted")
  BY <1>8 DEF IsTop
<1>10. StackInv'
  <2>1. ASSUME NEW i \in 1..(Len(stack'[t]) - 1) PROVE stack'[t][i].op \in {"join", "count"}
    <3>1. \A l \in 1..(n - 1) : stack[t][l].op \in {"join", "count"}
      BY <1>0, <1>5 DEF StackInv
    <3>2. n > 0 => stack[t][n].op = "join"
      <4> SUFFICES ASSUME n > 0 PROVE stack[t][n].op = "join"
        OBVIOUS
      <4>1. stack[t] # <<>>
        BY <1>5
      <4> QED BY <1>5, <1>8, <4>1 DEF IsTop, Top, Last
    <3>3. i \in 1..(n - 1) \/ (i = n /\ n > 0)
      BY <1>5
    <3>4. stack'[t][i] = stack[t][i]
      BY <1>5, <3>3
    <3> QED BY <3>1, <3>2, <3>3, <3>4
  <2>2. ~(scan'[t] >= 0)
    BY <1>6
  <2> QED BY <1>0, <1>5, <1>6, <2>1, <2>2, StackKeeps
<1>11. FinishSame
  BY <1>0, <1>2, <1>4, PushedFinish
<1>12. ASSUME NEW k \in Tasks, NEW p, At(k, p)'
       PROVE  \/ k = k0 /\ p = <<"stack", t, n + 1>>
              \/ At(k, p) /\ p # <<"took", t, 0>>
  <2>1. CASE AtDeque(k, p)'
    BY <1>3, <2>1 DEF At, AtDeque
  <2>2. CASE AtTook(k, p)'
    <3>1. PICK u \in PoolThreads : p = <<"took", u, 0>> /\ took'[u] = k
      BY <2>2 DEF AtTook
    <3>2. k # <<>>
      BY TaskParts
    <3>3. u # t
      BY <1>6, <3>1, <3>2
    <3> QED BY <1>6, <3>1, <3>3 DEF At, AtTook
  <2>3. CASE AtStack(k, p)'
    <3>1. PICK u \in PoolThreads : \E i \in 1..Len(stack'[u]) :
            p = <<"stack", u, i>> /\ stack'[u][i].op \in TaskOps /\ Key(stack'[u][i]) = k
      BY <2>3 DEF AtStack, Key
    <3>2. PICK i \in 1..Len(stack'[u]) :
            p = <<"stack", u, i>> /\ stack'[u][i].op \in TaskOps /\ Key(stack'[u][i]) = k
      BY <3>1
    <3>3. CASE u = t /\ i = n + 1
      BY <1>2, <1>5, <3>2, <3>3
    <3>4. CASE ~(u = t /\ i = n + 1)
      <4>1. i \in 1..Len(stack[u]) /\ stack[u][i] = stack'[u][i]
        <5>1. CASE u # t
          BY <1>5, <5>1 DEF Others
        <5>2. CASE u = t
          BY <1>5, <3>4, <5>2
        <5> QED BY <5>1, <5>2
      <4> QED BY <3>2, <4>1 DEF At, AtStack
    <3> QED BY <3>3, <3>4
  <2> QED BY <1>12, <2>1, <2>2, <2>3 DEF At
<1>13. At(k0, <<"took", t, 0>>)
  BY <1>1 DEF At, AtTook
<1>14. NoneNew
  BY <1>12, <1>13 DEF NoneNew
<1>15. OnePlace'
  <2> SUFFICES ASSUME NEW k \in Tasks, NEW p, NEW q, At(k, p)', At(k, q)' PROVE p = q
    BY DEF OnePlace
  <2>1. CASE k # k0
    BY <1>0, <1>12, <2>1 DEF TaskInv
  <2>2. CASE k = k0
    <3>1. ASSUME NEW r, At(k, r)' PROVE r = <<"stack", t, n + 1>>
      BY <1>0, <1>12, <1>13, <2>2, <3>1 DEF TaskInv
    <3> QED BY <3>1
  <2> QED BY <2>1, <2>2
<1>16. TaskInv'
  BY <1>0, <1>3, <1>11, <1>14, <1>15, TasksKeep
<1>17. LeftInv'
  BY <1>0, <1>3, <1>11, LeftKeeps
<1>18. ForInv'
  <2>1. CallsWithin(stack', stack)
    <3> SUFFICES ASSUME NEW u \in PoolThreads, NEW i \in 1..Len(stack'[u]), stack'[u][i].op \in ForOps
                 PROVE  i \in 1..Len(stack[u]) /\ stack[u][i] = stack'[u][i]
      BY DEF CallsWithin
    <3>1. CASE u = t /\ i = n + 1
      BY <1>2, <1>5, <3>1 DEF ForOps
    <3>2. CASE ~(u = t /\ i = n + 1)
      BY <1>5, <3>2 DEF Others
    <3> QED BY <3>1, <3>2
  <2> QED BY <1>0, <1>3, <1>14, <2>1, UntouchedKeeps, CallsKeep
<1>19. PendingInv'
  <2>1. ~IsTop(t, "counted")'
    BY <1>2, <1>5 DEF IsTop, Top, Last
  <2>2. Counting' = Counting
    BY <1>5, <1>9, <2>1, CountingKeeps
  <2>3. t \in Taking /\ Taking' = Taking \ {t}
    BY <1>1, <1>6 DEF Taking
  <2>4. Queued' = Queued
    BY <1>3 DEF Queued
  <2>5. IsFiniteSet(Queued) /\ IsFiniteSet(Counting) /\ IsFiniteSet(Taking)
    BY <1>0 DEF PendingInv
  <2>6. /\ Cardinality(Queued) \in Nat /\ Cardinality(Counting) \in Nat /\ Cardinality(Taking) \in Nat
        /\ IsFiniteSet(Taking \ {t}) /\ Cardinality(Taking \ {t}) = Cardinality(Taking) - 1
    BY <2>3, <2>5, FS_CardinalityType, FS_RemoveElement
  <2>7. pending = Cardinality(Queued) - Cardinality(Counting) + Cardinality(Taking)
    BY <1>0 DEF PendingInv
  <2>8. pending' = Cardinality(Queued') - Cardinality(Counting') + Cardinality(Taking')
    BY <1>3, <2>2, <2>3, <2>4, <2>6, <2>7
  <2> QED BY <2>2, <2>3, <2>4, <2>5, <2>6, <2>8 DEF PendingInv
<1> QED BY <1>7, <1>10, <1>16, <1>17, <1>18, <1>19 DEF PoolInv

\* TryOne: the r-th task of deque v moves into thread t's hands.
Takes(t, v, r, n, k0) ==
  /\ v \in Workers /\ n \in Nat /\ Len(deque[v]) = n /\ r \in 1..n /\ deque[v][r] = k0
  /\ deque' \in [Workers -> Seq(Tasks)] /\ \A w \in Workers \ {v} : deque'[w] = deque[w]
  /\ Len(deque'[v]) = n - 1
  /\ \A i \in 1..(n - 1) : deque'[v][i] = deque[v][IF i < r THEN i ELSE i + 1]
  /\ took[t] = <<>> /\ k0 \in Tasks /\ took' \in [PoolThreads -> Tasks \cup {<<>>}]
  /\ took'[t] = k0 /\ \A u \in PoolThreads \ {t} : took'[u] = took[u]

\* Where the task now at place p was before.
Came(t, v, r, n, p, q) ==
  \/ p = <<"took", t, 0>> /\ q = <<"deque", v, r>>
  \/ \E i \in 1..(n - 1) : p = <<"deque", v, i>> /\ q = <<"deque", v, IF i < r THEN i ELSE i + 1>>
  \/ p = q /\ p # <<"took", t, 0>> /\ \A i : p # <<"deque", v, i>>

\* A place after the take stems from one place before.
LEMMA CameOnce ==
  ASSUME NEW t, NEW v, NEW n \in Nat, NEW r \in 1..n, NEW p1, NEW p2, NEW q,
         Came(t, v, r, n, p1, q), Came(t, v, r, n, p2, q)
  PROVE  p1 = p2
<1>1. CASE p1 = <<"took", t, 0>> /\ q = <<"deque", v, r>>
  <2>1. ~\E i \in 1..(n - 1) : q = <<"deque", v, IF i < r THEN i ELSE i + 1>>
    BY <1>1
  <2> QED BY <1>1, <2>1 DEF Came
<1>2. CASE \E i \in 1..(n - 1) : p1 = <<"deque", v, i>> /\ q = <<"deque", v, IF i < r THEN i ELSE i + 1>>
  <2>1. PICK i \in 1..(n - 1) : p1 = <<"deque", v, i>> /\ q = <<"deque", v, IF i < r THEN i ELSE i + 1>>
    BY <1>2
  <2>2. CASE p2 = <<"took", t, 0>> /\ q = <<"deque", v, r>>
    BY <2>1, <2>2
  <2>3. CASE \E l \in 1..(n - 1) : p2 = <<"deque", v, l>> /\ q = <<"deque", v, IF l < r THEN l ELSE l + 1>>
    <3>1. PICK l \in 1..(n - 1) : p2 = <<"deque", v, l>> /\ q = <<"deque", v, IF l < r THEN l ELSE l + 1>>
      BY <2>3
    <3>2. (IF i < r THEN i ELSE i + 1) = (IF l < r THEN l ELSE l + 1)
      BY <2>1, <3>1
    <3>3. i = l
      BY <3>2
    <3> QED BY <2>1, <3>1, <3>3
  <2>4. CASE p2 = q /\ \A l : p2 # <<"deque", v, l>>
    BY <2>1, <2>4
  <2> QED BY <2>2, <2>3, <2>4 DEF Came
<1>3. CASE p1 = q /\ p1 # <<"took", t, 0>> /\ \A i : p1 # <<"deque", v, i>>
  BY <1>3 DEF Came
<1> QED BY <1>1, <1>2, <1>3 DEF Came

\* The task taken moves from the deque to the thief's hand, the others stay.
LEMMA TakeMoves ==
  ASSUME NEW t \in PoolThreads, NEW v, NEW r, NEW n, NEW k0, Takes(t, v, r, n, k0), stack' = stack,
         NEW k \in Tasks, NEW p, At(k, p)'
  PROVE  \E q : At(k, q) /\ Came(t, v, r, n, p, q)
<1>1. CASE AtDeque(k, p)'
  <2>1. PICK w \in Workers : \E i \in 1..Len(deque'[w]) : p = <<"deque", w, i>> /\ deque'[w][i] = k
    BY <1>1 DEF AtDeque
  <2>2. PICK i \in 1..Len(deque'[w]) : p = <<"deque", w, i>> /\ deque'[w][i] = k
    BY <2>1
  <2>3. CASE w # v
    <3>1. At(k, p)
      BY <2>2, <2>3 DEF At, AtDeque, Takes
    <3>2. Came(t, v, r, n, p, p)
      BY <2>2, <2>3 DEF Came
    <3> QED BY <3>1, <3>2
  <2>4. CASE w = v
    <3>1. i \in 1..(n - 1)
      BY <2>4 DEF Takes
    <3>2. PICK l : l = IF i < r THEN i ELSE i + 1
      OBVIOUS
    <3>3. l \in 1..Len(deque[v]) /\ deque[v][l] = k
      BY <2>2, <2>4, <3>1, <3>2 DEF Takes
    <3>4. At(k, <<"deque", v, l>>)
      BY <2>4, <3>3 DEF At, AtDeque
    <3>5. Came(t, v, r, n, p, <<"deque", v, l>>)
      BY <2>2, <2>4, <3>1, <3>2 DEF Came
    <3> QED BY <3>4, <3>5
  <2> QED BY <2>3, <2>4
<1>2. CASE AtTook(k, p)'
  <2>1. PICK u \in PoolThreads : p = <<"took", u, 0>> /\ took'[u] = k
    BY <1>2 DEF AtTook
  <2>2. CASE u = t
    <3>1. At(k, <<"deque", v, r>>)
      BY <2>1, <2>2 DEF Takes, At, AtDeque
    <3>2. Came(t, v, r, n, p, <<"deque", v, r>>)
      BY <2>1, <2>2 DEF Came
    <3> QED BY <3>1, <3>2
  <2>3. CASE u # t
    <3>1. At(k, p)
      BY <2>1, <2>3 DEF At, AtTook, Takes
    <3>2. Came(t, v, r, n, p, p)
      BY <2>1, <2>3 DEF Came
    <3> QED BY <3>1, <3>2
  <2> QED BY <2>2, <2>3
<1>3. CASE AtStack(k, p)'
  <2>1. AtStack(k, p)
    BY <1>3 DEF AtStack, Key
  <2>2. Came(t, v, r, n, p, p)
    BY <2>1 DEF Came, AtStack
  <2> QED BY <2>1, <2>2 DEF At
<1> QED BY <1>1, <1>2, <1>3 DEF At

\* A task is taken from a deque.
LEMMA TakeStep ==
  ASSUME PoolInv, NEW t \in PoolThreads, NEW v, NEW r, NEW n, NEW k0, Takes(t, v, r, n, k0),
         scan[t] >= 0, UNCHANGED <<pending, left, stack, scan, ran, called, returned>>
  PROVE  PoolInv'
<1>0. PoolTypes /\ StackInv /\ TaskInv /\ ForInv /\ LeftInv /\ PendingInv
  BY DEF PoolInv
<1>1. PoolTypes'
  BY <1>0 DEF PoolTypes, Takes
<1>2. StackInv'
  <2> SUFFICES ASSUME NEW u \in PoolThreads
               PROVE  /\ \A i \in 1..(Len(stack'[u]) - 1) : stack'[u][i].op \in {"join", "count"}
                      /\ took'[u] # <<>> => scan'[u] >= 0
                      /\ scan'[u] >= 0 => IsTop(u, "join")' \/ (stack'[u] = <<>> /\ u \in Workers)
    BY DEF StackInv
  <2>1. IsTop(u, "join")' <=> IsTop(u, "join")
    BY DEF IsTop, Top
  <2> QED BY <1>0, <2>1 DEF StackInv, Takes
<1>3. n \in Nat /\ r \in 1..n
  BY DEF Takes
<1>4. \A k \in Tasks : \A p : At(k, p)' => \E q : At(k, q) /\ Came(t, v, r, n, p, q)
  BY TakeMoves
<1>5. NoneNew
  BY <1>4 DEF NoneNew
<1>6. OnePlace'
  <2> SUFFICES ASSUME NEW k \in Tasks, NEW p1, NEW p2, At(k, p1)', At(k, p2)' PROVE p1 = p2
    BY DEF OnePlace
  <2>1. PICK q1 : At(k, q1) /\ Came(t, v, r, n, p1, q1)
    BY <1>4
  <2>2. PICK q2 : At(k, q2) /\ Came(t, v, r, n, p2, q2)
    BY <1>4
  <2>3. q1 = q2
    BY <1>0, <2>1, <2>2 DEF TaskInv
  <2> QED BY <1>3, <2>1, <2>2, <2>3, CameOnce
<1>7. FinishSame
  BY DEF FinishSame, Finishing, Key
<1>8. TaskInv'
  BY <1>0, <1>5, <1>6, <1>7, TasksKeep
<1>9. ForInv'
  BY <1>0, <1>5, UntouchedKeeps, CallsKeep DEF CallsWithin
<1>10. LeftInv'
  BY <1>0, <1>7, LeftKeeps
<1>11. PendingInv'
  <2>1. Counting' = Counting
    BY DEF Counting, IsTop, Top
  <2>2. t \notin Taking /\ Taking' = Taking \cup {t}
    <3>1. k0 # <<>>
      <4>1. k0 \in Tasks
        BY DEF Takes
      <4> QED BY <4>1, TaskParts
    <3> QED BY <3>1 DEF Taking, Takes
  <2>3. <<v, n>> \in Queued
    BY <1>0, <1>3, QueuedAt DEF Takes
  <2>4. ASSUME NEW x PROVE x \in Queued' <=> x \in Queued /\ x # <<v, n>>
    <3>1. x \in Queued' <=> \E w \in Workers : \E i \in 1..Len(deque'[w]) : x = <<w, i>>
      <4>1. \A w \in Workers : DOMAIN deque'[w] = 1..Len(deque'[w])
        BY DEF Takes
      <4> QED BY <4>1 DEF Queued
    <3>2. x \in Queued <=> \E w \in Workers : \E i \in 1..Len(deque[w]) : x = <<w, i>>
      BY <1>0, QueuedAt
    <3>3. \A w \in Workers : \A i : i \in 1..Len(deque'[w]) <=> i \in 1..Len(deque[w]) /\ ~(w = v /\ i = n)
      <4>1. ASSUME NEW w \in Workers, NEW i
            PROVE  i \in 1..Len(deque'[w]) <=> i \in 1..Len(deque[w]) /\ ~(w = v /\ i = n)
        <5>1. CASE w = v
          BY <1>3, <5>1 DEF Takes
        <5>2. CASE w # v
          BY <5>2 DEF Takes
        <5> QED BY <5>1, <5>2
      <4> QED BY <4>1
    <3> QED BY <3>1, <3>2, <3>3
  <2>5. Queued' = Queued \ {<<v, n>>}
    BY <2>4
  <2>6. IsFiniteSet(Queued) /\ IsFiniteSet(Counting) /\ IsFiniteSet(Taking)
    BY <1>0 DEF PendingInv
  <2>7. /\ Cardinality(Queued) \in Nat /\ Cardinality(Counting) \in Nat /\ Cardinality(Taking) \in Nat
        /\ IsFiniteSet(Taking \cup {t}) /\ Cardinality(Taking \cup {t}) = Cardinality(Taking) + 1
    BY <2>2, <2>6, FS_CardinalityType, FS_AddElement
  <2>8. /\ IsFiniteSet(Queued \ {<<v, n>>})
        /\ Cardinality(Queued \ {<<v, n>>}) = Cardinality(Queued) - 1
    BY <2>3, <2>6, FS_RemoveElement
  <2>9. pending = Cardinality(Queued) - Cardinality(Counting) + Cardinality(Taking)
    BY <1>0 DEF PendingInv
  <2>10. pending' = Cardinality(Queued') - Cardinality(Counting') + Cardinality(Taking')
    BY <2>1, <2>2, <2>5, <2>7, <2>8, <2>9
  <2> QED BY <2>1, <2>2, <2>5, <2>6, <2>7, <2>8, <2>10 DEF PendingInv
<1> QED BY <1>1, <1>2, <1>8, <1>9, <1>10, <1>11 DEF PoolInv

\* One deque is tried, the own one from the back and another from the front.
LEMMA TryOneStep ==
  ASSUME PoolInv, NEW t \in PoolThreads, TryOne(t)
  PROVE  PoolInv'
<1>0. PoolTypes /\ StackInv
  BY DEF PoolInv
<1>1. scan \in [PoolThreads -> Int] /\ deque \in [Workers -> Seq(Tasks)]
      /\ took \in [PoolThreads -> Tasks \cup {<<>>}]
  BY <1>0 DEF PoolTypes
<1>2. PICK k \in Nat : k = scan[t]
  BY <1>1 DEF TryOne
<1>3. PICK v \in Workers : v = IF k = 0 THEN Self(t) ELSE (Self(t) + k) % NWorkers
  BY PoolFacts DEF Workers
<1>4. CASE deque[v] = <<>>
  <2>1. /\ scan' = [scan EXCEPT ![t] = IF k = NWorkers THEN -1 ELSE k + 1]
        /\ UNCHANGED <<deque, pending, left, stack, took, ran, called, returned>>
        /\ took[t] = <<>>
    BY <1>2, <1>3, <1>4 DEF TryOne
  <2>2. scan' \in [PoolThreads -> Int] /\ \A u \in PoolThreads \ {t} : scan'[u] = scan[u]
    BY <1>1, <2>1
  <2>3. \A u \in PoolThreads :
          /\ took[u] # <<>> => scan'[u] >= 0
          /\ scan'[u] >= 0 => IsTop(u, "join") \/ (stack[u] = <<>> /\ u \in Workers)
    BY <1>0, <1>2, <2>1, <2>2 DEF StackInv
  <2> QED BY <2>1, <2>2, <2>3, SearchStep
<1>5. CASE deque[v] # <<>>
  <2>1. PICK s \in Seq(Tasks) : s = deque[v] /\ s # <<>>
    BY <1>1, <1>5
  <2>2. /\ took' = [took EXCEPT ![t] = IF k = 0 THEN Last(s) ELSE Head(s)]
        /\ deque' = [deque EXCEPT ![v] = IF k = 0 THEN Front(s) ELSE Tail(s)]
        /\ UNCHANGED <<pending, left, stack, scan, ran, called, returned>>
        /\ took[t] = <<>> /\ scan[t] >= 0
    BY <1>2, <1>3, <2>1 DEF TryOne
  <2>3. PICK n \in Nat : n = Len(s) /\ n > 0
    BY <2>1
  <2>4. CASE k = 0
    <3>1. Last(s) = s[n] /\ s[n] \in Tasks /\ Front(s) \in Seq(Tasks) /\ Len(Front(s)) = n - 1
          /\ \A i \in 1..(n - 1) : Front(s)[i] = s[i]
      BY <2>1, <2>3, FrontAt
    <3>2. took' = [took EXCEPT ![t] = s[n]] /\ deque' = [deque EXCEPT ![v] = Front(s)]
      BY <2>2, <2>4, <3>1
    <3>3. deque'[v] = Front(s) /\ deque' \in [Workers -> Seq(Tasks)]
          /\ \A w \in Workers \ {v} : deque'[w] = deque[w]
      BY <1>1, <3>1, <3>2
    <3>4. took'[t] = s[n] /\ took' \in [PoolThreads -> Tasks \cup {<<>>}]
          /\ \A u \in PoolThreads \ {t} : took'[u] = took[u]
      BY <1>1, <3>1, <3>2
    <3>6. \A i \in 1..(n - 1) : deque'[v][i] = deque[v][IF i < n THEN i ELSE i + 1]
      BY <2>1, <2>3, <3>1, <3>3
    <3>7. Len(deque'[v]) = n - 1 /\ Len(deque[v]) = n /\ n \in 1..n /\ deque[v][n] = s[n]
      BY <2>1, <2>3, <3>1, <3>3
    <3>5. Takes(t, v, n, n, s[n])
      BY <2>2, <3>1, <3>3, <3>4, <3>6, <3>7 DEF Takes
    <3> QED BY <2>2, <3>5, TakeStep
  <2>5. CASE k # 0
    <3>1. Head(s) = s[1] /\ s[1] \in Tasks /\ Tail(s) \in Seq(Tasks) /\ Len(Tail(s)) = n - 1
          /\ \A i \in 1..(n - 1) : Tail(s)[i] = s[i + 1]
      BY <2>1, <2>3
    <3>2. took' = [took EXCEPT ![t] = s[1]] /\ deque' = [deque EXCEPT ![v] = Tail(s)]
      BY <2>2, <2>5, <3>1
    <3>3. deque'[v] = Tail(s) /\ deque' \in [Workers -> Seq(Tasks)]
          /\ \A w \in Workers \ {v} : deque'[w] = deque[w]
      BY <1>1, <3>1, <3>2
    <3>4. took'[t] = s[1] /\ took' \in [PoolThreads -> Tasks \cup {<<>>}]
          /\ \A u \in PoolThreads \ {t} : took'[u] = took[u]
      BY <1>1, <3>1, <3>2
    <3>5. Takes(t, v, 1, n, s[1])
      BY <2>1, <2>2, <2>3, <3>1, <3>3, <3>4 DEF Takes
    <3> QED BY <2>2, <3>5, TakeStep
  <2> QED BY <2>4, <2>5
<1> QED BY <1>4, <1>5

\* PushTask: the chunk the frame is at, untouched so far, is queued.
LEMMA PushTaskStep ==
  ASSUME PoolInv, NEW t \in PoolThreads, PushTask(t)
  PROVE  PoolInv'
<1>0. PoolTypes /\ StackInv /\ TaskInv /\ ForInv /\ LeftInv /\ PendingInv
  BY DEF PoolInv
<1>1. IsTop(t, "push") /\ stack[t] # <<>>
  BY DEF PushTask, IsTop
<1>2. PICK n \in Nat, f \in Frame : TopIs(t, n, f)
  BY <1>0, <1>1, TopFrame
<1>3. f.op = "push" /\ Top(t) = f
  BY <1>1, <1>2 DEF IsTop, TopIs
<1>4. PICK g \in Frame : /\ g = [f EXCEPT !.op = "counted"]
                         /\ g.op = "counted" /\ g.job = f.job /\ g.chunk = f.chunk
  <2>1. "counted" \in ForOps \cup TaskOps
    BY DEF ForOps
  <2> QED BY <2>1, FrameFacts
<1>5. PICK k0 \in Tasks : k0 = Key(f) /\ k0 = <<f.job, f.chunk>> /\ k0[1] = f.job /\ k0[2] = f.chunk
  BY FrameFacts DEF Key
<1>6. PICK w \in Workers : w = (Self(t) + f.chunk) % NWorkers
  BY PoolFacts, FrameFacts DEF Workers
<1>7. /\ SetTop(t, g) /\ deque' = [deque EXCEPT ![w] = Append(deque[w], k0)]
      /\ UNCHANGED <<pending, left, scan, took, ran, called, returned>>
  BY <1>3, <1>4, <1>5, <1>6 DEF PushTask
<1>8. Replaced(t, n, g)
  BY <1>0, <1>2, <1>7, SetTopReplaces
<1>9. /\ Others(t) /\ Len(stack[t]) = n /\ Len(stack'[t]) = n /\ stack'[t][n] = g /\ stack[t][n] = f /\ n > 0
      /\ n \in 1..Len(stack[t])
  BY <1>2, <1>8 DEF Replaced, TopIs
<1>10. PICK s \in Seq(Tasks), m \in Nat : s = deque[w] /\ m = Len(s)
  BY <1>0 DEF PoolTypes
<1>11. /\ Append(s, k0) \in Seq(Tasks) /\ Len(Append(s, k0)) = m + 1 /\ Append(s, k0)[m + 1] = k0
       /\ \A i \in 1..m : Append(s, k0)[i] = s[i]
  BY <1>10
<1>12. /\ deque' \in [Workers -> Seq(Tasks)] /\ \A x \in Workers \ {w} : deque'[x] = deque[x]
       /\ Len(deque[w]) = m /\ Len(deque'[w]) = m + 1 /\ deque'[w][m + 1] = k0
       /\ \A i \in 1..m : deque'[w][i] = deque[w][i]
  BY <1>0, <1>7, <1>10, <1>11 DEF PoolTypes
<1>13. PoolTypes'
  BY <1>0, <1>7, <1>9, <1>12 DEF PoolTypes, Others
<1>14. StackInv'
  <2>1. ~(scan[t] >= 0) /\ took[t] = <<>>
    BY <1>0, <1>2, <1>3, NotScanning
  <2>2. \A i \in 1..(Len(stack'[t]) - 1) : stack'[t][i].op \in {"join", "count"}
    BY <1>0, <1>8, <1>9, BelowTop DEF Replaced
  <2> QED BY <1>0, <1>7, <1>9, <2>1, <2>2, StackKeeps
<1>15. FinishSame
  BY <1>0, <1>2, <1>3, <1>4, <1>8, ReplacedFinish
<1>16. Untouched(k0) /\ f.job \in called \ returned
  <2>1. f.chunk >= f.chunk
    BY FrameFacts
  <2> QED BY <1>0, <1>3, <1>5, <1>9, <2>1 DEF ForInv, CallsOpen, Ahead, ForOps
<1>17. ASSUME NEW k \in Tasks, NEW p, At(k, p)'
       PROVE  At(k, p) \/ (k = k0 /\ p = <<"deque", w, m + 1>>)
  <2>1. CASE AtDeque(k, p)'
    <3>1. PICK x \in Workers : \E i \in 1..Len(deque'[x]) : p = <<"deque", x, i>> /\ deque'[x][i] = k
      BY <2>1 DEF AtDeque
    <3>2. PICK i \in 1..Len(deque'[x]) : p = <<"deque", x, i>> /\ deque'[x][i] = k
      BY <3>1
    <3>3. CASE x = w /\ i = m + 1
      BY <1>12, <3>2, <3>3
    <3>4. CASE ~(x = w /\ i = m + 1)
      <4>1. i \in 1..Len(deque[x]) /\ deque[x][i] = k
        BY <1>12, <3>2, <3>4
      <4> QED BY <3>2, <4>1 DEF At, AtDeque
    <3> QED BY <3>3, <3>4
  <2>2. CASE AtTook(k, p)'
    BY <1>7, <2>2 DEF At, AtTook
  <2>3. CASE AtStack(k, p)'
    <3>1. TasksWithin(stack', stack)
      BY <1>0, <1>2, <1>3, <1>4, <1>8, ReplacedTasks DEF TaskOps, Key
    <3>2. PICK u \in PoolThreads : \E i \in 1..Len(stack'[u]) :
            p = <<"stack", u, i>> /\ stack'[u][i].op \in TaskOps /\ Key(stack'[u][i]) = k
      BY <2>3 DEF AtStack, Key
    <3>3. PICK i \in 1..Len(stack'[u]) :
            p = <<"stack", u, i>> /\ stack'[u][i].op \in TaskOps /\ Key(stack'[u][i]) = k
      BY <3>2
    <3> QED BY <3>1, <3>3 DEF TasksWithin, At, AtStack
  <2> QED BY <1>17, <2>1, <2>2, <2>3 DEF At
<1>18. \A p : ~At(k0, p)
  BY <1>16 DEF Untouched
<1>19. TaskInv'
  <2>1. ASSUME NEW k \in Tasks, NEW p, NEW q, At(k, p)', At(k, q)' PROVE p = q
    BY <1>0, <1>17, <1>18, <2>1 DEF TaskInv
  <2>2. ASSUME NEW k \in Tasks, NEW p, At(k, p)'
        PROVE  (~Finishing(k)' => ran'[k] = 0) /\ k[1] \in called' \ returned'
    <3>1. CASE k = k0
      BY <1>5, <1>7, <1>16, <3>1 DEF Untouched
    <3>2. CASE k # k0
      BY <1>0, <1>7, <1>15, <1>17, <2>2, <3>2 DEF TaskInv, FinishSame
    <3> QED BY <3>1, <3>2
  <2>3. \A k \in Tasks : /\ Finishing(k)' => ran'[k] = 1
                         /\ (ran'[k] = 0 \/ ran'[k] = 1) /\ (k[1] \in returned' => ran'[k] = 1)
    BY <1>0, <1>7, <1>15 DEF TaskInv, FinishSame
  <2> QED BY <2>1, <2>2, <2>3 DEF TaskInv
<1>20. LeftInv'
  BY <1>0, <1>7, <1>15, LeftKeeps
<1>21. ForInv'
  <2>1. \A k \in Tasks : k # k0 /\ Untouched(k) => Untouched(k)'
    BY <1>7, <1>17 DEF Untouched
  <2>2. ASSUME NEW u \in PoolThreads, NEW i \in 1..Len(stack'[u]), stack'[u][i].op \in ForOps
        PROVE  /\ i \in 1..Len(stack[u]) /\ stack[u][i].op \in ForOps
               /\ stack[u][i].job = stack'[u][i].job
               /\ (stack'[u][i] = stack[u][i] /\ ~(u = t /\ i = n)) \/ (u = t /\ i = n)
    <3>1. CASE u # t
      BY <2>2, <3>1, <1>9 DEF Others
    <3>2. CASE u = t /\ i # n
      BY <2>2, <3>2, <1>8, <1>9 DEF Replaced
    <3>3. CASE u = t /\ i = n
      BY <3>3, <1>3, <1>4, <1>9 DEF ForOps
    <3> QED BY <3>1, <3>2, <3>3
  <2>3. ASSUME NEW u \in PoolThreads, NEW v \in PoolThreads,
               NEW i \in 1..Len(stack'[u]), NEW l \in 1..Len(stack'[v]),
               stack'[u][i].op \in ForOps, stack'[v][l].op \in ForOps,
               stack'[u][i].job = stack'[v][l].job
        PROVE  u = v /\ i = l
    BY <1>0, <2>2, <2>3 DEF ForInv, OneCall
  <2>4. ASSUME NEW u \in PoolThreads, NEW i \in 1..Len(stack'[u]), stack'[u][i].op \in ForOps
        PROVE  stack'[u][i].job \in called' \ returned'
    BY <1>0, <1>7, <2>2, <2>4 DEF ForInv, CallsOpen
  <2>5. ASSUME NEW u \in PoolThreads, NEW i \in 1..Len(stack'[u]), NEW k \in Tasks,
               k[1] = stack'[u][i].job,
               \/ stack'[u][i].op = "push" /\ k[2] >= stack'[u][i].chunk
               \/ stack'[u][i].op = "counted" /\ k[2] > stack'[u][i].chunk
        PROVE  Untouched(k)'
    <3>0. stack'[u][i].op \in ForOps
      BY <2>5 DEF ForOps
    <3>1. CASE stack'[u][i] = stack[u][i] /\ ~(u = t /\ i = n)
      <4>1. stack[u][i].job # f.job
        BY <1>0, <1>3, <1>9, <2>2, <3>0, <3>1 DEF ForInv, OneCall, ForOps
      <4>2. k # k0
        BY <1>5, <2>5, <3>1, <4>1
      <4>3. Untouched(k)
        BY <1>0, <2>2, <2>5, <3>0, <3>1 DEF ForInv, Ahead
      <4> QED BY <2>1, <4>2, <4>3
    <3>2. CASE u = t /\ i = n
      <4>1. k[1] = f.job /\ k[2] > f.chunk
        BY <2>5, <3>2, <1>4, <1>9
      <4>2. f.chunk \in Nat /\ k[2] \in Int
        <5>1. PICK j \in Jobs : \E c \in 0..(NChunks[j] - 1) : k = <<j, c>>
          BY TaskParts
        <5> QED BY <5>1, FrameFacts
      <4>3. k # k0 /\ k[2] >= f.chunk
        BY <1>5, <4>1, <4>2
      <4>4. Untouched(k)
        BY <1>0, <1>3, <1>9, <4>1, <4>3 DEF ForInv, Ahead
      <4> QED BY <2>1, <4>3, <4>4
    <3> QED BY <2>2, <3>0, <3>1, <3>2
  <2>6. \A k \in Tasks : k[1] \notin called' => Untouched(k)'
    BY <1>0, <1>5, <1>7, <1>16, <2>1 DEF ForInv, Uncalled
  <2> QED BY <2>3, <2>4, <2>5, <2>6 DEF ForInv, OneCall, CallsOpen, Ahead, Uncalled
<1>22. PendingInv'
  <2>1. t \notin Counting /\ Counting' = Counting \cup {t}
    <3>1. t \notin Counting
      BY <1>3 DEF Counting, IsTop
    <3>2. t \in Counting'
      <4>1. stack'[t] # <<>> /\ Last(stack'[t]) = g
        BY <1>9 DEF Last
      <4> QED BY <1>4, <4>1 DEF Counting, IsTop, Top
    <3>3. Counting \subseteq PoolThreads /\ Counting' \subseteq PoolThreads
      BY DEF Counting
    <3> QED BY <1>9, <3>1, <3>2, <3>3, CountingOthers
  <2>2. Taking' = Taking
    BY <1>7 DEF Taking
  <2>3. <<w, m + 1>> \notin Queued
    BY <1>0, <1>12, QueuedAt
  <2>4. ASSUME NEW x PROVE x \in Queued' <=> x \in Queued \/ x = <<w, m + 1>>
    <3>1. x \in Queued' <=> \E v \in Workers : \E i \in 1..Len(deque'[v]) : x = <<v, i>>
      <4>1. \A v \in Workers : DOMAIN deque'[v] = 1..Len(deque'[v])
        BY <1>12
      <4> QED BY <4>1 DEF Queued
    <3>2. x \in Queued <=> \E v \in Workers : \E i \in 1..Len(deque[v]) : x = <<v, i>>
      BY <1>0, QueuedAt
    <3>3. ASSUME NEW v \in Workers, NEW i
          PROVE  i \in 1..Len(deque'[v]) <=> i \in 1..Len(deque[v]) \/ (v = w /\ i = m + 1)
      <4>1. CASE v = w
        BY <1>12, <4>1
      <4>2. CASE v # w
        BY <1>12, <4>2
      <4> QED BY <4>1, <4>2
    <3> QED BY <3>1, <3>2, <3>3
  <2>5. Queued' = Queued \cup {<<w, m + 1>>}
    BY <2>4
  <2>6. IsFiniteSet(Queued) /\ IsFiniteSet(Counting) /\ IsFiniteSet(Taking)
    BY <1>0 DEF PendingInv
  <2>7. /\ Cardinality(Queued) \in Nat /\ Cardinality(Counting) \in Nat /\ Cardinality(Taking) \in Nat
        /\ IsFiniteSet(Counting \cup {t}) /\ Cardinality(Counting \cup {t}) = Cardinality(Counting) + 1
    BY <2>1, <2>6, FS_CardinalityType, FS_AddElement
  <2>8. /\ IsFiniteSet(Queued \cup {<<w, m + 1>>})
        /\ Cardinality(Queued \cup {<<w, m + 1>>}) = Cardinality(Queued) + 1
    BY <2>3, <2>6, FS_AddElement
  <2>9. pending = Cardinality(Queued) - Cardinality(Counting) + Cardinality(Taking)
    BY <1>0 DEF PendingInv
  <2>10. pending' = Cardinality(Queued') - Cardinality(Counting') + Cardinality(Taking')
    BY <1>7, <2>1, <2>2, <2>5, <2>7, <2>8, <2>9
  <2> QED BY <2>1, <2>2, <2>5, <2>6, <2>7, <2>8, <2>10 DEF PendingInv
<1> QED BY <1>13, <1>14, <1>19, <1>20, <1>21, <1>22 DEF PoolInv

-----------------------------------------------------------------------------
(* The pool is sound *)

\* In the empty pool every chunk is unfinished and nothing is anywhere.
LEMMA PoolInvInit == PoolInit => PoolInv
<1> SUFFICES ASSUME PoolInit PROVE PoolInv
  OBVIOUS
<1>1. /\ \A w \in Workers : deque[w] = <<>> /\ Len(deque[w]) = 0
      /\ \A t \in PoolThreads : /\ stack[t] = <<>> /\ Len(stack[t]) = 0
                                /\ took[t] = <<>> /\ scan[t] = -1
      /\ \A k \in Tasks : ran[k] = 0
      /\ \A j \in Jobs : left[j] = NChunks[j]
      /\ called = {} /\ returned = {} /\ pending = 0
  BY DEF PoolInit
<1>2. PoolTypes
  <2>1. left \in [Jobs -> Int]
    BY PoolFacts DEF PoolInit
  <2>2. deque \in [Workers -> Seq(Tasks)] /\ stack \in [PoolThreads -> Seq(Frame)]
    BY DEF PoolInit
  <2>3. took \in [PoolThreads -> Tasks \cup {<<>>}] /\ scan \in [PoolThreads -> Int]
        /\ ran \in [Tasks -> Nat] /\ pending \in Int
    BY DEF PoolInit
  <2> QED BY <1>1, <2>1, <2>2, <2>3 DEF PoolTypes
<1>3. StackInv
  BY <1>1 DEF StackInv
<1>4. \A k \in Tasks : ~Finishing(k) /\ \A p : ~At(k, p)
  <2>1. \A k \in Tasks : k # <<>>
    BY TaskParts
  <2>2. \A k \in Tasks : \A p : ~AtTook(k, p)
    BY <1>1, <2>1 DEF AtTook
  <2>3. \A k \in Tasks : \A p : ~AtDeque(k, p) /\ ~AtStack(k, p)
    BY <1>1 DEF AtDeque, AtStack
  <2>4. \A k \in Tasks : ~Finishing(k)
    BY <1>1 DEF Finishing
  <2> QED BY <2>2, <2>3, <2>4 DEF At
<1>5. TaskInv
  BY <1>1, <1>4 DEF TaskInv
<1>6. ForInv
  BY <1>1, <1>4 DEF ForInv, OneCall, CallsOpen, Ahead, Uncalled, Untouched
<1>7. LeftInv
  <2> SUFFICES ASSUME NEW j \in Jobs PROVE left[j] = Cardinality(Unfinished(j))
    BY DEF LeftInv
  <2>1. NChunks[j] \in Nat /\ NChunks[j] - 1 \in Int /\ NChunks[j] >= 2
    BY PoolFacts
  <2>2. \A c \in 0..(NChunks[j] - 1) : <<j, c>> \in Tasks
    BY TaskParts
  <2>3. Unfinished(j) = 0..(NChunks[j] - 1)
    BY <1>1, <2>2 DEF Unfinished
  <2>4. Cardinality(0..(NChunks[j] - 1)) = NChunks[j]
    <3>1. PICK b \in Int : b = NChunks[j] - 1 /\ b >= 1
      BY <2>1
    <3>2. Cardinality(0..b) = b + 1
      BY <3>1, FS_Interval
    <3> QED BY <2>1, <3>1, <3>2
  <2> QED BY <1>1, <2>3, <2>4
<1>8. PendingInv
  <2>1. Queued = {}
    BY <1>1 DEF Queued
  <2>2. Counting = {} /\ Taking = {}
    BY <1>1 DEF Counting, Taking, IsTop
  <2>3. IsFiniteSet({}) /\ Cardinality({}) = 0
    BY FS_EmptySet
  <2> QED BY <1>1, <2>1, <2>2, <2>3 DEF PendingInv
<1> QED BY <1>2, <1>3, <1>5, <1>6, <1>7, <1>8 DEF PoolInv

\* Every step of the pool keeps the invariant.
LEMMA PoolInvNext == PoolInv /\ [PoolNext]_poolVars => PoolInv'
<1>1. ASSUME PoolInv, NEW j \in Jobs, Call(j) PROVE PoolInv'
  BY <1>1, CallStep
<1>2. ASSUME PoolInv, NEW t \in PoolThreads, Busy(t) \/ Idle(t) PROVE PoolInv'
  BY <1>2, PushTaskStep, CountPushStep, JoinStep, StartTaskStep, RunBodyStep, FinishTaskStep,
     TryOneStep, WorkerLoopStep DEF Busy, Idle
<1> QED BY <1>1, <1>2, DestroyStep, StutterStep DEF PoolNext

\* What the invariant says of a returned parallelFor is ForReturnsSound.
LEMMA PoolInvSound == PoolInv => ForReturnsSound
<1> SUFFICES ASSUME PoolInv PROVE ForReturnsSound
  OBVIOUS
<1>0. PoolTypes /\ TaskInv /\ ForInv /\ PendingInv
  BY DEF PoolInv
<1>1. ASSUME NEW k \in Tasks PROVE ran[k] <= 1 /\ (k[1] \in returned => ran[k] = 1)
  BY <1>0 DEF TaskInv
<1>2. ASSUME NEW k \in Tasks, k[1] \in returned, NEW w \in Workers PROVE k \notin ToSet(deque[w])
  <2>1. \A i \in 1..Len(deque[w]) : At(deque[w][i], <<"deque", w, i>>)
    BY DEF At, AtDeque
  <2>2. DOMAIN deque[w] = 1..Len(deque[w])
    BY <1>0 DEF PoolTypes
  <2>3. ASSUME NEW i \in 1..Len(deque[w]), deque[w][i] = k PROVE FALSE
    BY <1>0, <1>2, <2>1, <2>3 DEF TaskInv
  <2> QED BY <2>2, <2>3 DEF ToSet
<1>3. ASSUME NEW k \in Tasks, k[1] \in returned, NEW t \in PoolThreads PROVE took[t] # k
  <2>1. took[t] = k => At(k, <<"took", t, 0>>)
    BY DEF At, AtTook
  <2> QED BY <1>0, <1>3, <2>1 DEF TaskInv
<1>4. ASSUME NEW k \in Tasks, k[1] \in returned, NEW t \in PoolThreads, NEW i \in DOMAIN stack[t]
      PROVE  stack[t][i].job # k[1]
  <2>1. i \in 1..Len(stack[t]) /\ stack[t][i] \in Frame
    BY <1>0 DEF PoolTypes
  <2>2. PICK f \in Frame : f = stack[t][i]
    BY <2>1
  <2>3. f.op \in ForOps \cup TaskOps
    BY DEF Frame
  <2>4. CASE f.op \in ForOps
    BY <1>0, <1>4, <2>1, <2>2, <2>4 DEF ForInv, CallsOpen
  <2>5. CASE f.op \in TaskOps
    <3>1. At(Key(f), <<"stack", t, i>>)
      BY <2>1, <2>2, <2>5, FrameIsPlace
    <3>2. Key(f) \in Tasks /\ Key(f)[1] = f.job
      BY FrameFacts
    <3>3. f.job \notin returned
      BY <1>0, <3>1, <3>2 DEF TaskInv
    <3> QED BY <1>4, <2>2, <3>3
  <2> QED BY <2>3, <2>4, <2>5
<1>5. pending = Cardinality(Queued) - Cardinality(Counting) + Cardinality(Taking)
  BY <1>0 DEF PendingInv
<1> QED BY <1>1, <1>2, <1>3, <1>4, <1>5 DEF ForReturnsSound

\* When a parallelFor has returned, each of its chunks ran exactly once and no
\* thread can still touch the caller's body; pending_ is what is queued or taken,
\* less the pushes not yet counted.  For any pool, callers, jobs and nesting.
THEOREM ForReturnIsSound == PoolSpec => []ForReturnsSound
<1>1. PoolInit => PoolInv
  BY PoolInvInit
<1>2. PoolInv /\ [PoolNext]_poolVars => PoolInv'
  BY PoolInvNext
<1>3. PoolInv => ForReturnsSound
  BY PoolInvSound
<1> QED BY <1>1, <1>2, <1>3, PTL DEF PoolSpec
=============================================================================
