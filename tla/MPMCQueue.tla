----------------------------- MODULE MPMCQueue -----------------------------
(***************************************************************************)
(* The lock-free queue of the block worker pool (MPMCQueue in              *)
(* include/vgre/runtime/block_worker_pool.h): many producers, many         *)
(* consumers, one sequence number per cell.  Every access to a shared word *)
(* is a step.  The cells' data are not atomic: what keeps two threads off  *)
(* one cell is the order of the sequence numbers.                          *)
(*                                                                         *)
(* Positions are 64-bit words and are taken as natural numbers.            *)
(***************************************************************************)
EXTENDS Integers, Sequences

CONSTANTS
  QueueProducers,  \* threads that push
  QueueConsumers,  \* threads that pop
  CellCount,       \* Capacity (65536)
  QueueMax         \* bound: how many items are offered to the queue

\* With one cell the sequence number of a full cell is that of the free cell of
\* the next round; the code has 65536.
ASSUME QueueAssumption ==
  /\ CellCount \in Nat \ {0, 1} /\ QueueMax \in Nat
  /\ QueueProducers \cap QueueConsumers = {}

QueueItem    == 1..QueueMax
NoData       == 0
QueueThreads == QueueProducers \cup QueueConsumers
Cells        == 0..(CellCount - 1)
CellOf(n)    == n % CellCount

VARIABLES
  enqueuePos, dequeuePos,  \* enqueue_pos_, dequeue_pos_
  sequence, data,          \* the cells
  queuePc, pos, arg,       \* per thread: point in the code, pos, the item
  queueOffered,            \* number of items offered; item n is the n-th
  taken                    \* history: what pop read, by position, as far as it did

queueVars == <<enqueuePos, dequeuePos, sequence, data, queuePc, pos, arg, queueOffered, taken>>

QueueInit ==
  /\ enqueuePos = 0
  /\ dequeuePos = 0
  /\ sequence = [i \in Cells |-> i]
  /\ data = [i \in Cells |-> NoData]
  /\ queuePc = [t \in QueueThreads |-> "idle"]
  /\ pos = [t \in QueueThreads |-> 0]
  /\ arg = [t \in QueueThreads |-> NoData]
  /\ queueOffered = 0
  /\ taken = <<>>

QueueGoto(t, l) == queuePc' = [queuePc EXCEPT ![t] = l]

-----------------------------------------------------------------------------
\* push
QueuePushLoadPos(p) ==
  /\ queuePc[p] = "idle"
  /\ queueOffered < QueueMax
  /\ queueOffered' = queueOffered + 1
  /\ arg' = [arg EXCEPT ![p] = queueOffered + 1]
  /\ pos' = [pos EXCEPT ![p] = enqueuePos]
  /\ QueueGoto(p, "sequence")
  /\ UNCHANGED <<enqueuePos, dequeuePos, sequence, data, taken>>

\* dif decides: the cell is free, still full, or another producer was here.
QueuePushLoadSequence(p) ==
  LET dif == sequence[CellOf(pos[p])] - pos[p]
  IN
  /\ queuePc[p] = "sequence"
  /\ QueueGoto(p, IF dif = 0 THEN "cas" ELSE IF dif < 0 THEN "idle" ELSE "reload")
  /\ arg' = [arg EXCEPT ![p] = IF dif < 0 THEN NoData ELSE @]
  /\ UNCHANGED <<enqueuePos, dequeuePos, sequence, data, pos, queueOffered, taken>>

QueuePushReload(p) ==
  /\ queuePc[p] = "reload"
  /\ pos' = [pos EXCEPT ![p] = enqueuePos]
  /\ QueueGoto(p, "sequence")
  /\ UNCHANGED <<enqueuePos, dequeuePos, sequence, data, arg, queueOffered, taken>>

QueuePushCasPublishes(p) ==
  /\ queuePc[p] = "cas"
  /\ enqueuePos = pos[p]
  /\ enqueuePos' = pos[p] + 1
  /\ sequence' = [sequence EXCEPT ![CellOf(pos[p])] = pos[p] + 1]
  /\ QueueGoto(p, "write")
  /\ UNCHANGED <<dequeuePos, data, pos, arg, queueOffered, taken>>

QueuePushCas(p) ==
  /\ queuePc[p] = "cas"
  /\ enqueuePos = pos[p]
  /\ enqueuePos' = pos[p] + 1
  /\ QueueGoto(p, "write")
  /\ UNCHANGED <<dequeuePos, sequence, data, pos, arg, queueOffered, taken>>

\* compare_exchange_weak may fail on equal values too.
QueuePushCasFails(p) ==
  /\ queuePc[p] = "cas"
  /\ pos' = [pos EXCEPT ![p] = enqueuePos]
  /\ QueueGoto(p, "sequence")
  /\ UNCHANGED <<enqueuePos, dequeuePos, sequence, data, arg, queueOffered, taken>>

QueuePushWrite(p) ==
  /\ queuePc[p] = "write"
  /\ data' = [data EXCEPT ![CellOf(pos[p])] = arg[p]]
  /\ QueueGoto(p, "publish")
  /\ UNCHANGED <<enqueuePos, dequeuePos, sequence, pos, arg, queueOffered, taken>>

QueuePushPublish(p) ==
  /\ queuePc[p] = "publish"
  /\ sequence' = [sequence EXCEPT ![CellOf(pos[p])] = pos[p] + 1]
  /\ arg' = [arg EXCEPT ![p] = NoData]
  /\ QueueGoto(p, "idle")
  /\ UNCHANGED <<enqueuePos, dequeuePos, data, pos, queueOffered, taken>>

-----------------------------------------------------------------------------
\* pop
QueuePopLoadPos(c) ==
  /\ queuePc[c] = "idle"
  /\ pos' = [pos EXCEPT ![c] = dequeuePos]
  /\ QueueGoto(c, "sequence")
  /\ UNCHANGED <<enqueuePos, dequeuePos, sequence, data, arg, queueOffered, taken>>

QueuePopDif(c) == sequence[CellOf(pos[c])] - (pos[c] + 1)

QueuePopLoadSequence(c) ==
  /\ queuePc[c] = "sequence"
  /\ QueueGoto(c, IF QueuePopDif(c) = 0 THEN "cas"
                  ELSE IF QueuePopDif(c) < 0 THEN "idle" ELSE "reload")
  /\ UNCHANGED <<enqueuePos, dequeuePos, sequence, data, pos, arg, queueOffered, taken>>

QueuePopReload(c) ==
  /\ queuePc[c] = "reload"
  /\ pos' = [pos EXCEPT ![c] = dequeuePos]
  /\ QueueGoto(c, "sequence")
  /\ UNCHANGED <<enqueuePos, dequeuePos, sequence, data, arg, queueOffered, taken>>

QueuePopCas(c) ==
  /\ queuePc[c] = "cas"
  /\ dequeuePos = pos[c]
  /\ dequeuePos' = pos[c] + 1
  /\ QueueGoto(c, "read")
  /\ UNCHANGED <<enqueuePos, sequence, data, pos, arg, queueOffered, taken>>

QueuePopCasFails(c) ==
  /\ queuePc[c] = "cas"
  /\ pos' = [pos EXCEPT ![c] = dequeuePos]
  /\ QueueGoto(c, "sequence")
  /\ UNCHANGED <<enqueuePos, dequeuePos, sequence, data, arg, queueOffered, taken>>

\* data is moved out of the cell.
QueuePopRead(c) ==
  /\ queuePc[c] = "read"
  /\ taken' = [n \in DOMAIN taken \cup {pos[c]} |->
                 IF n = pos[c] THEN data[CellOf(pos[c])] ELSE taken[n]]
  /\ data' = [data EXCEPT ![CellOf(pos[c])] = NoData]
  /\ QueueGoto(c, "publish")
  /\ UNCHANGED <<enqueuePos, dequeuePos, sequence, pos, arg, queueOffered>>

QueuePopPublish(c) ==
  /\ queuePc[c] = "publish"
  /\ sequence' = [sequence EXCEPT ![CellOf(pos[c])] = pos[c] + CellCount]
  /\ QueueGoto(c, "idle")
  /\ UNCHANGED <<enqueuePos, dequeuePos, data, pos, arg, queueOffered, taken>>

-----------------------------------------------------------------------------
QueuePush(p) ==
  \/ QueuePushLoadPos(p) \/ QueuePushLoadSequence(p) \/ QueuePushReload(p)
  \/ QueuePushCas(p) \/ QueuePushCasFails(p) \/ QueuePushWrite(p) \/ QueuePushPublish(p)

QueuePop(c) ==
  \/ QueuePopLoadPos(c) \/ QueuePopLoadSequence(c) \/ QueuePopReload(c)
  \/ QueuePopCas(c) \/ QueuePopCasFails(c) \/ QueuePopRead(c) \/ QueuePopPublish(c)

QueueNext == (\E p \in QueueProducers : QueuePush(p)) \/ (\E c \in QueueConsumers : QueuePop(c))

QueueSpec == QueueInit /\ [][QueueNext]_queueVars

\* Threads keep running, and a weak compare-exchange does not fail for ever
\* where it could succeed.
QueueFairSpec ==
  /\ QueueSpec
  /\ \A p \in QueueProducers : WF_queueVars(QueuePush(p)) /\ SF_queueVars(QueuePushCas(p))
  /\ \A c \in QueueConsumers : WF_queueVars(QueuePop(c)) /\ SF_queueVars(QueuePopCas(c))

-----------------------------------------------------------------------------
(* Properties *)

\* The producer that holds a position and has not stored its item yet.
Writers(n) == {p \in QueueProducers : queuePc[p] = "write" /\ pos[p] = n}

\* The item of an occupied position: in its cell, or still with its producer.
ItemAt(n) ==
  IF Writers(n) = {} THEN data[CellOf(n)] ELSE arg[CHOOSE p \in Writers(n) : TRUE]

\* The queue is a bounded FIFO: an item enters and leaves with the
\* compare-exchange of its push and pop, pop reads the item that entered at
\* its position, and no item is lost, duplicated or overwritten.
QueueFifo == INSTANCE BoundedFifo WITH
  Item <- QueueItem, Bound <- CellCount,
  line <- [i \in 1..(enqueuePos - dequeuePos) |-> ItemAt(dequeuePos + i - 1)],
  out <- [i \in 1..dequeuePos |->
            IF i - 1 \in DOMAIN taken THEN taken[i - 1] ELSE data[CellOf(i - 1)]]
QueueImplementsFifo == QueueFifo!Spec

\* An item whose push got its position is popped, whatever the other threads
\* were doing to the cells before it: from some point on none is left.
QueueEventuallyPopped ==
  <>[](0..(enqueuePos - 1) \subseteq DOMAIN taken)
=============================================================================
