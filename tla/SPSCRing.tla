------------------------------ MODULE SPSCRing ------------------------------
(***************************************************************************)
(* The per-worker ring of include/vgre/core/scheduler.h.  push runs on the *)
(* host thread that calls Scheduler::enqueueToStream, pop on the worker    *)
(* the ring belongs to.  One action per access to a shared word; head_ and *)
(* tail_ are machine words and wrap.                                       *)
(*                                                                         *)
(* RingProducers is the set of host threads that push.  The ring is        *)
(* written for one; enqueueToStream sends every stream congruent to the    *)
(* worker's index here, whichever thread submits it.                       *)
(***************************************************************************)
EXTENDS Naturals, Sequences, FiniteSets

CONSTANTS
  RingProducers,  \* threads that call push
  RingCells,      \* N, the number of cells (4096 in the code)
  RingWord,       \* number of values of a size_t
  RingMax         \* bound: how many items are offered to the ring

\* A size_t has more values than the ring has cells, and a multiple of them.
ASSUME RingAssumption ==
  /\ RingCells \in Nat \ {0} /\ RingMax \in Nat
  /\ RingWord \in Nat /\ RingWord > RingCells /\ RingWord % RingCells = 0

RingItem == 1..RingMax
NoCell   == 0

VARIABLES
  head,            \* head_
  tail,            \* tail_
  buf,             \* buf_
  ringPc, h, val,  \* per producer: point in push, local h, the item being pushed
  cpc, got,        \* the consumer's point in pop and the item it moved out
  ringOffered,     \* number of items offered so far; item n is the n-th offered
  out              \* items pop returned, in order

ringVars == <<head, tail, buf, ringPc, h, val, cpc, got, ringOffered, out>>

RingWrap(n) == n % RingWord
RingSlot(n) == n % RingCells

RingInit ==
  /\ head = 0
  /\ tail = 0
  /\ buf = [i \in 0..(RingCells - 1) |-> NoCell]
  /\ ringPc = [p \in RingProducers |-> "idle"]
  /\ h = [p \in RingProducers |-> 0]
  /\ val = [p \in RingProducers |-> NoCell]
  /\ cpc = "idle"
  /\ got = NoCell
  /\ ringOffered = 0
  /\ out = <<>>

-----------------------------------------------------------------------------
\* push: load head_, compare with tail_, store the cell, publish head_

RingPushLoad(p) ==
  /\ ringPc[p] = "idle"
  /\ ringOffered < RingMax
  /\ ringOffered' = ringOffered + 1
  /\ val' = [val EXCEPT ![p] = ringOffered + 1]
  /\ h' = [h EXCEPT ![p] = head]
  /\ ringPc' = [ringPc EXCEPT ![p] = "check"]
  /\ UNCHANGED <<head, tail, buf, cpc, got, out>>

RingFull(hd, tl) == RingWrap(hd + RingWord - tl) >= RingCells

\* On a full ring push returns false; its by-value argument dies with it.
RingPushCheck(p) ==
  /\ ringPc[p] = "check"
  /\ ringPc' = [ringPc EXCEPT ![p] = IF RingFull(h[p], tail) THEN "idle" ELSE "store"]
  /\ UNCHANGED <<head, tail, buf, h, val, cpc, got, ringOffered, out>>

RingPushStore(p) ==
  /\ ringPc[p] = "store"
  /\ buf' = [buf EXCEPT ![RingSlot(h[p])] = val[p]]
  /\ ringPc' = [ringPc EXCEPT ![p] = "publish"]
  /\ UNCHANGED <<head, tail, h, val, cpc, got, ringOffered, out>>

RingPushPublish(p) ==
  /\ ringPc[p] = "publish"
  /\ head' = RingWrap(h[p] + 1)
  /\ ringPc' = [ringPc EXCEPT ![p] = "idle"]
  /\ UNCHANGED <<tail, buf, h, val, cpc, got, ringOffered, out>>

-----------------------------------------------------------------------------
\* pop: compare tail_ (written by this thread only) with head_, move the cell
\* out, publish tail_.  On an empty ring it returns false and changes nothing.

\* mutant: a ring with one item counts as empty
RingPopCheckLeavesLast ==
  /\ cpc = "idle"
  /\ tail # head /\ RingWrap(tail + 1) # head
  /\ cpc' = "read"
  /\ UNCHANGED <<head, tail, buf, ringPc, h, val, got, ringOffered, out>>

RingPopCheck ==
  /\ cpc = "idle"
  /\ tail # head
  /\ cpc' = "read"
  /\ UNCHANGED <<head, tail, buf, ringPc, h, val, got, ringOffered, out>>

RingPopRead ==
  /\ cpc = "read"
  /\ got' = buf[RingSlot(tail)]
  /\ buf' = [buf EXCEPT ![RingSlot(tail)] = NoCell]
  /\ cpc' = "publish"
  /\ UNCHANGED <<head, tail, ringPc, h, val, ringOffered, out>>

RingPopPublish ==
  /\ cpc = "publish"
  /\ tail' = RingWrap(tail + 1)
  /\ out' = Append(out, got)
  /\ cpc' = "idle"
  /\ UNCHANGED <<head, buf, ringPc, h, val, got, ringOffered>>

-----------------------------------------------------------------------------
RingPush(p) == RingPushLoad(p) \/ RingPushCheck(p) \/ RingPushStore(p) \/ RingPushPublish(p)
RingPop     == RingPopCheck \/ RingPopRead \/ RingPopPublish

RingNext == RingPop \/ \E p \in RingProducers : RingPush(p)

RingSpec == RingInit /\ [][RingNext]_ringVars

\* The worker's loop and its cv_ predicate look at the ring again and again
\* (scheduler_worker.cpp:73, 95, 110); a push that has begun completes.
RingFairSpec ==
  /\ RingSpec
  /\ WF_ringVars(RingPop)
  /\ \A p \in RingProducers : WF_ringVars(RingPushCheck(p) \/ RingPushStore(p) \/ RingPushPublish(p))

-----------------------------------------------------------------------------
(* Properties *)

\* What the ring holds, oldest first: the published cells, the oldest of which
\* the consumer may already have moved out.
RingSize == RingWrap(head + RingWord - tail)

RingLine == [i \in 1..RingSize |->
           IF i = 1 /\ cpc = "publish" THEN got ELSE buf[RingSlot(RingWrap(tail + i - 1))]]

\* The ring is a bounded FIFO of at most N items: no cell is overwritten
\* before it was read, none is read before it was written, also when head_
\* and tail_ wrap around.
RingFifo == INSTANCE BoundedFifo WITH Item <- RingItem, Bound <- RingCells, line <- RingLine
RingImplementsFifo == RingFifo!Spec

\* Every pushed item reaches the worker: after the last push the ring empties,
\* for good.
RingEventuallyPopped == <>[](RingSize = 0)
=============================================================================
