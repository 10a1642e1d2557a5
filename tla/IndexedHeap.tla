---------------------------- MODULE IndexedHeap ----------------------------
(***************************************************************************)
(* The binary max-heap behind queue_ and numaQueues_ (Scheduler::          *)
(* IndexedHeap in include/vgre/core/scheduler.h), with its index pos from  *)
(* streams to heap positions.  Every operation runs under mutex_; the      *)
(* rounds of siftUp and siftDown are steps of their own, so that what they *)
(* preserve can be stated.  Heap positions count from 0 as in the code.    *)
(***************************************************************************)
EXTENDS Integers, Sequences

CONSTANTS
  HeapStreams,    \* streams
  Priorities,   \* priorities, a set of integers
  MaxPush       \* bound: how many items are pushed

ASSUME HeapAssumption ==
  /\ Priorities \subseteq Int
  /\ MaxPush \in Nat

WorkItem == [id : 1..MaxPush, stream : HeapStreams, priority : Priorities]

VARIABLES
  data,     \* data; position i is data[i + 1]
  pos,      \* pos, NoPos where a stream has no entry
  mode,     \* "idle", or the sift under way
  sift,     \* the position being sifted
  pushed,   \* number of items pushed so far; item n is the n-th
  taken    \* history: ids popped

heapVars == <<data, pos, mode, sift, pushed, taken>>

NoPos == -1

D(i)      == data[i + 1]
Size      == Len(data)
Positions == 0..(Size - 1)

HeapInit ==
  /\ data = <<>>
  /\ pos = [s \in HeapStreams |-> NoPos]
  /\ mode = "idle"
  /\ sift = 0
  /\ pushed = 0
  /\ taken = {}

\* WorkItem::operator<
Less(i, j) == D(i).priority < D(j).priority

\* swap: both streams' entries first, then the cells.
SwapCellsOnly(i, j) ==
  /\ data' = [data EXCEPT ![i + 1] = D(j), ![j + 1] = D(i)]
  /\ UNCHANGED pos

Swap(i, j) ==
  /\ pos' = [[pos EXCEPT ![D(i).stream] = j] EXCEPT ![D(j).stream] = i]
  /\ data' = [data EXCEPT ![i + 1] = D(j), ![j + 1] = D(i)]

-----------------------------------------------------------------------------
Push(s, p) ==
  /\ mode = "idle"
  /\ pushed < MaxPush
  /\ pushed' = pushed + 1
  /\ pos' = [pos EXCEPT ![s] = Size]
  /\ data' = Append(data, [id |-> pushed + 1, stream |-> s, priority |-> p])
  /\ mode' = "up"
  /\ sift' = Size
  /\ UNCHANGED taken

HeapParent(i) == (i - 1) \div 2

SiftUp ==
  /\ mode = "up"
  /\ IF sift > 0 /\ Less(HeapParent(sift), sift)
       THEN /\ Swap(HeapParent(sift), sift)
            /\ sift' = HeapParent(sift)
            /\ UNCHANGED mode
       ELSE /\ mode' = "idle"
            /\ UNCHANGED <<data, pos, sift>>
  /\ UNCHANGED <<pushed, taken>>

\* The last item moves to the root and sinks.
PopNoSift ==
  /\ mode = "idle"
  /\ Size > 0
  /\ taken' = taken \cup {D(0).id}
  /\ IF Size > 1
       THEN /\ data' = [SubSeq(data, 1, Size - 1) EXCEPT ![1] = D(Size - 1)]
            /\ pos' = [[pos EXCEPT ![D(0).stream] = NoPos]
                          EXCEPT ![D(Size - 1).stream] = 0]
       ELSE /\ data' = <<>>
            /\ pos' = [pos EXCEPT ![D(0).stream] = NoPos]
  /\ UNCHANGED <<mode, sift, pushed>>

Pop ==
  /\ mode = "idle"
  /\ Size > 0
  /\ taken' = taken \cup {D(0).id}
  /\ IF Size > 1
       THEN /\ data' = [SubSeq(data, 1, Size - 1) EXCEPT ![1] = D(Size - 1)]
            /\ pos' = [[pos EXCEPT ![D(0).stream] = NoPos]
                          EXCEPT ![D(Size - 1).stream] = 0]
            /\ mode' = "down"
            /\ sift' = 0
       ELSE /\ data' = <<>>
            /\ pos' = [pos EXCEPT ![D(0).stream] = NoPos]
            /\ UNCHANGED <<mode, sift>>
  /\ UNCHANGED pushed

\* The position of the larger child where it beats i, else i.
LeftChild(i)  == 2 * i + 1
RightChild(i) == 2 * i + 2

BestOfLeft(i) ==
  IF LeftChild(i) < Size /\ Less(i, LeftChild(i)) THEN LeftChild(i) ELSE i

Best(i) ==
  IF RightChild(i) < Size /\ Less(BestOfLeft(i), RightChild(i))
    THEN RightChild(i) ELSE BestOfLeft(i)

SiftDown ==
  /\ mode = "down"
  /\ IF Best(sift) # sift
       THEN /\ Swap(sift, Best(sift))
            /\ sift' = Best(sift)
            /\ UNCHANGED mode
       ELSE /\ mode' = "idle"
            /\ UNCHANGED <<data, pos, sift>>
  /\ UNCHANGED <<pushed, taken>>

\* updatePriority changes the one item pos knows of, if any.
UpdatePriority(s, p) ==
  /\ mode = "idle"
  /\ IF pos[s] = NoPos
       THEN UNCHANGED <<data, mode, sift>>
       ELSE /\ data' = [data EXCEPT ![pos[s] + 1].priority = p]
            /\ mode' = IF p > D(pos[s]).priority THEN "up" ELSE "down"
            /\ sift' = pos[s]
  /\ UNCHANGED <<pos, pushed, taken>>

HeapNext ==
  \/ \E s \in HeapStreams, p \in Priorities : Push(s, p) \/ UpdatePriority(s, p)
  \/ Pop \/ SiftUp \/ SiftDown

HeapSpec == HeapInit /\ [][HeapNext]_heapVars

-----------------------------------------------------------------------------
(* Properties *)

\* Types of the heap's members.
HeapTypes ==
  /\ data \in Seq(WorkItem)
  /\ pos \in [HeapStreams -> Int]
  /\ mode \in {"idle", "up", "down"}
  /\ sift \in Nat
  /\ mode # "idle" => sift < Size
  /\ pushed \in 0..MaxPush

\* An index entry names a position inside the heap that holds an item of its
\* stream: updatePriority, which indexes data with it unchecked, touches no
\* other stream's item and nothing outside.
PosSound ==
  \A s \in HeapStreams : pos[s] # NoPos => pos[s] \in Positions /\ D(pos[s]).stream = s

\* Between operations no item is below one of lower priority.
HeapOrder ==
  mode = "idle" => \A i \in Positions : i > 0 => ~Less(HeapParent(i), i)

\* The heap implements the priority pool: top() is an item of the highest
\* priority, and no sift loses or duplicates an item.  An operation takes
\* effect when it starts.
Pool == INSTANCE PriorityPool WITH items <- {data[i] : i \in DOMAIN data}
ImplementsPriorityPool == Pool!Spec
=============================================================================
