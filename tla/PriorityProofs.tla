--------------------------- MODULE PriorityProofs ---------------------------
(***************************************************************************)
(* Who is next: the two indexes that choose what runs, and the cache the   *)
(* second one hands out.                                                   *)
(*                                                                         *)
(* IndexedHeap keeps its items in heap order and its index sound, for      *)
(* every number of items, streams and priorities, and implements a pool    *)
(* that gives out an item of the highest priority.  While an item is being *)
(* sifted the order fails at one place: above the item when it rises,      *)
(* below it when it sinks.  What closes the gap is that the item's         *)
(* children are never above its parent.  The argument about order is made  *)
(* on the function from positions to priorities, away from sequences and   *)
(* records.                                                                *)
(*                                                                         *)
(* ContinuousBatch finds the oldest request that fits, keeps every block   *)
(* of the cache in one place and gives an admitted request all it needs,   *)
(* for every pool, block size, set of shapes and batch limit.  Its loops   *)
(* are recursive functions; RecursionExists, from a least counterexample,  *)
(* gives what they compute.                                                *)
(***************************************************************************)
EXTENDS IndexedHeap, ContinuousBatch, WellFoundedInduction, TLAPS

-----------------------------------------------------------------------------
(* The heap *)

\* The order of a heap of priorities f with n positions.
Below(f, i) == f[i] <= f[HeapParent(i)]

\* The children of position k are not above its parent.
Bridged(f, n, k) ==
  k > 0 => \A i \in 0..(n - 1) : i > 0 /\ HeapParent(i) = k => f[i] <= f[HeapParent(k)]

Sorted(f, n) == \A i \in 0..(n - 1) : i > 0 => Below(f, i)

SortedUp(f, n, k) ==
  /\ \A i \in 0..(n - 1) : i > 0 /\ i # k => Below(f, i)
  /\ Bridged(f, n, k)

SortedDown(f, n, k) ==
  /\ \A i \in 0..(n - 1) : i > 0 /\ HeapParent(i) # k => Below(f, i)
  /\ Bridged(f, n, k)

Pri == [i \in Positions |-> D(i).priority]

Order ==
  /\ mode = "idle" => Sorted(Pri, Size)
  /\ mode = "up" => SortedUp(Pri, Size, sift)
  /\ mode = "down" => SortedDown(Pri, Size, sift)

Inv == HeapTypes /\ PosSound /\ Order

-----------------------------------------------------------------------------
\* The shape of the tree.
LEMMA ParentFacts ==
  ASSUME NEW i \in Nat, i > 0
  PROVE  /\ HeapParent(i) \in Nat
         /\ HeapParent(i) < i
         /\ i = 2 * HeapParent(i) + 1 \/ i = 2 * HeapParent(i) + 2
  BY DEF HeapParent

\* The parent of a child.
LEMMA ChildFacts ==
  ASSUME NEW i \in Nat
  PROVE  HeapParent(2 * i + 1) = i /\ HeapParent(2 * i + 2) = i
  BY DEF HeapParent

\* One round of siftUp on priorities: the item at k passes its parent.
LEMMA RiseOrder ==
  ASSUME NEW n \in Nat, NEW f \in [0..(n - 1) -> Int], NEW g \in [0..(n - 1) -> Int],
         NEW k \in 0..(n - 1), k > 0,
         SortedUp(f, n, k),
         f[HeapParent(k)] < f[k],
         g[k] = f[HeapParent(k)], g[HeapParent(k)] = f[k],
         \A i \in 0..(n - 1) : i # k /\ i # HeapParent(k) => g[i] = f[i]
  PROVE  SortedUp(g, n, HeapParent(k))
<1> DEFINE p == HeapParent(k)
<1>1. p \in 0..(n - 1) /\ p < k
  BY ParentFacts
<1>2. ASSUME NEW i \in 0..(n - 1), i > 0, i # p PROVE Below(g, i)
  <2>0. HeapParent(i) \in 0..(n - 1) /\ HeapParent(i) < i
    BY <1>2, ParentFacts
  <2>1. CASE i = k
    BY <1>1, <2>1 DEF Below
  <2>2. CASE i # k /\ HeapParent(i) = p
    <3>1. f[i] <= f[p]
      BY <1>2, <2>2 DEF SortedUp, Below
    <3>2. g[i] = f[i]
      BY <1>2, <2>2
    <3> QED
      BY <1>1, <2>2, <3>1, <3>2 DEF Below
  <2>3. CASE i # k /\ HeapParent(i) = k
    <3>1. f[i] <= f[p]
      BY <1>2, <2>3 DEF SortedUp, Bridged
    <3>2. g[i] = f[i]
      BY <1>2, <2>3
    <3> QED
      BY <2>3, <3>1, <3>2 DEF Below
  <2>4. CASE i # k /\ HeapParent(i) # p /\ HeapParent(i) # k
    BY <1>2, <2>0, <2>4 DEF SortedUp, Below
  <2> QED
    BY <2>1, <2>2, <2>3, <2>4
<1>3. Bridged(g, n, p)
  <2> SUFFICES ASSUME p > 0, NEW i \in 0..(n - 1), i > 0, HeapParent(i) = p
               PROVE  g[i] <= g[HeapParent(p)]
    BY DEF Bridged
  <2>1. HeapParent(p) \in 0..(n - 1) /\ HeapParent(p) < p
    BY <1>1, ParentFacts
  <2>2. f[p] <= f[HeapParent(p)] /\ g[HeapParent(p)] = f[HeapParent(p)]
    BY <1>1, <2>1 DEF SortedUp, Below
  <2>3. CASE i = k
    BY <1>1, <2>1, <2>2, <2>3
  <2>4. CASE i # k
    <3>1. i # p
      BY ParentFacts
    <3>2. g[i] = f[i] /\ f[i] <= f[p]
      BY <2>4, <3>1 DEF SortedUp, Below
    <3> QED
      BY <1>1, <2>1, <2>2, <3>2
  <2> QED
    BY <2>3, <2>4
<1> QED
  BY <1>2, <1>3 DEF SortedUp

\* One round of siftDown on priorities: the item at k sinks below child c, the
\* larger one.
LEMMA SinkOrder ==
  ASSUME NEW n \in Nat, NEW f \in [0..(n - 1) -> Int], NEW g \in [0..(n - 1) -> Int],
         NEW k \in 0..(n - 1), NEW c \in 0..(n - 1), c > 0, HeapParent(c) = k,
         SortedDown(f, n, k),
         f[k] < f[c],
         \A i \in 0..(n - 1) : i > 0 /\ HeapParent(i) = k => f[i] <= f[c],
         g[k] = f[c], g[c] = f[k],
         \A i \in 0..(n - 1) : i # k /\ i # c => g[i] = f[i]
  PROVE  SortedDown(g, n, c)
<1>0. k < c
  BY ParentFacts
<1>1. ASSUME NEW i \in 0..(n - 1), i > 0, HeapParent(i) # c PROVE Below(g, i)
  <2>0. HeapParent(i) \in 0..(n - 1) /\ HeapParent(i) < i
    BY <1>1, ParentFacts
  <2>1. CASE i = k
    <3>1. f[c] <= f[HeapParent(k)]
      BY <1>1, <2>1 DEF SortedDown, Bridged
    <3>2. g[HeapParent(k)] = f[HeapParent(k)]
      BY <1>0, <2>0, <2>1
    <3> QED
      BY <2>1, <3>1, <3>2 DEF Below
  <2>2. CASE i = c
    BY <2>2 DEF Below
  <2>3. CASE i # k /\ i # c /\ HeapParent(i) = k
    BY <1>1, <2>3 DEF Below
  <2>4. CASE i # k /\ i # c /\ HeapParent(i) # k
    BY <1>1, <2>0, <2>4 DEF SortedDown, Below
  <2> QED
    BY <2>1, <2>2, <2>3, <2>4
<1>2. Bridged(g, n, c)
  <2> SUFFICES ASSUME NEW i \in 0..(n - 1), i > 0, HeapParent(i) = c
               PROVE  g[i] <= g[k]
    BY DEF Bridged
  <2>1. i # c /\ i # k /\ HeapParent(i) # k
    BY <1>0, ParentFacts
  <2> QED
    BY <2>1 DEF SortedDown, Below
<1> QED
  BY <1>1, <1>2 DEF SortedDown

-----------------------------------------------------------------------------
\* Reading a sequence of work items, in this state or the next.
LEMMA SeqFacts ==
  ASSUME NEW d \in Seq(WorkItem)
  PROVE  /\ Len(d) \in Nat
         /\ \A i \in 0..(Len(d) - 1) :
              d[i + 1] \in WorkItem /\ d[i + 1].stream \in HeapStreams
                                   /\ d[i + 1].priority \in Int
<1>1. \A i \in 0..(Len(d) - 1) : d[i + 1] \in WorkItem
  OBVIOUS
<1>2. \A w \in WorkItem : w.stream \in HeapStreams /\ w.priority \in Int
  BY HeapAssumption DEF WorkItem
<1>3. Len(d) \in Nat
  OBVIOUS
<1> QED
  BY <1>1, <1>2, <1>3

\* The priorities after a step, from the items after it.
LEMMA NextPri ==
  ASSUME data' \in Seq(WorkItem)
  PROVE  /\ Size' \in Nat
         /\ Pri' \in [0..(Size' - 1) -> Int]
         /\ \A i \in 0..(Size' - 1) : Pri'[i] = data'[i + 1].priority
<1>1. Size' \in Nat
  BY SeqFacts DEF Size
<1>2. Pri' = [i \in 0..(Size' - 1) |-> data'[i + 1].priority]
  BY DEF Pri, Positions, D
<1>3. \A i \in 0..(Size' - 1) : data'[i + 1].priority \in Int
  BY SeqFacts DEF Size
<1> QED
  BY <1>1, <1>2, <1>3

\* Reading the heap: its positions hold work items with integer priorities.
LEMMA DataFacts ==
  ASSUME HeapTypes
  PROVE  /\ Size \in Nat
         /\ \A i \in Positions : D(i) \in WorkItem /\ Pri[i] = D(i).priority
         /\ \A i \in Positions : D(i).stream \in HeapStreams /\ D(i).priority \in Int
         /\ Pri \in [0..(Size - 1) -> Int]
<1>1. Size \in Nat
  BY DEF HeapTypes, Size
<1>2. \A i \in Positions : D(i) \in WorkItem
  BY <1>1 DEF HeapTypes, Size, Positions, D
<1>3. \A i \in Positions : D(i).stream \in HeapStreams /\ D(i).priority \in Int
  BY <1>2, HeapAssumption DEF WorkItem
<1> QED
  BY <1>1, <1>2, <1>3 DEF Pri, Positions

\* Exchanging two cells with their index entries.
LEMMA SwapFacts ==
  ASSUME HeapTypes, NEW i \in Positions, NEW j \in Positions, i # j, Swap(i, j)
  PROVE  /\ data' \in Seq(WorkItem) /\ Size' = Size /\ Positions' = Positions
         /\ D(i)' = D(j) /\ D(j)' = D(i)
         /\ \A k \in Positions : k # i /\ k # j => D(k)' = D(k)
         /\ pos' \in [HeapStreams -> Int]
         /\ \A s \in HeapStreams :
              pos'[s] = IF s = D(j).stream THEN i
                        ELSE IF s = D(i).stream THEN j ELSE pos[s]
<1>1. /\ i + 1 \in 1..Len(data) /\ j + 1 \in 1..Len(data)
      /\ i \in Int /\ j \in Int /\ i + 1 # j + 1
  BY DataFacts DEF Positions, Size
<1>2. D(i) \in WorkItem /\ D(j) \in WorkItem
      /\ D(i).stream \in HeapStreams /\ D(j).stream \in HeapStreams
  BY DataFacts
<1>3. data' = [data EXCEPT ![i + 1] = D(j), ![j + 1] = D(i)]
  BY DEF Swap
<1>4. data' \in Seq(WorkItem) /\ Len(data') = Len(data)
  BY <1>1, <1>2, <1>3 DEF HeapTypes
<1>5. D(i)' = D(j) /\ D(j)' = D(i)
  BY <1>1, <1>3 DEF D, HeapTypes
<1>6. \A k \in Positions : k # i /\ k # j => D(k)' = D(k)
  BY <1>1, <1>3 DEF D, HeapTypes, Positions, Size
<1>7. pos' \in [HeapStreams -> Int]
  BY <1>1, <1>2 DEF Swap, HeapTypes
<1>8. \A s \in HeapStreams :
        pos'[s] = IF s = D(j).stream THEN i
                  ELSE IF s = D(i).stream THEN j ELSE pos[s]
  BY <1>2 DEF Swap, HeapTypes
<1> QED
  BY <1>4, <1>5, <1>6, <1>7, <1>8 DEF Size, Positions

\* swap keeps the index sound.
LEMMA SwapPosSound ==
  ASSUME HeapTypes, PosSound, NEW i \in Positions, NEW j \in Positions, i # j, Swap(i, j)
  PROVE  PosSound'
<1> SUFFICES ASSUME NEW s \in HeapStreams, pos'[s] # NoPos
             PROVE  pos'[s] \in Positions /\ data'[pos'[s] + 1].stream = s
  BY SwapFacts DEF PosSound, D, Positions, Size
<1> USE DEF D
<1>1. CASE s = D(j).stream
  BY <1>1, SwapFacts
<1>2. CASE s # D(j).stream /\ s = D(i).stream
  BY <1>2, SwapFacts
<1>3. CASE s # D(j).stream /\ s # D(i).stream
  <2>1. pos'[s] = pos[s]
    BY <1>3, SwapFacts
  <2>2. pos[s] \in Positions /\ D(pos[s]).stream = s
    BY <2>1 DEF PosSound
  <2>3. pos[s] # i /\ pos[s] # j
    BY <1>3, <2>2
  <2> QED
    BY <2>1, <2>2, <2>3, SwapFacts
<1> QED
  BY <1>1, <1>2, <1>3

\* swap keeps the types, the sifted position staying inside.
LEMMA SwapTypeOK ==
  ASSUME HeapTypes, NEW i \in Positions, NEW j \in Positions, i # j, Swap(i, j),
         sift' \in Positions, mode' = mode, pushed' = pushed
  PROVE  HeapTypes'
<1>1. sift' \in Nat /\ sift' < Size
  BY DataFacts DEF Positions
<1>2. data' \in Seq(WorkItem) /\ Size' = Size /\ pos' \in [HeapStreams -> Int]
  BY SwapFacts
<1> QED
  BY <1>1, <1>2 DEF HeapTypes

\* swap exchanges two priorities.
LEMMA SwapPri ==
  ASSUME HeapTypes, NEW i \in Positions, NEW j \in Positions, i # j, Swap(i, j)
  PROVE  /\ Pri' \in [0..(Size - 1) -> Int]
         /\ Pri'[i] = Pri[j] /\ Pri'[j] = Pri[i]
         /\ \A k \in 0..(Size - 1) : k # i /\ k # j => Pri'[k] = Pri[k]
<1>1. data' \in Seq(WorkItem) /\ Size' = Size
  BY SwapFacts
<1>2. /\ Pri' \in [0..(Size - 1) -> Int]
      /\ \A k \in Positions : Pri'[k] = data'[k + 1].priority
  BY <1>1, NextPri DEF Positions
<1>3. \A k \in Positions : Pri[k] = data[k + 1].priority
  BY DEF Pri, D
<1>4. /\ data'[i + 1] = data[j + 1] /\ data'[j + 1] = data[i + 1]
      /\ \A k \in Positions : k # i /\ k # j => data'[k + 1] = data[k + 1]
  BY SwapFacts DEF D
<1> QED
  BY <1>2, <1>3, <1>4 DEF Positions

-----------------------------------------------------------------------------
\* The empty heap.
LEMMA InitInv == HeapInit => Inv
<1> SUFFICES ASSUME HeapInit PROVE Inv
  OBVIOUS
<1>1. HeapTypes
  BY HeapAssumption DEF HeapInit, HeapTypes, NoPos
<1>2. PosSound
  BY DEF HeapInit, PosSound
<1>3. Order
  BY DEF HeapInit, Order, Sorted, Size
<1> QED
  BY <1>1, <1>2, <1>3 DEF Inv

\* push appends a leaf of the tree, which has no children yet.
LEMMA PushInv ==
  ASSUME Inv, NEW s \in HeapStreams, NEW q \in Priorities, Push(s, q)
  PROVE  Inv'
<1> DEFINE x == [id |-> pushed + 1, stream |-> s, priority |-> q]
<1>0. HeapTypes /\ PosSound /\ Order /\ mode = "idle"
  BY DEF Inv, Push
<1>1. x \in WorkItem /\ pushed' \in 0..MaxPush
  <2>1. pushed \in Nat /\ pushed < MaxPush /\ MaxPush \in Nat /\ pushed' = pushed + 1
    BY <1>0, HeapAssumption DEF Push, HeapTypes
  <2>2. pushed + 1 \in 1..MaxPush
    BY <2>1
  <2> QED
    BY <2>1, <2>2 DEF WorkItem
<1>2. /\ data' = Append(data, x) /\ data' \in Seq(WorkItem)
      /\ Size' = Size + 1 /\ Size \in Nat
  BY <1>0, <1>1 DEF Push, HeapTypes, Size
<1>3. /\ \A i \in Positions : D(i)' = D(i)
      /\ data'[Size + 1] = x
      /\ Positions' = 0..Size
  BY <1>0, <1>2 DEF D, Positions, Size, HeapTypes
<1>4. HeapTypes'
  <2>1. pos' = [pos EXCEPT ![s] = Size] /\ mode' = "up" /\ sift' = Size
    BY DEF Push
  <2>2. pos' \in [HeapStreams -> Int]
    BY <1>0, <1>2, <2>1 DEF HeapTypes
  <2>3. sift' \in Nat /\ sift' < Size'
    BY <1>2, <2>1
  <2> QED
    BY <1>1, <1>2, <2>1, <2>2, <2>3 DEF HeapTypes
<1>5. PosSound'
  <2> SUFFICES ASSUME NEW u \in HeapStreams, pos'[u] # NoPos
               PROVE  pos'[u] \in 0..Size /\ data'[pos'[u] + 1].stream = u
    BY <1>3 DEF PosSound, D
  <2>1. CASE u = s
    <3>1. pos'[u] = Size
      BY <1>0, <2>1 DEF Push, HeapTypes
    <3>2. data'[Size + 1].stream = s
      BY <1>3
    <3>3. Size \in 0..Size
      BY <1>2
    <3> QED
      BY <2>1, <3>1, <3>2, <3>3
  <2>2. CASE u # s
    <3>1. pos'[u] = pos[u]
      BY <1>0, <2>2 DEF Push, HeapTypes
    <3>2. pos[u] \in Positions /\ D(pos[u]).stream = u
      BY <1>0, <3>1 DEF PosSound
    <3>3. pos[u] \in 0..Size
      BY <1>2, <3>2 DEF Positions
    <3>4. data'[pos[u] + 1] = data[pos[u] + 1]
      BY <1>3, <3>2 DEF D
    <3> QED
      BY <3>1, <3>2, <3>3, <3>4 DEF D
  <2> QED
    BY <2>1, <2>2
<1>6. Order'
  <2>1. mode' = "up" /\ sift' = Size
    BY DEF Push
  <2>2. Sorted(Pri, Size)
    BY <1>0 DEF Order
  <2>3. /\ Pri' \in [0..Size -> Int]
        /\ \A i \in 0..(Size - 1) : Pri'[i] = Pri[i]
    <3>1. Size' - 1 = Size
      BY <1>2
    <3>2. Pri' \in [0..Size -> Int] /\ \A i \in 0..Size : Pri'[i] = data'[i + 1].priority
      BY <1>2, <3>1, NextPri
    <3>3. /\ \A i \in 0..(Size - 1) : data'[i + 1] = data[i + 1]
          /\ \A i \in 0..(Size - 1) : i \in 0..Size
      <4>1. \A i \in 0..(Size - 1) : data'[i + 1] = data[i + 1]
        BY <1>3 DEF D, Positions
      <4>2. \A i \in 0..(Size - 1) : i \in 0..Size
        BY <1>2
      <4> QED
        BY <4>1, <4>2
    <3>4. \A i \in 0..(Size - 1) : Pri[i] = data[i + 1].priority
      BY DEF Pri, Positions, D
    <3> QED
      BY <3>2, <3>3, <3>4
  <2>4. SortedUp(Pri', Size', Size)
    <3>1. ASSUME NEW i \in 0..Size, i > 0, i # Size PROVE Below(Pri', i)
      <4>1. i \in 0..(Size - 1) /\ HeapParent(i) \in 0..(Size - 1)
        BY <1>2, <3>1, ParentFacts
      <4> QED
        BY <2>2, <2>3, <3>1, <4>1 DEF Sorted, Below
    <3>2. \A i \in 0..Size : i > 0 => HeapParent(i) # Size
      BY <1>2, ParentFacts
    <3> QED
      BY <1>2, <3>1, <3>2 DEF SortedUp, Bridged
  <2> QED
    BY <2>1, <2>4 DEF Order
<1> QED
  BY <1>4, <1>5, <1>6 DEF Inv

\* A round of siftUp.
LEMMA SiftUpInv ==
  ASSUME Inv, SiftUp
  PROVE  Inv'
<1>0. HeapTypes /\ PosSound /\ mode = "up" /\ SortedUp(Pri, Size, sift) /\ sift \in Positions
  BY DataFacts DEF Inv, SiftUp, Order, HeapTypes, Positions
<1>1. CASE sift > 0 /\ Less(HeapParent(sift), sift)
  <2> DEFINE p == HeapParent(sift)
  <2>1. p \in Positions /\ p # sift /\ sift \in Nat /\ p \in Nat
    BY <1>0, <1>1, DataFacts, ParentFacts DEF Positions
  <2>2. Swap(p, sift) /\ sift' = p /\ mode' = "up" /\ pushed' = pushed
    BY <1>0, <1>1 DEF SiftUp
  <2>3. HeapTypes'
    BY <1>0, <2>1, <2>2, SwapTypeOK
  <2>4. PosSound'
    BY <1>0, <2>1, <2>2, SwapPosSound
  <2>5. SortedUp(Pri', Size, p)
    <3>1. Pri \in [0..(Size - 1) -> Int] /\ Size \in Nat
      BY <1>0, DataFacts
    <3>2. /\ Pri' \in [0..(Size - 1) -> Int]
          /\ Pri'[sift] = Pri[p] /\ Pri'[p] = Pri[sift]
          /\ \A i \in 0..(Size - 1) : i # sift /\ i # p => Pri'[i] = Pri[i]
      BY <1>0, <2>1, <2>2, SwapPri
    <3>3. Pri[p] < Pri[sift]
      BY <1>0, <1>1, <2>1 DEF Less, Pri
    <3>4. sift \in 0..(Size - 1)
      BY <1>0 DEF Positions
    <3> QED
      BY <1>0, <1>1, <3>1, <3>2, <3>3, <3>4, RiseOrder
  <2>6. Order'
    BY <1>0, <2>1, <2>2, <2>5, SwapFacts DEF Order
  <2> QED
    BY <2>3, <2>4, <2>6 DEF Inv
<1>2. CASE ~(sift > 0 /\ Less(HeapParent(sift), sift))
  <2>1. mode' = "idle" /\ UNCHANGED <<data, pos, sift, pushed>>
    BY <1>0, <1>2 DEF SiftUp
  <2>2. HeapTypes' /\ PosSound'
    BY <1>0, <2>1 DEF HeapTypes, PosSound, D, Positions, Size
  <2>3. sift > 0 => Below(Pri, sift)
    <3> SUFFICES ASSUME sift > 0 PROVE Below(Pri, sift)
      OBVIOUS
    <3>1. HeapParent(sift) \in Positions /\ sift \in Nat
      BY <1>0, DataFacts, ParentFacts DEF Positions
    <3>2. Pri[sift] = D(sift).priority /\ Pri[HeapParent(sift)] = D(HeapParent(sift)).priority
          /\ D(sift).priority \in Int /\ D(HeapParent(sift)).priority \in Int
      BY <1>0, <3>1, DataFacts
    <3>3. ~(D(HeapParent(sift)).priority < D(sift).priority)
      BY <1>2 DEF Less
    <3> QED
      BY <3>2, <3>3 DEF Below
  <2>4. Sorted(Pri, Size)
    BY <1>0, <2>3 DEF SortedUp, Sorted
  <2>5. Pri' = Pri /\ Size' = Size
    BY <2>1 DEF Pri, Size, Positions, D
  <2>6. Order'
    BY <2>1, <2>4, <2>5 DEF Order
  <2> QED
    BY <2>2, <2>6 DEF Inv
<1> QED
  BY <1>1, <1>2

\* pop of the only item leaves the heap and its index empty.
LEMMA PopLastInv ==
  ASSUME Inv, Pop, ~(Size > 1)
  PROVE  Inv'
<1>0. HeapTypes /\ PosSound /\ mode = "idle"
  BY DEF Inv, Pop
<1>1. Size \in Nat /\ Size = 1 /\ 0 \in Positions /\ \A i \in Positions : i = 0
  BY <1>0, DataFacts DEF Pop, Positions
<1>2. /\ data' = <<>> /\ pos' = [pos EXCEPT ![D(0).stream] = NoPos]
      /\ UNCHANGED <<mode, sift, pushed>>
  BY DEF Pop
<1>3. Size' = 0
  BY <1>2 DEF Size
<1>4. HeapTypes'
  <2>1. -1 \in Int
    OBVIOUS
  <2>2. pos' \in [HeapStreams -> Int]
    BY <1>0, <1>2, <2>1 DEF HeapTypes, NoPos
  <2>3. data' \in Seq(WorkItem)
    BY <1>2
  <2> QED
    BY <1>0, <1>2, <2>2, <2>3 DEF HeapTypes
<1>5. PosSound'
  <2>1. ASSUME NEW u \in HeapStreams PROVE pos'[u] = NoPos
    <3>1. CASE u = D(0).stream
      BY <1>0, <1>2, <3>1 DEF HeapTypes
    <3>2. CASE u # D(0).stream
      <4>1. pos'[u] = pos[u]
        BY <1>0, <1>2, <3>2 DEF HeapTypes
      <4>2. pos[u] # NoPos => pos[u] = 0 /\ D(pos[u]).stream = u
        BY <1>0, <1>1 DEF PosSound
      <4> QED
        BY <3>2, <4>1, <4>2
    <3> QED
      BY <3>1, <3>2
  <2> QED
    BY <2>1 DEF PosSound
<1>6. Order'
  BY <1>0, <1>2, <1>3 DEF Order, Sorted
<1> QED
  BY <1>4, <1>5, <1>6 DEF Inv

\* Writing the root of a sequence of items.
LEMMA ReplaceFirst ==
  ASSUME NEW e \in Seq(WorkItem), NEW w \in WorkItem, Len(e) > 0
  PROVE  /\ [e EXCEPT ![1] = w][1] = w
         /\ \A i \in 2..Len(e) : [e EXCEPT ![1] = w][i] = e[i]
  OBVIOUS

\* The items after a pop: the last one is at the root, the others where they were.
LEMMA PopData ==
  ASSUME HeapTypes, Pop, Size > 1
  PROVE  /\ data' \in Seq(WorkItem) /\ Size' = Size - 1
         /\ data'[1] = D(Size - 1)
         /\ \A i \in 1..(Size - 2) : data'[i + 1] = data[i + 1]
<1> DEFINE l == Size - 1
<1>a. HeapTypes /\ Size \in Nat /\ l \in Positions /\ 0 \in Positions /\ l \in Nat /\ l > 0
      /\ Size - 2 = l - 1
  BY DataFacts DEF Positions
<1>b. data' = [SubSeq(data, 1, l) EXCEPT ![1] = D(l)]
  BY DEF Pop
<1>c. D(l) \in WorkItem
  BY <1>a, DataFacts
<1>d. l = Size - 1
  OBVIOUS
<1>1. /\ SubSeq(data, 1, l) \in Seq(WorkItem) /\ Len(SubSeq(data, 1, l)) = l
      /\ \A i \in 1..l : SubSeq(data, 1, l)[i] = data[i]
  BY <1>a DEF HeapTypes, Size
<1> HIDE DEF l
<1>2. data' \in Seq(WorkItem) /\ Len(data') = l
  BY <1>a, <1>b, <1>c, <1>1
<1>3. data'[1] = D(l) /\ \A i \in 2..l : data'[i] = data[i]
  <2>1. \A i \in 2..l : i \in 1..l
    BY <1>a
  <2>2. data'[1] = D(l) /\ \A i \in 2..l : data'[i] = SubSeq(data, 1, l)[i]
    <3> DEFINE e == SubSeq(data, 1, l)
               w == D(l)
    <3>1. e \in Seq(WorkItem) /\ Len(e) = l /\ w \in WorkItem /\ data' = [e EXCEPT ![1] = w]
      BY <1>b, <1>c, <1>1
    <3> HIDE DEF e, w
    <3>2. /\ [e EXCEPT ![1] = w][1] = w
          /\ \A i \in 2..Len(e) : [e EXCEPT ![1] = w][i] = e[i]
      BY <1>a, <3>1, ReplaceFirst
    <3>3. data'[1] = w /\ \A i \in 2..l : data'[i] = e[i]
      BY <3>1, <3>2
    <3> QED
      BY <3>3 DEF e, w
  <2> QED
    BY <1>1, <2>1, <2>2
<1>4. \A i \in 1..(l - 1) : i + 1 \in 2..l
  BY <1>a
<1> QED
  BY <1>a, <1>d, <1>2, <1>3, <1>4 DEF Size

\* pop moves the last item to the root: only the root's children may now be
\* out of order.
LEMMA PopInv ==
  ASSUME Inv, Pop, Size > 1
  PROVE  Inv'
<1> DEFINE l == Size - 1
<1>0. HeapTypes /\ PosSound /\ mode = "idle" /\ Sorted(Pri, Size)
  BY DEF Inv, Pop, Order
<1>1. Size \in Nat /\ l \in Positions /\ 0 \in Positions /\ l \in Nat /\ l > 0
  BY <1>0, DataFacts DEF Positions
<1>2. /\ data' = [SubSeq(data, 1, l) EXCEPT ![1] = D(l)]
      /\ pos' = [[pos EXCEPT ![D(0).stream] = NoPos] EXCEPT ![D(l).stream] = 0]
      /\ mode' = "down" /\ sift' = 0 /\ pushed' = pushed
  BY DEF Pop
<1>3. /\ D(0).stream \in HeapStreams /\ D(l).stream \in HeapStreams /\ D(l) \in WorkItem
  BY <1>0, <1>1, DataFacts
<1>4. /\ data' \in Seq(WorkItem) /\ Size' = l
      /\ data'[1] = D(l)
      /\ \A i \in 1..(l - 1) : data'[i + 1] = data[i + 1]
  <2>1. Size - 2 = l - 1
    BY <1>1
  <2> QED
    BY <1>0, <2>1, PopData
<1>5. HeapTypes'
  <2>0. -1 \in Int /\ 0 \in Int
    OBVIOUS
  <2>1. pos' \in [HeapStreams -> Int]
    BY <1>0, <1>2, <2>0 DEF HeapTypes, NoPos
  <2> QED
    BY <1>0, <1>1, <1>2, <1>4, <2>1 DEF HeapTypes
<1>6. PosSound'
  <2> SUFFICES ASSUME NEW u \in HeapStreams, pos'[u] # NoPos
               PROVE  pos'[u] \in 0..(l - 1) /\ data'[pos'[u] + 1].stream = u
    BY <1>4 DEF PosSound, D, Positions
  <2>1. CASE u = D(l).stream
    <3>1. pos'[u] = 0
      BY <1>0, <1>2, <1>3, <2>1 DEF HeapTypes
    <3> QED
      BY <1>1, <1>4, <2>1, <3>1
  <2>2. CASE u # D(l).stream
    <3>1. pos'[u] = pos[u] /\ u # D(0).stream
      BY <1>0, <1>2, <1>3, <2>2 DEF HeapTypes
    <3>2. pos[u] \in Positions /\ D(pos[u]).stream = u
      BY <1>0, <3>1 DEF PosSound
    <3>3. pos[u] # 0 /\ pos[u] # l
      BY <2>2, <3>1, <3>2
    <3>4. pos[u] \in 1..(l - 1)
      BY <1>1, <3>2, <3>3 DEF Positions
    <3>5. data'[pos[u] + 1] = data[pos[u] + 1]
      BY <1>4, <3>4
    <3>6. pos[u] \in 0..(l - 1)
      BY <1>1, <3>4
    <3> QED
      BY <3>1, <3>2, <3>5, <3>6 DEF D
  <2> QED
    BY <2>1, <2>2
<1>7. SortedDown(Pri', Size', 0)
  <2>1. ASSUME NEW i \in 0..(l - 1), i > 0, HeapParent(i) # 0 PROVE Below(Pri', i)
    <3>1. i \in 1..(l - 1) /\ HeapParent(i) \in 1..(l - 1)
      BY <1>1, <2>1, ParentFacts
    <3>2. \A j \in 1..(l - 1) : Pri'[j] = Pri[j]
      <4>1. \A j \in 1..(l - 1) : j \in 0..(l - 1) /\ j \in Positions
        BY <1>1 DEF Positions
      <4>2. \A j \in 0..(l - 1) : Pri'[j] = data'[j + 1].priority
        BY <1>4, NextPri
      <4>3. \A j \in Positions : Pri[j] = data[j + 1].priority
        BY DEF Pri, D
      <4> QED
        BY <1>4, <4>1, <4>2, <4>3
    <3>3. i \in 0..(Size - 1)
      BY <1>1
    <3>4. Below(Pri, i)
      BY <1>0, <2>1, <3>3 DEF Sorted
    <3> QED
      BY <3>1, <3>2, <3>4 DEF Below
  <2> QED
    BY <1>4, <2>1 DEF SortedDown, Bridged
<1> QED
  BY <1>2, <1>5, <1>6, <1>7 DEF Inv, Order

\* siftDown's choice: position k itself or its larger child.
LEMMA BestFacts ==
  ASSUME HeapTypes, NEW k \in Positions
  PROVE  /\ Best(k) \in Positions
         /\ Best(k) # k => Best(k) > 0 /\ HeapParent(Best(k)) = k /\ Pri[k] < Pri[Best(k)]
         /\ \A i \in 0..(Size - 1) : i > 0 /\ HeapParent(i) = k => Pri[i] <= Pri[Best(k)]
<1> DEFINE l == LeftChild(k)
           r == RightChild(k)
<1>1. /\ Size \in Nat /\ k \in Nat /\ l \in Nat /\ r \in Nat /\ k < Size
      /\ l > 0 /\ r > 0 /\ l # r /\ l # k /\ r # k
      /\ HeapParent(l) = k /\ HeapParent(r) = k
  BY DataFacts, ChildFacts DEF Positions, LeftChild, RightChild
<1>2. \A i \in 0..(Size - 1) : i > 0 /\ HeapParent(i) = k => i = l \/ i = r
  BY ParentFacts DEF LeftChild, RightChild
<1>3. \A i \in 0..(Size - 1) : Pri[i] = D(i).priority /\ Pri[i] \in Int
  BY DataFacts DEF Positions
<1>4. l < Size => l \in 0..(Size - 1)
  BY <1>1
<1>5. r < Size => r \in 0..(Size - 1)
  BY <1>1
<1>6. k \in 0..(Size - 1)
  BY DEF Positions
<1>7. \A i \in 0..(Size - 1) : i < Size
  BY <1>1
<1> DEFINE b == BestOfLeft(k)
<1>8. /\ b = k \/ (b = l /\ l < Size)
      /\ b # k => Pri[k] < Pri[b]
      /\ l < Size => Pri[l] <= Pri[b]
      /\ Pri[k] <= Pri[b] /\ b \in 0..(Size - 1)
  BY <1>1, <1>3, <1>4, <1>6 DEF BestOfLeft, Less
<1> HIDE DEF b, l, r
<1>9. /\ Best(k) = b \/ (Best(k) = r /\ r < Size)
      /\ Best(k) # b => Pri[b] < Pri[Best(k)]
      /\ r < Size => Pri[r] <= Pri[Best(k)]
      /\ Pri[b] <= Pri[Best(k)] /\ Best(k) \in 0..(Size - 1)
  <2>1. Best(k) = IF r < Size /\ Less(b, r) THEN r ELSE b
    BY DEF Best, b, r
  <2>2. r < Size => (Less(b, r) <=> Pri[b] < Pri[r])
    BY <1>3, <1>5, <1>8 DEF Less
  <2> QED
    BY <1>3, <1>5, <1>8, <2>1, <2>2
<1>10. Pri[k] \in Int /\ Pri[b] \in Int /\ Pri[Best(k)] \in Int
  BY <1>3, <1>6, <1>8, <1>9
<1>11. Best(k) # k => Best(k) > 0 /\ HeapParent(Best(k)) = k /\ Pri[k] < Pri[Best(k)]
  BY <1>1, <1>8, <1>9, <1>10
<1>12. l < Size => Pri[l] <= Pri[Best(k)]
  BY <1>3, <1>4, <1>8, <1>9, <1>10
<1>13. ASSUME NEW i \in 0..(Size - 1), i > 0, HeapParent(i) = k
       PROVE  Pri[i] <= Pri[Best(k)]
  BY <1>2, <1>7, <1>9, <1>12, <1>13
<1> QED
  BY <1>9, <1>11, <1>13 DEF Positions

\* A round of siftDown.
LEMMA SiftDownInv ==
  ASSUME Inv, SiftDown
  PROVE  Inv'
<1> DEFINE c == Best(sift)
<1>0. HeapTypes /\ PosSound /\ mode = "down" /\ SortedDown(Pri, Size, sift) /\ sift \in Positions
  BY DataFacts DEF Inv, SiftDown, Order, HeapTypes, Positions
<1>1. /\ c \in Positions
      /\ c # sift => c > 0 /\ HeapParent(c) = sift /\ Pri[sift] < Pri[c]
      /\ \A i \in 0..(Size - 1) : i > 0 /\ HeapParent(i) = sift => Pri[i] <= Pri[c]
  BY <1>0, BestFacts
<1>2. CASE c # sift
  <2>2. Swap(sift, c) /\ sift' = c /\ mode' = "down" /\ pushed' = pushed
    BY <1>0, <1>2 DEF SiftDown
  <2> HIDE DEF c
  <2>3. HeapTypes'
    BY <1>0, <1>1, <1>2, <2>2, SwapTypeOK
  <2>4. PosSound'
    BY <1>0, <1>1, <1>2, <2>2, SwapPosSound
  <2>5. SortedDown(Pri', Size, c)
    <3>1. Pri \in [0..(Size - 1) -> Int] /\ Size \in Nat
      BY <1>0, DataFacts
    <3>2. /\ Pri' \in [0..(Size - 1) -> Int]
          /\ Pri'[sift] = Pri[c] /\ Pri'[c] = Pri[sift]
          /\ \A i \in 0..(Size - 1) : i # sift /\ i # c => Pri'[i] = Pri[i]
      BY <1>0, <1>1, <1>2, <2>2, SwapPri
    <3>3. sift \in 0..(Size - 1) /\ c \in 0..(Size - 1)
      BY <1>0, <1>1 DEF Positions
    <3> QED
      BY <1>0, <1>1, <1>2, <3>1, <3>2, <3>3, SinkOrder
  <2>6. Order'
    BY <1>0, <1>1, <1>2, <2>2, <2>5, SwapFacts DEF Order
  <2> QED
    BY <2>3, <2>4, <2>6 DEF Inv
<1>3. CASE c = sift
  <2>1. mode' = "idle" /\ UNCHANGED <<data, pos, sift, pushed>>
    BY <1>0, <1>3 DEF SiftDown
  <2>2. HeapTypes' /\ PosSound'
    BY <1>0, <2>1 DEF HeapTypes, PosSound, D, Positions, Size
  <2>3. Sorted(Pri, Size)
    BY <1>0, <1>1, <1>3 DEF SortedDown, Sorted, Below
  <2>4. Pri' = Pri /\ Size' = Size
    BY <2>1 DEF Pri, Size, Positions, D
  <2> QED
    BY <2>1, <2>2, <2>3, <2>4 DEF Inv, Order
<1> QED
  BY <1>2, <1>3

\* Assigning one cell of a vector leaves the others and the length.
LEMMA ReplaceFacts ==
  ASSUME NEW S, NEW seq \in Seq(S), NEW i \in 1..Len(seq), NEW x \in S
  PROVE  /\ [seq EXCEPT ![i] = x] \in Seq(S)
         /\ Len([seq EXCEPT ![i] = x]) = Len(seq)
         /\ [seq EXCEPT ![i] = x][i] = x
         /\ \A j \in 1..Len(seq) : j # i => [seq EXCEPT ![i] = x][j] = seq[j]
BY SMT

\* The items after a priority has changed.
LEMMA UpdateData ==
  ASSUME HeapTypes, NEW k \in Positions, NEW q \in Priorities,
         data' = [data EXCEPT ![k + 1].priority = q]
  PROVE  /\ data' \in Seq(WorkItem) /\ Size' = Size
         /\ data'[k + 1] = [data[k + 1] EXCEPT !.priority = q]
         /\ \A i \in Positions : i # k => data'[i + 1] = data[i + 1]
<1>0. HeapTypes
  OBVIOUS
<1>1. k \in Nat /\ k < Size /\ Size \in Nat /\ k + 1 \in 1..Len(data)
  BY DataFacts DEF Positions, Size
<1>3. data[k + 1] \in WorkItem /\ q \in Int
  BY <1>0, <1>1, HeapAssumption DEF HeapTypes
<1>4. [data[k + 1] EXCEPT !.priority = q] \in WorkItem
      /\ [data[k + 1] EXCEPT !.priority = q].priority = q
      /\ [data[k + 1] EXCEPT !.priority = q].stream = data[k + 1].stream
  BY <1>3 DEF WorkItem
<1>5. data' = [data EXCEPT ![k + 1] = [data[k + 1] EXCEPT !.priority = q]]
  OBVIOUS
<1>6. /\ data' \in Seq(WorkItem) /\ Size' = Size
      /\ data'[k + 1] = [data[k + 1] EXCEPT !.priority = q]
      /\ \A i \in Positions : i # k => data'[i + 1] = data[i + 1]
  <2> DEFINE item == [data[k + 1] EXCEPT !.priority = q]
  <2>1. /\ data' \in Seq(WorkItem) /\ Len(data') = Len(data)
        /\ data'[k + 1] = item
        /\ \A i \in 1..Len(data) : i # k + 1 => data'[i] = data[i]
    <3>1. item \in WorkItem /\ data' = [data EXCEPT ![k + 1] = item]
      BY <1>4, <1>5
    <3> HIDE DEF item
    <3>2. data \in Seq(WorkItem)
      BY <1>0 DEF HeapTypes
    <3> QED
      BY <1>1, <3>1, <3>2, ReplaceFacts
  <2>2. \A i \in Positions : i # k => i + 1 \in 1..Len(data) /\ i + 1 # k + 1
    BY <1>1 DEF Positions, Size
  <2> QED
    BY <2>1, <2>2 DEF Size
<1> QED
  BY <1>6

\* updatePriority of an indexed item: a raised item may be out of order with
\* its parent, a lowered one with its children.
LEMMA UpdatePriorityInv ==
  ASSUME Inv, NEW s \in HeapStreams, NEW q \in Priorities, UpdatePriority(s, q),
         pos[s] # NoPos
  PROVE  Inv'
<1> DEFINE k == pos[s]
<1>0. HeapTypes /\ PosSound /\ mode = "idle" /\ Sorted(Pri, Size)
  BY DEF Inv, UpdatePriority, Order
<1>1. k \in Positions /\ k \in Nat /\ k < Size /\ Size \in Nat /\ k + 1 \in 1..Len(data)
  BY <1>0, DataFacts DEF PosSound, Positions, Size
<1>2. /\ data' = [data EXCEPT ![k + 1].priority = q]
      /\ mode' = IF q > D(k).priority THEN "up" ELSE "down"
      /\ sift' = k /\ pos' = pos /\ pushed' = pushed
  BY DEF UpdatePriority
<1> HIDE DEF k
<1>3. data[k + 1] \in WorkItem /\ q \in Int
  BY <1>0, <1>1, HeapAssumption DEF HeapTypes
<1>4. [data[k + 1] EXCEPT !.priority = q] \in WorkItem
      /\ [data[k + 1] EXCEPT !.priority = q].priority = q
      /\ [data[k + 1] EXCEPT !.priority = q].stream = data[k + 1].stream
  BY <1>3 DEF WorkItem
<1>6. /\ data' \in Seq(WorkItem) /\ Size' = Size
      /\ data'[k + 1] = [data[k + 1] EXCEPT !.priority = q]
      /\ \A i \in Positions : i # k => data'[i + 1] = data[i + 1]
  BY <1>0, <1>1, <1>2, UpdateData
<1>7. HeapTypes'
  BY <1>0, <1>1, <1>2, <1>6 DEF HeapTypes
<1>8. PosSound'
  <2>1. \A i \in Positions : data'[i + 1].stream = data[i + 1].stream
    BY <1>4, <1>6
  <2> QED
    BY <1>0, <1>2, <1>6, <2>1 DEF PosSound, Positions, D
<1>9. /\ Pri \in [0..(Size - 1) -> Int] /\ Pri' \in [0..(Size - 1) -> Int]
      /\ Pri'[k] = q /\ Pri[k] = D(k).priority /\ k \in 0..(Size - 1)
      /\ \A i \in 0..(Size - 1) : i # k => Pri'[i] = Pri[i]
  <2>1. \A i \in 0..(Size - 1) : Pri'[i] = data'[i + 1].priority
    BY <1>6, NextPri
  <2>2. \A i \in 0..(Size - 1) : Pri[i] = data[i + 1].priority
    BY DEF Pri, Positions, D
  <2>3. Pri \in [0..(Size - 1) -> Int] /\ Pri' \in [0..(Size - 1) -> Int]
    BY <1>0, <1>6, DataFacts, NextPri
  <2>4. k \in 0..(Size - 1)
    BY <1>1 DEF Positions
  <2>5. \A i \in 0..(Size - 1) : i # k => data'[i + 1] = data[i + 1]
    BY <1>6 DEF Positions
  <2>6. Pri'[k] = q
    BY <1>4, <1>6, <2>1, <2>4
  <2>7. Pri[k] = D(k).priority
    BY <2>2, <2>4 DEF D
  <2>8. \A i \in 0..(Size - 1) : i # k => Pri'[i] = Pri[i]
    BY <2>1, <2>2, <2>5
  <2> QED
    BY <2>3, <2>4, <2>6, <2>7, <2>8
<1>10. Bridged(Pri', Size, k)
  <2> SUFFICES ASSUME k > 0, NEW i \in 0..(Size - 1), i > 0, HeapParent(i) = k
               PROVE  Pri'[i] <= Pri'[HeapParent(k)]
    BY DEF Bridged
  <2>1. HeapParent(k) \in 0..(Size - 1) /\ HeapParent(k) # k /\ i # k
    BY <1>1, ParentFacts
  <2>2. Pri[i] <= Pri[k] /\ Pri[k] <= Pri[HeapParent(k)]
    BY <1>0, <1>9 DEF Sorted, Below
  <2> QED
    BY <1>9, <2>1, <2>2
<1>11. CASE q > D(k).priority
  <2>1. ASSUME NEW i \in 0..(Size - 1), i > 0, i # k PROVE Below(Pri', i)
    <3>1. HeapParent(i) \in 0..(Size - 1)
      BY <1>1, <2>1, ParentFacts
    <3>2. Pri[i] <= Pri[HeapParent(i)]
      BY <1>0, <2>1 DEF Sorted, Below
    <3> QED
      BY <1>3, <1>9, <1>11, <2>1, <3>1, <3>2 DEF Below
  <2> QED
    BY <1>2, <1>6, <1>7, <1>8, <1>10, <1>11, <2>1 DEF Inv, Order, SortedUp
<1>12. CASE ~(q > D(k).priority)
  <2>1. ASSUME NEW i \in 0..(Size - 1), i > 0, HeapParent(i) # k PROVE Below(Pri', i)
    <3>1. HeapParent(i) \in 0..(Size - 1)
      BY <1>1, <2>1, ParentFacts
    <3>2. Pri[i] <= Pri[HeapParent(i)]
      BY <1>0, <2>1 DEF Sorted, Below
    <3>3. q <= Pri[k]
      BY <1>3, <1>9, <1>12
    <3> QED
      BY <1>3, <1>9, <2>1, <3>1, <3>2, <3>3 DEF Below
  <2> QED
    BY <1>2, <1>6, <1>7, <1>8, <1>10, <1>12, <2>1 DEF Inv, Order, SortedDown
<1> QED
  BY <1>11, <1>12

\* A step that leaves the heap alone.
LEMMA SameInv ==
  ASSUME Inv, UNCHANGED <<data, pos, mode, sift, pushed>>
  PROVE  Inv'
<1>1. Pri' = Pri /\ Size' = Size
  BY DEF Pri, Size, Positions, D
<1> QED
  BY <1>1 DEF Inv, Order, HeapTypes, PosSound, D, Positions, Size

-----------------------------------------------------------------------------
\* The inductive invariant: types, a sound index, and order up to the one item
\* being sifted.
THEOREM HeapInvariant == HeapSpec => []Inv
<1>1. HeapInit => Inv
  BY InitInv
<1>2. Inv /\ [HeapNext]_heapVars => Inv'
  <2> SUFFICES ASSUME Inv, [HeapNext]_heapVars PROVE Inv'
    OBVIOUS
  <2>1. CASE UNCHANGED heapVars
    BY <2>1, SameInv DEF heapVars
  <2>2. ASSUME NEW s \in HeapStreams, NEW p \in Priorities, Push(s, p) PROVE Inv'
    BY <2>2, PushInv
  <2>3. ASSUME NEW s \in HeapStreams, NEW p \in Priorities, UpdatePriority(s, p)
        PROVE  Inv'
    <3>1. CASE pos[s] = NoPos
      BY <2>3, <3>1, SameInv DEF UpdatePriority
    <3>2. CASE pos[s] # NoPos
      BY <2>3, <3>2, UpdatePriorityInv
    <3> QED
      BY <3>1, <3>2
  <2>4. CASE Pop
    BY <2>4, PopInv, PopLastInv
  <2>5. CASE SiftUp
    BY <2>5, SiftUpInv
  <2>6. CASE SiftDown
    BY <2>6, SiftDownInv
  <2> QED
    BY <2>1, <2>2, <2>3, <2>4, <2>5, <2>6 DEF HeapNext
<1> QED
  BY <1>1, <1>2, PTL DEF HeapSpec

\* Types of the heap's members; a sift never leaves the array.
THEOREM HeapTypeOK == HeapSpec => []HeapTypes
<1>1. Inv => HeapTypes
  BY DEF Inv
<1> QED
  BY <1>1, HeapInvariant, PTL

\* The index entries push, pop and swap maintain always name an item of their
\* stream inside the heap.
THEOREM HeapPosSound == HeapSpec => []PosSound
<1>1. Inv => PosSound
  BY DEF Inv
<1> QED
  BY <1>1, HeapInvariant, PTL

\* Whenever no operation is under way no item is above one of higher priority:
\* the sift loops stop only where the order is restored.
THEOREM HeapOrdered == HeapSpec => []HeapOrder
<1>1. Inv => HeapOrder
  <2> SUFFICES ASSUME Inv, mode = "idle", NEW i \in Positions, i > 0
               PROVE  ~Less(HeapParent(i), i)
    BY DEF HeapOrder
  <2>1. HeapTypes /\ Sorted(Pri, Size) /\ i \in 0..(Size - 1) /\ i \in Nat
    BY DEF Inv, Order, Positions
  <2>2. HeapParent(i) \in Positions
    BY <2>1, DataFacts, ParentFacts DEF Positions
  <2>3. Pri[i] <= Pri[HeapParent(i)]
    BY <2>1 DEF Sorted, Below
  <2> QED
    <3>1. /\ Pri[i] = D(i).priority /\ D(i).priority \in Int
          /\ Pri[HeapParent(i)] = D(HeapParent(i)).priority /\ D(HeapParent(i)).priority \in Int
      BY <2>1, <2>2, DataFacts
    <3> QED
      BY <2>3, <3>1 DEF Less
<1> QED
  BY <1>1, HeapInvariant, PTL

-----------------------------------------------------------------------------
(* The heap implements the priority pool *)

\* A set of natural numbers has a least element: what induction over positions
\* rests on.
LEMMA LeastNatural ==
  ASSUME NEW T, T \subseteq Nat, T # {}
  PROVE  \E m \in T : \A k \in T : m <= k
<1> DEFINE R == {x \in Nat \X Nat : x[1] < x[2]}
<1>1. IsWellFoundedOn(R, Nat)
  BY NatLessThanWellFounded DEF OpToRel
<1> HIDE DEF R
<1>2. PICK m \in T : \A k \in T : ~(<<k, m>> \in R)
  BY <1>1, WFMin
<1>3. \A k \in T : ~(k < m)
  BY <1>2 DEF R
<1>4. \A k \in T : k \in Nat /\ m \in Nat
  OBVIOUS
<1>5. \A k \in T : m <= k
  BY <1>3, <1>4
<1> QED
  BY <1>5

\* In a sorted heap no priority is above the root's: a least position above the
\* root would have a parent above the root.
LEMMA RootHighest ==
  ASSUME NEW n \in Nat, NEW f \in [0..(n - 1) -> Int], Sorted(f, n), NEW k \in 0..(n - 1)
  PROVE  f[k] <= f[0]
<1> DEFINE T == {j \in Nat : j < n /\ ~(f[j] <= f[0])}
<1>1. SUFFICES ASSUME T # {} PROVE FALSE
  <2>1. k \in Nat /\ k < n
    OBVIOUS
  <2> QED
    BY <2>1
<1>2. PICK m \in T : \A j \in T : m <= j
  <2>1. T \subseteq Nat
    OBVIOUS
  <2> HIDE DEF T
  <2> QED
    BY <1>1, <2>1, LeastNatural
<1>3. m \in Nat /\ m < n /\ ~(f[m] <= f[0])
  BY <1>2
<1>4. m > 0 /\ 0 \in 0..(n - 1) /\ m \in 0..(n - 1)
  <2>1. 0 \in 0..(n - 1) /\ f[0] \in Int
    BY <1>3
  <2> QED
    BY <1>3, <2>1
<1>5. HeapParent(m) \in Nat /\ HeapParent(m) < m
  BY <1>3, <1>4, ParentFacts
<1>6. f[HeapParent(m)] <= f[0]
  BY <1>2, <1>3, <1>5
<1>7. f[m] <= f[HeapParent(m)]
  BY <1>4 DEF Sorted, Below
<1>8. f[m] \in Int /\ f[HeapParent(m)] \in Int /\ f[0] \in Int
  BY <1>3, <1>4, <1>5
<1> QED
  BY <1>3, <1>6, <1>7, <1>8

\* Every id was handed out by push, to one item of the heap at most.
IdInv ==
  /\ \A i, j \in Positions : D(i).id = D(j).id => i = j
  /\ \A i \in Positions : D(i).id \in 1..pushed
  /\ taken \subseteq 1..pushed

\* The items of a vector, by position.
LEMMA ItemsByPosition ==
  ASSUME NEW d \in Seq(WorkItem)
  PROVE  {d[i] : i \in DOMAIN d} = {d[i + 1] : i \in 0..(Len(d) - 1)}
<1>1. DOMAIN d = 1..Len(d) /\ Len(d) \in Nat
  OBVIOUS
<1>2. \A i \in 1..Len(d) : i - 1 \in 0..(Len(d) - 1) /\ (i - 1) + 1 = i
  BY <1>1
<1>3. \A i \in 0..(Len(d) - 1) : i + 1 \in 1..Len(d)
  BY <1>1
<1> QED
  BY <1>1, <1>2, <1>3

\* The ids of items.
LEMMA ItemIds ==
  ASSUME HeapTypes, NEW i \in Positions
  PROVE  D(i).id \in Nat
BY DataFacts, HeapAssumption DEF WorkItem

Items == {data[i] : i \in DOMAIN data}

\* The items of this state and of the next one, by position.
LEMMA ItemsNow ==
  ASSUME HeapTypes
  PROVE  Items = {D(i) : i \in Positions}
BY ItemsByPosition DEF HeapTypes, Items, D, Positions, Size

\* The same after a step.
LEMMA ItemsNext ==
  ASSUME data' \in Seq(WorkItem)
  PROVE  Items' = {data'[i + 1] : i \in 0..(Size' - 1)}
BY ItemsByPosition DEF Items, Size

\* swap loses and duplicates no item.
LEMMA SwapPool ==
  ASSUME HeapTypes, IdInv, NEW i \in Positions, NEW j \in Positions, i # j, Swap(i, j),
         UNCHANGED <<pushed, taken>>
  PROVE  IdInv' /\ Items' = Items
<1>1. /\ data' \in Seq(WorkItem) /\ Size' = Size /\ Positions' = Positions
      /\ data'[i + 1] = D(j) /\ data'[j + 1] = D(i)
      /\ \A k \in Positions : k # i /\ k # j => data'[k + 1] = D(k)
  BY SwapFacts DEF D
<1>2. Items' = {data'[k + 1] : k \in Positions}
  BY <1>1, ItemsNext DEF Positions
<1> DEFINE to(k) == IF k = i THEN j ELSE IF k = j THEN i ELSE k
<1>3. \A k \in Positions : to(k) \in Positions /\ to(to(k)) = k /\ data'[k + 1] = D(to(k))
  BY <1>1
<1>4. Items' = Items
  BY <1>2, <1>3, ItemsNow
<1>5. IdInv'
  <2>1. ASSUME NEW k \in Positions, NEW m \in Positions, data'[k + 1].id = data'[m + 1].id
        PROVE  k = m
    <3>1. to(k) = to(m)
      BY <1>3, <2>1 DEF IdInv
    <3>2. to(to(k)) = k /\ to(to(m)) = m
      BY <1>3
    <3> QED
      BY <3>1, <3>2
  <2>2. \A k \in Positions : data'[k + 1].id \in 1..pushed
    BY <1>3 DEF IdInv
  <2> QED
    BY <1>1, <2>1, <2>2 DEF IdInv, D
<1> QED
  BY <1>4, <1>5

\* push puts one item with a new id.
LEMMA PushPool ==
  ASSUME Inv, IdInv, NEW s \in HeapStreams, NEW q \in Priorities, Push(s, q)
  PROVE  IdInv' /\ \E x \in WorkItem : Pool!Put(x)
<1> DEFINE x == [id |-> pushed + 1, stream |-> s, priority |-> q]
<1>0. HeapTypes /\ pushed \in Nat /\ pushed < MaxPush /\ MaxPush \in Nat /\ pushed' = pushed + 1
      /\ taken' = taken
  BY HeapAssumption DEF Inv, Push, HeapTypes
<1>1. x \in WorkItem /\ x.id = pushed + 1
  BY <1>0 DEF WorkItem
<1>2. data' = Append(data, x)
  BY DEF Push
<1> HIDE DEF x
<1>3. /\ data' \in Seq(WorkItem) /\ Size' = Size + 1 /\ Size \in Nat /\ data'[Size + 1] = x
      /\ \A i \in 1..Size : data'[i] = data[i]
  BY <1>0, <1>1, <1>2 DEF HeapTypes, Size
<1>4. /\ Positions' = 0..Size
      /\ \A i \in 0..Size : i \in Positions \/ i = Size
      /\ \A i \in Positions : i \in 0..Size /\ i # Size /\ data'[i + 1] = D(i)
  <2>1. \A i \in Positions : i + 1 \in 1..Size
    BY <1>3 DEF Positions
  <2> QED
    BY <1>3, <2>1 DEF Positions, D
<1>5. Items' = Items \cup {x}
  <2>1. Items' = {data'[i + 1] : i \in 0..Size}
    BY <1>3, ItemsNext
  <2>2. Size \in 0..Size
    BY <1>3
  <2> QED
    BY <1>0, <1>3, <1>4, <2>1, <2>2, ItemsNow
<1>6. \A y \in Items : y.id # x.id
  BY <1>0, <1>1, ItemsNow DEF IdInv
<1>7. x.id \notin taken
  BY <1>0, <1>1 DEF IdInv
<1>8. IdInv'
  <2>1. ASSUME NEW i \in 0..Size PROVE data'[i + 1].id \in 1..(pushed + 1)
    <3>1. CASE i \in Positions
      <4>1. data'[i + 1] = D(i) /\ D(i).id \in 1..pushed
        BY <1>4, <3>1 DEF IdInv
      <4> QED
        BY <1>0, <4>1
    <3>2. CASE i = Size
      <4>1. data'[i + 1].id = pushed + 1
        BY <1>1, <1>3, <3>2
      <4> QED
        BY <1>0, <4>1
    <3> QED
      BY <1>4, <3>1, <3>2
  <2>2. ASSUME NEW i \in 0..Size, NEW j \in 0..Size, data'[i + 1].id = data'[j + 1].id
        PROVE  i = j
    <3>1. \A k \in Positions : data'[k + 1].id # pushed + 1
      BY <1>0, <1>4 DEF IdInv
    <3>2. CASE i \in Positions /\ j \in Positions
      BY <1>4, <2>2, <3>2 DEF IdInv
    <3>3. CASE i = Size /\ j = Size
      BY <3>3
    <3>4. CASE i = Size /\ j \in Positions
      BY <1>1, <1>3, <2>2, <3>1, <3>4
    <3>5. CASE i \in Positions /\ j = Size
      BY <1>1, <1>3, <2>2, <3>1, <3>5
    <3> QED
      BY <1>4, <3>2, <3>3, <3>4, <3>5
  <2>3. taken \subseteq 1..(pushed + 1)
    BY <1>0 DEF IdInv
  <2> QED
    BY <1>0, <1>4, <2>1, <2>2, <2>3 DEF IdInv, D
<1> QED
  BY <1>0, <1>1, <1>5, <1>6, <1>7, <1>8 DEF Pool!Put, Items

\* pop takes an item of the highest priority and keeps the others.
LEMMA PopPool ==
  ASSUME Inv, IdInv, Pop
  PROVE  IdInv' /\ \E x \in Items : Pool!Take(x)
<1>0. HeapTypes /\ Sorted(Pri, Size) /\ Size \in Nat /\ Size > 0 /\ 0 \in Positions
      /\ pushed' = pushed /\ taken' = taken \cup {D(0).id}
  BY DataFacts DEF Inv, Order, Pop, Positions
<1>1. \A y \in Items : y.priority <= D(0).priority
  <2> SUFFICES ASSUME NEW k \in Positions PROVE D(k).priority <= D(0).priority
    BY <1>0, ItemsNow
  <2>1. Pri[k] <= Pri[0]
    BY <1>0, DataFacts, RootHighest DEF Positions
  <2> QED
    BY <1>0, <2>1, DataFacts
<1>2. \A k \in Positions : k # 0 => D(k) # D(0)
  BY <1>0 DEF IdInv
<1>3. Items \ {D(0)} = {D(k) : k \in Positions \ {0}}
  BY <1>0, <1>2, ItemsNow
<1>4. taken' \subseteq 1..pushed
  BY <1>0 DEF IdInv
<1>5. CASE Size > 1
  <2>1. /\ data' \in Seq(WorkItem) /\ Size' = Size - 1
        /\ data'[1] = D(Size - 1)
        /\ \A i \in 1..(Size - 2) : data'[i + 1] = data[i + 1]
    BY <1>0, <1>5, PopData
  <2> DEFINE from(i) == IF i = 0 THEN Size - 1 ELSE i
  <2>2. \A i \in 0..(Size - 2) : /\ from(i) \in Positions \ {0}
                                 /\ data'[i + 1] = D(from(i))
    <3>1. \A i \in 0..(Size - 2) : i = 0 \/ i \in 1..(Size - 2)
      BY <1>0
    <3>2. \A i \in 1..(Size - 2) : data'[i + 1] = D(i)
      BY <2>1 DEF D
    <3>3. data'[0 + 1] = D(Size - 1)
      BY <2>1
    <3>4. \A i \in 0..(Size - 2) : from(i) \in Positions \ {0}
      BY <1>0, <1>5 DEF Positions
    <3> QED
      BY <3>1, <3>2, <3>3, <3>4
  <2>3. \A k \in Positions \ {0} : \E i \in 0..(Size - 2) : from(i) = k
    <3> TAKE k \in Positions \ {0}
    <3>1. CASE k = Size - 1
      <4>1. 0 \in 0..(Size - 2) /\ from(0) = k
        BY <1>0, <1>5, <3>1
      <4> QED
        BY <4>1
    <3>2. CASE k # Size - 1
      <4>1. k \in 0..(Size - 2) /\ from(k) = k
        BY <1>0, <1>5, <3>2 DEF Positions
      <4> QED
        BY <4>1
    <3> QED
      BY <3>1, <3>2
  <2>4. \A i, j \in 0..(Size - 2) : from(i) = from(j) => i = j
    BY <1>0, <1>5
  <2> HIDE DEF from
  <2>5. Size' - 1 = Size - 2 /\ Positions' = 0..(Size - 2)
    BY <1>0, <2>1 DEF Positions
  <2>6. Items' = {data'[i + 1] : i \in 0..(Size - 2)}
    BY <2>1, <2>5, ItemsNext
  <2>7. Items' = Items \ {D(0)}
    BY <1>3, <2>2, <2>3, <2>6
  <2>8. IdInv'
    <3>1. \A i \in 0..(Size - 2) : data'[i + 1].id \in 1..pushed
      BY <2>2 DEF IdInv
    <3>2. \A i, j \in 0..(Size - 2) : data'[i + 1].id = data'[j + 1].id => i = j
      BY <2>2, <2>4 DEF IdInv
    <3> QED
      BY <1>0, <1>4, <2>5, <3>1, <3>2 DEF IdInv, D
  <2> QED
    BY <1>0, <1>1, <2>7, <2>8, ItemsNow DEF Pool!Take, Items
<1>6. CASE ~(Size > 1)
  <2>1. data' = <<>> /\ Positions = {0}
    BY <1>0, <1>6 DEF Pop, Positions
  <2>2. Items' = {} /\ Positions' = {}
    BY <2>1 DEF Items, Positions, Size
  <2>3. Items' = Items \ {D(0)}
    BY <1>3, <2>1, <2>2
  <2>4. IdInv'
    BY <1>0, <1>4, <2>2 DEF IdInv
  <2> QED
    BY <1>0, <1>1, <2>3, <2>4, ItemsNow DEF Pool!Take, Items
<1> QED
  BY <1>5, <1>6

\* updatePriority changes one item.
LEMMA UpdatePool ==
  ASSUME Inv, IdInv, NEW s \in HeapStreams, NEW q \in Priorities, UpdatePriority(s, q),
         pos[s] # NoPos
  PROVE  IdInv' /\ \E x \in Items, y \in WorkItem : Pool!Change(x, y)
<1> DEFINE k == pos[s]
           y == [data[k + 1] EXCEPT !.priority = q]
<1>0. HeapTypes /\ k \in Positions /\ UNCHANGED <<pushed, taken>>
      /\ data' = [data EXCEPT ![k + 1].priority = q]
  BY DEF Inv, UpdatePriority, PosSound
<1>1. D(k) \in WorkItem /\ y \in WorkItem /\ y.id = D(k).id /\ y.stream = D(k).stream
  BY <1>0, DataFacts DEF WorkItem, D
<1>2. /\ data' \in Seq(WorkItem) /\ Size' = Size /\ Positions' = Positions
      /\ data'[k + 1] = y
      /\ \A i \in Positions : i # k => data'[i + 1] = D(i)
  BY <1>0, UpdateData DEF D, Positions
<1> HIDE DEF k, y
<1>3. Items' = {data'[i + 1] : i \in Positions}
  BY <1>2, ItemsNext DEF Positions
<1>4. \A i \in Positions : i # k => D(i) # D(k)
  BY <1>0 DEF IdInv
<1>5. Items' = (Items \ {D(k)}) \cup {y}
  BY <1>0, <1>2, <1>3, <1>4, ItemsNow
<1>6. \A i \in Positions : data'[i + 1].id = D(i).id
  BY <1>1, <1>2
<1>7. IdInv'
  BY <1>0, <1>2, <1>6 DEF IdInv, D
<1> QED
  BY <1>0, <1>1, <1>5, <1>7, ItemsNow DEF Pool!Change, Items

\* The sifts and the calls that find nothing to do leave the pool alone.
LEMMA SiftPool ==
  ASSUME Inv, IdInv, SiftUp \/ SiftDown
  PROVE  IdInv' /\ Items' = Items /\ taken' = taken
<1>0. HeapTypes /\ (mode # "idle" => sift \in Positions) /\ UNCHANGED <<pushed, taken>>
  BY DataFacts DEF Inv, HeapTypes, Positions, SiftUp, SiftDown
<1>1. CASE UNCHANGED data
  BY <1>0, <1>1 DEF IdInv, Items, D, Positions, Size
<1>2. CASE SiftUp /\ sift > 0 /\ Less(HeapParent(sift), sift)
  <2>1. sift \in Positions /\ Swap(HeapParent(sift), sift)
    BY <1>0, <1>2 DEF SiftUp
  <2>2. HeapParent(sift) \in Positions /\ HeapParent(sift) # sift
    BY <1>0, <1>2, <2>1, DataFacts, ParentFacts DEF Positions
  <2> QED
    BY <1>0, <2>1, <2>2, SwapPool
<1>3. CASE SiftDown /\ Best(sift) # sift
  <2>1. sift \in Positions /\ Swap(sift, Best(sift))
    BY <1>0, <1>3 DEF SiftDown
  <2>2. Best(sift) \in Positions
    BY <1>0, <2>1, BestFacts
  <2> QED
    BY <1>0, <1>3, <2>1, <2>2, SwapPool
<1>4. SiftUp /\ ~(sift > 0 /\ Less(HeapParent(sift), sift)) => UNCHANGED data
  BY DEF SiftUp
<1>5. SiftDown /\ ~(Best(sift) # sift) => UNCHANGED data
  BY DEF SiftDown
<1> QED
  BY <1>1, <1>2, <1>3, <1>4, <1>5

\* The heap implements the priority pool for every number of items, streams and
\* priorities: pop returns an item no waiting item beats, push, pop and
\* updatePriority change the one item they name, and the swaps of siftUp and
\* siftDown lose and duplicate none.
THEOREM HeapImplementsPool == HeapSpec => ImplementsPriorityPool
<1>1. HeapInit => IdInv /\ Pool!Init
  BY DEF HeapInit, IdInv, Pool!Init, Positions, Size
<1>2. Inv /\ IdInv /\ [HeapNext]_heapVars => IdInv' /\ [Pool!Next]_(Pool!poolVars)
  <2> SUFFICES ASSUME Inv, IdInv, [HeapNext]_heapVars
               PROVE  IdInv' /\ (Pool!Next \/ (Items' = Items /\ taken' = taken))
    BY DEF Pool!poolVars, Items
  <2>1. CASE UNCHANGED heapVars
    BY <2>1 DEF heapVars, IdInv, Items, D, Positions, Size
  <2>2. ASSUME NEW s \in HeapStreams, NEW p \in Priorities, Push(s, p)
        PROVE  IdInv' /\ Pool!Next
    BY <2>2, PushPool DEF Pool!Next
  <2>3. ASSUME NEW s \in HeapStreams, NEW p \in Priorities, UpdatePriority(s, p)
        PROVE  IdInv' /\ (Pool!Next \/ (Items' = Items /\ taken' = taken))
    <3>1. CASE pos[s] = NoPos
      BY <2>3, <3>1 DEF UpdatePriority, IdInv, Items, D, Positions, Size
    <3>2. CASE pos[s] # NoPos
      BY <2>3, <3>2, UpdatePool DEF Pool!Next, Items
    <3> QED
      BY <3>1, <3>2
  <2>4. CASE Pop
    BY <2>4, PopPool DEF Pool!Next, Items
  <2>5. CASE SiftUp \/ SiftDown
    BY <2>5, SiftPool
  <2> QED
    BY <2>1, <2>2, <2>3, <2>4, <2>5 DEF HeapNext
<1> QED
  BY <1>1, <1>2, HeapInvariant, PTL DEF HeapSpec, ImplementsPriorityPool, Pool!Spec

-----------------------------------------------------------------------------
(* Recursion *)

\* A set of numbers up to n that holds 0, and every successor up to n of what it
\* holds, holds them all.
LEMMA Reaches ==
  ASSUME NEW n \in Nat, NEW T, 0 \in T,
         \A i \in 1..n : i - 1 \in T => i \in T
  PROVE  \A i \in 0..n : i \in T
<1> DEFINE Bad == {i \in 0..n : i \notin T}
<1> SUFFICES ASSUME Bad # {} PROVE FALSE
  OBVIOUS
<1>1. Bad \subseteq Nat
  OBVIOUS
<1>2. PICK m \in Bad : \A k \in Bad : m <= k
  BY <1>1, LeastNatural
<1>3. m \in 0..n /\ m \notin T
  OBVIOUS
<1>4. m # 0
  BY <1>3
<1>5. m \in 1..n /\ m - 1 \in 0..n
  BY <1>3, <1>4
<1>6. m - 1 \notin Bad
  BY <1>2, <1>5
<1> QED BY <1>3, <1>5, <1>6

\* g starts with c and each of its values is F of the one before.
Iterates(g, c, n, F) == g[0] = c /\ \A i \in 1..n : g[i] = F[i][g[i - 1]]

\* A function with values in S that starts with c and whose value at i is F[i] of
\* the value before.
LEMMA RecursionExists ==
  ASSUME NEW S, NEW c \in S, NEW n \in Nat, NEW F \in [1..n -> [S -> S]]
  PROVE  \E g \in [0..n -> S] : Iterates(g, c, n, F)
<1> DEFINE Good(k) == \E g \in [0..k -> S] :
                         g[0] = c /\ \A i \in 1..k : g[i] = F[i][g[i - 1]]
           T == {k \in 0..n : Good(k)}
<1>1. 0 \in T
  <2>1. [i \in 0..0 |-> c] \in [0..0 -> S] /\ [i \in 0..0 |-> c][0] = c
    OBVIOUS
  <2>2. Good(0)
    <3> WITNESS [i \in 0..0 |-> c] \in [0..0 -> S]
    <3> QED BY <2>1
  <2> QED BY <2>2
<1>2. ASSUME NEW k \in 1..n, k - 1 \in T PROVE k \in T
  <2>1. PICK g \in [0..(k - 1) -> S] :
           g[0] = c /\ \A i \in 1..(k - 1) : g[i] = F[i][g[i - 1]]
    BY <1>2
  <2> DEFINE h == [i \in 0..k |-> IF i = k THEN F[k][g[k - 1]] ELSE g[i]]
  <2>2. F[k][g[k - 1]] \in S
    <3>1. k - 1 \in 0..(k - 1)
      OBVIOUS
    <3>2. F[k] \in [S -> S] /\ g[k - 1] \in S
      BY <3>1
    <3> QED BY <3>2
  <2>3. h \in [0..k -> S]
    <3>1. \A i \in 0..k : i # k => i \in 0..(k - 1)
      OBVIOUS
    <3> QED BY <2>2, <3>1
  <2>4. h[0] = c
    BY <2>1
  <2>5. ASSUME NEW i \in 1..k PROVE h[i] = F[i][h[i - 1]]
    <3>1. CASE i = k
      <4>1. h[i - 1] = g[k - 1]
        BY <3>1
      <4> QED BY <3>1, <4>1
    <3>2. CASE i # k
      <4>1. i \in 1..(k - 1) /\ i \in 0..k /\ i - 1 \in 0..k /\ i - 1 # k
        BY <3>2
      <4>2. h[i] = g[i] /\ h[i - 1] = g[i - 1]
        BY <4>1, <3>2
      <4> QED BY <4>1, <4>2, <2>1
    <3> QED BY <3>1, <3>2
  <2> HIDE DEF h
  <2>6. Good(k)
    <3> WITNESS h \in [0..k -> S]
    <3> QED BY <2>4, <2>5
  <2> HIDE DEF Good
  <2> QED BY <2>6
<1> HIDE DEF T
<1>3. n \in T
  <2>1. \A i \in 0..n : i \in T
    BY <1>1, <1>2, Reaches
  <2> QED BY <2>1
<1> QED BY <1>3 DEF T, Iterates

-----------------------------------------------------------------------------
(* The tree of waiting buckets *)

\* There is a leaf for every bucket.
LEMMA LeavesFacts ==
  /\ \A i \in 0..TotalBlocks : Leaves[i] \in Nat /\ (Leaves[i] >= i + 1 \/ Leaves[i] >= NoBucket)
<1> USE KVAssumption DEF NoBucket
<1> DEFINE F == [i \in 1..TotalBlocks |->
                   [x \in Nat |-> IF x < NoBucket THEN 2 * x ELSE x]]
<1>1. \E g \in [0..TotalBlocks -> Nat] : Iterates(g, 1, TotalBlocks, F)
  <2>1. F \in [1..TotalBlocks -> [Nat -> Nat]]
    OBVIOUS
  <2>2. TotalBlocks \in Nat /\ 1 \in Nat
    OBVIOUS
  <2> HIDE DEF F
  <2> QED BY ONLY <2>1, <2>2, RecursionExists
<1>2. PICK g \in [0..TotalBlocks -> Nat] :
        g[0] = 1 /\ \A i \in 1..TotalBlocks : g[i] = F[i][g[i - 1]]
  BY <1>1 DEF Iterates
<1> DEFINE Rec(f) == [i \in 0..TotalBlocks |->
             IF i = 0 THEN 1 ELSE IF f[i - 1] < NoBucket THEN 2 * f[i - 1] ELSE f[i - 1]]
<1>3. g = Rec(g)
  <2>1. ASSUME NEW i \in 0..TotalBlocks PROVE g[i] = Rec(g)[i]
    <3>1. CASE i = 0
      BY <3>1, <1>2
    <3>2. CASE i # 0
      <4>1. i \in 1..TotalBlocks /\ i - 1 \in 0..TotalBlocks
        BY <3>2
      <4>2. g[i - 1] \in Nat /\ g[i] = F[i][g[i - 1]]
        BY <4>1, <1>2
      <4> QED BY <4>1, <4>2, <3>2
    <3> QED BY <3>1, <3>2
  <2> QED BY <2>1
<1>4. Leaves = Rec(Leaves)
  <2>1. \E f : f = Rec(f)
    BY <1>3
  <2>2. Leaves = CHOOSE f : f = Rec(f)
    BY DEF Leaves
  <2> HIDE DEF Rec
  <2> QED BY <2>1, <2>2
<1>5. Leaves[0] = 1
  BY <1>4
<1>6. \A i \in 1..TotalBlocks :
        Leaves[i] = IF Leaves[i - 1] < NoBucket THEN 2 * Leaves[i - 1] ELSE Leaves[i - 1]
  <2>1. ASSUME NEW i \in 1..TotalBlocks
        PROVE  Leaves[i] = IF Leaves[i - 1] < NoBucket THEN 2 * Leaves[i - 1] ELSE Leaves[i - 1]
    <3>1. i \in 0..TotalBlocks /\ i # 0
      OBVIOUS
    <3>2. Rec(Leaves)[i] = IF Leaves[i - 1] < NoBucket THEN 2 * Leaves[i - 1] ELSE Leaves[i - 1]
      BY <3>1
    <3> HIDE DEF Rec
    <3> QED BY <1>4, <3>2
  <2> QED BY <2>1
<1> DEFINE T == {i \in 0..TotalBlocks :
                  Leaves[i] \in Nat /\ (Leaves[i] >= i + 1 \/ Leaves[i] >= NoBucket)}
<1> HIDE DEF F, Rec
<1>7. 0 \in T
  BY <1>5
<1>8. ASSUME NEW i \in 1..TotalBlocks, i - 1 \in T PROVE i \in T
  <2>1. PICK x \in Nat : x = Leaves[i - 1] /\ (x >= i \/ x >= NoBucket)
    BY <1>8
  <2>2. Leaves[i] = IF x < NoBucket THEN 2 * x ELSE x
    BY <1>6, <2>1
  <2>3. i \in 0..TotalBlocks /\ i >= 1
    OBVIOUS
  <2> QED BY <2>1, <2>2, <2>3
<1> HIDE DEF T
<1>9. \A i \in 0..TotalBlocks : i \in T
  BY <1>7, <1>8, Reaches
<1> QED BY <1>9 DEF T

\* The tree has a leaf for every bucket.
LEMMA BaseFacts ==
  TreeBase \in Nat /\ TreeBase >= NoBucket /\ TreeBase >= 1 /\ NoBucket \in Nat
<1>1. TotalBlocks \in 0..TotalBlocks /\ TotalBlocks \in Nat
  BY KVAssumption
<1>2. TreeBase = Leaves[TotalBlocks]
  BY DEF TreeBase
<1> QED BY <1>1, <1>2, LeavesFacts DEF NoBucket

\* The trees updateWaitingBucket works on, and what its loop carries.
Trees == [0..(2 * TreeBase - 1) -> 0..NoBucket]
Climbs == [node : 0..(2 * TreeBase - 1), tree : Trees]

\* One turn of the loop of updateWaitingBucket.
ClimbStep(bs, x) ==
  LET n == x.node \div 2
  IN IF x.node <= 1 THEN x
     ELSE [node |-> n, tree |-> [x.tree EXCEPT ![n] = Older(bs, x.tree[2 * n], x.tree[2 * n + 1])]]

\* What a bucket's leaf holds.
LeafValue(bs, b) == IF bs[b] = <<>> THEN NoBucket ELSE b

\* Older chooses one of the two.
LEMMA OlderIsOne ==
  ASSUME NEW bs, NEW l, NEW r
  PROVE  Older(bs, l, r) = l \/ Older(bs, l, r) = r
BY DEF Older

\* A number and its half.
LEMMA Halves ==
  ASSUME NEW n \in Nat
  PROVE  /\ n \div 2 \in Nat
         /\ 2 * (n \div 2) <= n /\ n <= 2 * (n \div 2) + 1
         /\ n % 2 \in {0, 1} /\ n = 2 * (n \div 2) + (n % 2)
         /\ n > 1 => n \div 2 >= 1 /\ n \div 2 < n
OBVIOUS

\* A turn of the loop leaves a node of the tree and a tree.
LEMMA ClimbStepType ==
  ASSUME NEW bs, NEW x \in Climbs
  PROVE  ClimbStep(bs, x) \in Climbs
<1> USE BaseFacts
<1>1. CASE x.node <= 1
  BY <1>1 DEF ClimbStep
<1>2. CASE ~(x.node <= 1)
  <2>1. PICK m \in 0..(2 * TreeBase - 1) : x.node = m
    BY DEF Climbs
  <2>2. x.tree \in Trees
    BY DEF Climbs
  <2>3. PICK n \in Nat : n = m \div 2 /\ n >= 1 /\ n < m /\ 2 * n + 1 <= 2 * TreeBase - 1
    BY <1>2, <2>1, Halves
  <2>4. x.tree[2 * n] \in 0..NoBucket /\ x.tree[2 * n + 1] \in 0..NoBucket
    BY <2>2, <2>3 DEF Trees
  <2>5. Older(bs, x.tree[2 * n], x.tree[2 * n + 1]) \in 0..NoBucket
    BY <2>4, OlderIsOne
  <2>6. [x.tree EXCEPT ![n] = Older(bs, x.tree[2 * n], x.tree[2 * n + 1])] \in Trees
    BY <2>2, <2>5 DEF Trees
  <2>7. n \in 0..(2 * TreeBase - 1)
    BY <2>3
  <2>8. ClimbStep(bs, x) = [node |-> n, tree |-> [x.tree EXCEPT ![n] = Older(bs, x.tree[2 * n], x.tree[2 * n + 1])]]
    BY <1>2, <2>1, <2>3 DEF ClimbStep
  <2> QED BY <2>6, <2>7, <2>8 DEF Climbs
<1> QED BY <1>1, <1>2

\* The loop, turn by turn.
LEMMA ClimbUnfolds ==
  ASSUME NEW t \in Trees, NEW bs, NEW b \in BucketIds
  PROVE  /\ Climb(t, bs, b)[0] =
              [node |-> TreeBase + b, tree |-> [t EXCEPT ![TreeBase + b] = LeafValue(bs, b)]]
         /\ \A i \in 1..(TreeBase + b) :
              Climb(t, bs, b)[i] = ClimbStep(bs, Climb(t, bs, b)[i - 1])
<1> USE BaseFacts
<1> DEFINE leaf == TreeBase + b
           start == [node |-> leaf, tree |-> [t EXCEPT ![leaf] = LeafValue(bs, b)]]
           F == [i \in 1..leaf |-> [x \in Climbs |-> ClimbStep(bs, x)]]
           Rec(f) == [i \in 0..leaf |->
                        IF i = 0 THEN start ELSE ClimbStep(bs, f[i - 1])]
<1>1. leaf \in Nat /\ leaf \in 0..(2 * TreeBase - 1)
  BY KVAssumption DEF BucketIds, NoBucket
<1>2. start \in Climbs
  <2>1. LeafValue(bs, b) \in 0..NoBucket
    BY KVAssumption DEF LeafValue, BucketIds, NoBucket
  <2>2. [t EXCEPT ![leaf] = LeafValue(bs, b)] \in Trees
    BY <2>1, <1>1 DEF Trees
  <2> QED BY <1>1, <2>2 DEF Climbs
<1>3. F \in [1..leaf -> [Climbs -> Climbs]]
  BY ClimbStepType
<1> HIDE DEF leaf, start, F
<1>4. PICK g \in [0..leaf -> Climbs] : Iterates(g, start, leaf, F)
  BY ONLY <1>1, <1>2, <1>3, RecursionExists
<1>5. g = Rec(g)
  <2>1. ASSUME NEW i \in 0..leaf PROVE g[i] = Rec(g)[i]
    <3>1. CASE i = 0
      BY <3>1, <1>1, <1>4 DEF Iterates
    <3>2. CASE i # 0
      <4>1. i \in 1..leaf /\ i - 1 \in 0..leaf
        BY <1>1, <3>2
      <4>2. g[i - 1] \in Climbs /\ g[i] = F[i][g[i - 1]]
        BY <4>1, <1>4 DEF Iterates
      <4> QED BY <4>1, <4>2, <3>2 DEF F
    <3> QED BY <3>1, <3>2
  <2> QED BY <2>1
<1>6. Climb(t, bs, b) = CHOOSE f : f = Rec(f)
  BY DEF Climb, leaf, start, ClimbStep, LeafValue
<1>7. Climb(t, bs, b) = Rec(Climb(t, bs, b))
  <2>1. \E f : f = Rec(f)
    BY <1>5
  <2> HIDE DEF Rec
  <2> QED BY <2>1, <1>6
<1> DEFINE c == Climb(t, bs, b)
<1> HIDE DEF c
<1>8. c = Rec(c)
  BY <1>7 DEF c
<1>9. c[0] = start
  BY <1>1, <1>8
<1>10. ASSUME NEW i \in 1..leaf PROVE c[i] = ClimbStep(bs, c[i - 1])
  <2>1. i \in 0..leaf /\ i # 0
    BY <1>1
  <2>2. Rec(c)[i] = ClimbStep(bs, c[i - 1])
    BY <2>1
  <2> HIDE DEF Rec
  <2> QED BY <1>8, <2>2
<1> QED BY <1>9, <1>10 DEF c, leaf, start

\* An inner node holds the older of its children's.
NodeRight(t, bs, n) == t[n] = Older(bs, t[2 * n], t[2 * n + 1])

\* The tree over the buckets bs: a leaf per bucket, and in every inner node the
\* older of its children.
TreeRight(t, bs) ==
  /\ t \in Trees
  /\ \A b \in BucketIds : t[TreeBase + b] = LeafValue(bs, b)
  /\ \A n \in (TreeBase + NoBucket)..(2 * TreeBase - 1) : t[n] = NoBucket
  /\ \A n \in 1..(TreeBase - 1) : NodeRight(t, bs, n)

\* P is the part of the way from b's leaf to the root that has been climbed: it
\* is closed under parents down to the node reached, what lies off it is as in t
\* and what lies on it is right for bs.
OnPath(P, x, leaf) ==
  /\ P \in SUBSET (1..leaf)
  /\ leaf \in P /\ x.node \in P
  /\ \A m \in P : x.node <= m /\ (m = leaf \/ m < TreeBase)
  /\ \A m \in P : m # x.node => m \div 2 \in P
Climbed(P, x, t, bs, b) ==
  /\ OnPath(P, x, TreeBase + b)
  /\ \A m \in 0..(2 * TreeBase - 1) : m \notin P => x.tree[m] = t[m]
  /\ x.tree[TreeBase + b] = LeafValue(bs, b)
  /\ \A m \in P : m < TreeBase => NodeRight(x.tree, bs, m)

\* A bucket's leaf is a node of the tree.
LEMMA LeafFacts ==
  ASSUME NEW b \in BucketIds
  PROVE  /\ b \in Nat /\ b < NoBucket /\ TreeBase + b \in Nat
         /\ TreeBase + b >= 1 /\ TreeBase + b <= 2 * TreeBase - 1
BY BaseFacts, KVAssumption DEF BucketIds, NoBucket

\* With the leaf written, the way climbed is the leaf alone.
LEMMA ClimbStarts ==
  ASSUME NEW t \in Trees, NEW bs, NEW b \in BucketIds,
         NEW x, x = [node |-> TreeBase + b, tree |-> [t EXCEPT ![TreeBase + b] = LeafValue(bs, b)]]
  PROVE  x \in Climbs /\ \E P : Climbed(P, x, t, bs, b)
<1> USE BaseFacts, LeafFacts
<1> DEFINE P == {TreeBase + b}
<1>0. PICK leaf \in Nat : leaf = TreeBase + b /\ leaf >= 1 /\ leaf >= TreeBase /\ leaf \in 0..(2 * TreeBase - 1)
  OBVIOUS
<1>1. x.node = leaf
  BY <1>0
<1>2. \A m \in 0..(2 * TreeBase - 1) :
        x.tree[m] = IF m = leaf THEN LeafValue(bs, b) ELSE t[m]
  BY <1>0 DEF Trees
<1>3. OnPath(P, x, leaf)
  BY <1>0, <1>1 DEF OnPath
<1>4. Climbed(P, x, t, bs, b)
  <2>1. \A m \in P : ~(m < TreeBase)
    BY <1>0
  <2>2. \A m \in 0..(2 * TreeBase - 1) : m \notin P => x.tree[m] = t[m]
    BY <1>0, <1>2
  <2>3. x.tree[leaf] = LeafValue(bs, b)
    BY <1>0, <1>2
  <2> QED BY <1>0, <1>3, <2>1, <2>2, <2>3 DEF Climbed
<1>5. x \in Climbs
  <2>1. LeafValue(bs, b) \in 0..NoBucket
    BY KVAssumption DEF LeafValue, BucketIds, NoBucket
  <2>2. [t EXCEPT ![leaf] = LeafValue(bs, b)] \in Trees
    BY <2>1, <1>0 DEF Trees
  <2> QED BY <1>0, <2>2 DEF Climbs
<1> QED BY <1>4, <1>5

\* A turn of the loop makes the way climbed one node longer.
LEMMA ClimbsOn ==
  ASSUME NEW t \in Trees, NEW bs, NEW b \in BucketIds, NEW x \in Climbs, NEW P,
         Climbed(P, x, t, bs, b), x.node > 1
  PROVE  /\ ClimbStep(bs, x).node = x.node \div 2
         /\ Climbed(P \union {x.node \div 2}, ClimbStep(bs, x), t, bs, b)
<1> USE BaseFacts, LeafFacts
<1>0. PICK leaf \in Nat : leaf = TreeBase + b /\ leaf >= 1 /\ leaf >= TreeBase /\ leaf \in 0..(2 * TreeBase - 1)
  OBVIOUS
<1>1. PICK p \in Nat : p = x.node /\ p > 1
  BY DEF Climbs
<1>2. PICK n \in Nat : n = p \div 2 /\ n >= 1 /\ n < p /\ 2 * n <= p
  BY <1>1, Halves
<1>3. OnPath(P, x, leaf)
  BY <1>0 DEF Climbed
<1>4. p <= leaf /\ n < TreeBase /\ n <= leaf
  <2>1. p \in 1..leaf
    BY <1>1, <1>3 DEF OnPath
  <2> QED BY <2>1, <1>0, <1>2
<1> DEFINE y == ClimbStep(bs, x)
           Q == P \union {n}
<1>5. y = [node |-> n, tree |-> [x.tree EXCEPT ![n] = Older(bs, x.tree[2 * n], x.tree[2 * n + 1])]]
  BY <1>1, <1>2 DEF ClimbStep
<1>6. x.tree \in Trees
  BY DEF Climbs
<1>7. /\ y.node = n
      /\ \A m \in 0..(2 * TreeBase - 1) :
           y.tree[m] = IF m = n THEN Older(bs, x.tree[2 * n], x.tree[2 * n + 1]) ELSE x.tree[m]
  <2> HIDE DEF y
  <2> QED BY <1>5, <1>6 DEF Trees
<1> HIDE DEF y
<1>8. \A m \in P : m \in Nat /\ m > n /\ m >= p /\ m <= leaf /\ (m = leaf \/ m < TreeBase)
                    /\ (m # p => m \div 2 \in P)
  BY <1>0, <1>1, <1>2, <1>3 DEF OnPath
<1>9. OnPath(Q, y, leaf)
  <2>1. Q \in SUBSET (1..leaf)
    BY <1>2, <1>3, <1>4 DEF OnPath
  <2>2. leaf \in Q /\ y.node \in Q
    BY <1>3, <1>7 DEF OnPath
  <2>3. \A m \in Q : y.node <= m /\ (m = leaf \/ m < TreeBase)
    <3>1. \A m \in Q : n <= m /\ (m = leaf \/ m < TreeBase)
      BY <1>4, <1>8
    <3> QED BY <3>1, <1>7
  <2>4. ASSUME NEW m \in Q, m # y.node PROVE m \div 2 \in Q
    <3>1. m \in P
      BY <2>4, <1>7
    <3>2. CASE m = p
      BY <3>2, <1>2
    <3>3. CASE m # p
      BY <3>1, <3>3, <1>8
    <3> QED BY <3>2, <3>3
  <2> QED BY <2>1, <2>2, <2>3, <2>4 DEF OnPath
<1>10. \A m \in 0..(2 * TreeBase - 1) : m \notin Q => y.tree[m] = t[m]
  BY <1>7 DEF Climbed
<1>11. y.tree[leaf] = LeafValue(bs, b)
  <2>1. leaf # n
    BY <1>0, <1>4
  <2> QED BY <1>0, <2>1, <1>7 DEF Climbed
<1>12. ASSUME NEW m \in Q, m < TreeBase PROVE NodeRight(y.tree, bs, m)
  <2>1. m \in Nat /\ m >= n /\ m >= 1
    BY <1>2, <1>8
  <2>2. 2 * m \in 0..(2 * TreeBase - 1) /\ 2 * m + 1 \in 0..(2 * TreeBase - 1) /\ m \in 0..(2 * TreeBase - 1)
    BY <2>1, <1>12
  <2>3. 2 * m # n /\ 2 * m + 1 # n
    BY <2>1
  <2>4. y.tree[2 * m] = x.tree[2 * m] /\ y.tree[2 * m + 1] = x.tree[2 * m + 1]
    BY <2>2, <2>3, <1>7
  <2>5. CASE m = n
    BY <2>2, <2>4, <2>5, <1>7 DEF NodeRight
  <2>6. CASE m # n
    <3>1. m \in P
      BY <2>6
    <3>2. x.tree[m] = Older(bs, x.tree[2 * m], x.tree[2 * m + 1])
      BY <3>1, <1>12 DEF Climbed, NodeRight
    <3> QED BY <3>2, <2>2, <2>4, <2>6, <1>7 DEF NodeRight
  <2> QED BY <2>5, <2>6
<1>13. Climbed(Q, y, t, bs, b)
  BY <1>0, <1>9, <1>10, <1>11, <1>12 DEF Climbed
<1> QED BY <1>1, <1>2, <1>7, <1>13 DEF y

\* Off the way from b's leaf to the root no node holds b.
LEMMA OffThePath ==
  ASSUME NEW t, NEW bs, NEW b \in BucketIds, TreeRight(t, bs),
         NEW P \in SUBSET (1..(TreeBase + b)), TreeBase + b \in P,
         \A m \in P : m # 1 => m \div 2 \in P
  PROVE  \A m \in 1..(2 * TreeBase - 1) : m \notin P => t[m] # b
<1> USE BaseFacts, LeafFacts
<1> DEFINE Bad == {m \in 1..(2 * TreeBase - 1) : m \notin P /\ t[m] = b}
           Down == {k \in Nat : \E m \in Bad : k = 2 * TreeBase - m}
<1> SUFFICES ASSUME Bad # {} PROVE FALSE
  OBVIOUS
<1>1. Down # {} /\ Down \subseteq Nat
  <2>1. PICK m \in Bad : TRUE
    OBVIOUS
  <2>2. 2 * TreeBase - m \in Nat
    OBVIOUS
  <2> QED BY <2>1, <2>2
<1>2. PICK k \in Down : \A j \in Down : k <= j
  BY <1>1, LeastNatural
<1>3. PICK m \in Bad : k = 2 * TreeBase - m
  OBVIOUS
<1>4. m \in Nat /\ m >= 1 /\ m <= 2 * TreeBase - 1 /\ m \notin P /\ t[m] = b
  OBVIOUS
<1>5. m < TreeBase
  <2> SUFFICES ASSUME m >= TreeBase PROVE FALSE
    BY <1>4
  <2>1. CASE m >= TreeBase + NoBucket
    <3>1. m \in (TreeBase + NoBucket)..(2 * TreeBase - 1)
      BY <2>1, <1>4
    <3>2. t[m] = NoBucket
      BY <3>1 DEF TreeRight
    <3> QED BY <3>2, <1>4
  <2>2. CASE m < TreeBase + NoBucket
    <3>1. PICK a \in BucketIds : m = TreeBase + a
      <4>1. m - TreeBase \in BucketIds /\ m = TreeBase + (m - TreeBase)
        BY <2>2, <1>4, KVAssumption DEF BucketIds, NoBucket
      <4> QED BY <4>1
    <3>2. t[m] = LeafValue(bs, a)
      BY <3>1 DEF TreeRight
    <3>3. a = b
      BY <3>2, <1>4 DEF LeafValue
    <3> QED BY <3>1, <3>3, <1>4
  <2> QED BY <2>1, <2>2, <1>4
<1>6. t[m] = t[2 * m] \/ t[m] = t[2 * m + 1]
  <2>1. NodeRight(t, bs, m)
    BY <1>4, <1>5 DEF TreeRight
  <2> QED BY <2>1, OlderIsOne DEF NodeRight
<1>7. PICK c \in Nat : (c = 2 * m \/ c = 2 * m + 1) /\ t[c] = b
  BY <1>4, <1>6
<1>8. c \in 1..(2 * TreeBase - 1) /\ c > m /\ c # 1 /\ c \div 2 = m
  BY <1>4, <1>5, <1>7
<1>9. c \notin P
  BY <1>4, <1>8
<1>10. 2 * TreeBase - c \in Down
  BY <1>7, <1>8, <1>9
<1> HIDE DEF Down
<1>11. k <= 2 * TreeBase - c
  BY <1>2, <1>10
<1> QED BY <1>3, <1>4, <1>8, <1>11

\* After the update of b's bucket the tree is right for the new buckets.
LEMMA UpdatedRight ==
  ASSUME NEW t, NEW old, NEW bs, NEW b \in BucketIds, TreeRight(t, old),
         \A a \in BucketIds : a # b => bs[a] = old[a]
  PROVE  TreeRight(Updated(t, bs, b), bs)
<1> USE BaseFacts, LeafFacts
<1>0. PICK leaf \in Nat : leaf = TreeBase + b /\ leaf >= 1 /\ leaf >= TreeBase /\ leaf \in 0..(2 * TreeBase - 1)
  OBVIOUS
<1>1. t \in Trees
  BY DEF TreeRight
<1> DEFINE c == Climb(t, bs, b)
           Good(x) == x \in Climbs /\ \E P : Climbed(P, x, t, bs, b)
           T == {i \in 0..leaf : Good(c[i]) /\ (c[i].node = 1 \/ c[i].node <= leaf - i)}
<1>2. /\ c[0] = [node |-> leaf, tree |-> [t EXCEPT ![leaf] = LeafValue(bs, b)]]
      /\ \A i \in 1..leaf : c[i] = ClimbStep(bs, c[i - 1])
  BY <1>0, <1>1, ClimbUnfolds
<1> HIDE DEF c
<1>3. 0 \in T
  <2>1. Good(c[0])
    BY <1>0, <1>1, <1>2, ClimbStarts
  <2>2. c[0].node <= leaf - 0
    BY <1>0, <1>2
  <2> HIDE DEF Good
  <2> QED BY <1>0, <2>1, <2>2
<1>4. ASSUME NEW i \in 1..leaf, i - 1 \in T PROVE i \in T
  <2>1. PICK x \in Climbs : x = c[i - 1]
    BY <1>4
  <2>2. PICK P : Climbed(P, x, t, bs, b)
    BY <1>4, <2>1
  <2>3. c[i] = ClimbStep(bs, x)
    BY <2>1, <1>2
  <2>4. PICK p \in Nat : p = x.node /\ p >= 1 /\ (p = 1 \/ p <= leaf - (i - 1))
    <3>1. x.node \in Nat /\ x.node \in P /\ P \in SUBSET (1..(TreeBase + b))
      BY <2>2 DEF Climbs, Climbed, OnPath
    <3> QED BY <3>1, <2>1, <1>4
  <2>5. CASE p = 1
    <3>1. c[i] = x
      BY <2>3, <2>4, <2>5 DEF ClimbStep
    <3>2. Good(c[i]) /\ c[i].node = 1
      BY <3>1, <2>1, <2>2, <2>4, <2>5
    <3> HIDE DEF Good
    <3> QED BY <3>2
  <2>6. CASE p > 1
    <3>1. ClimbStep(bs, x) \in Climbs
      BY ClimbStepType
    <3>2. /\ c[i].node = p \div 2
          /\ \E Q : Climbed(Q, c[i], t, bs, b)
      BY <1>1, <2>2, <2>3, <2>4, <2>6, ClimbsOn
    <3>3. PICK n \in Nat : n = p \div 2 /\ n < p
      BY <2>4, <2>6, Halves
    <3>4. n <= leaf - i
      BY <3>3, <2>4, <2>6, <1>0
    <3>5. Good(c[i])
      BY <3>1, <3>2, <2>3
    <3> HIDE DEF Good
    <3> QED BY <3>2, <3>3, <3>4, <3>5
  <2> QED BY <2>4, <2>5, <2>6
<1> HIDE DEF T
<1>5. leaf \in T
  <2>1. \A i \in 0..leaf : i \in T
    BY <1>3, <1>4, Reaches
  <2> QED BY <2>1, <1>0
<1>6. PICK x, P : x \in Climbs /\ x = c[leaf] /\ Climbed(P, x, t, bs, b)
  BY <1>5 DEF T
<1>7. OnPath(P, x, leaf)
  BY <1>0, <1>6 DEF Climbed
<1>8. x.node = 1
  <2>1. x.node \in 1..leaf /\ (x.node = 1 \/ x.node <= leaf - leaf)
    BY <1>5, <1>6, <1>7 DEF T, OnPath
  <2> QED BY <2>1, <1>0
<1>9. \A m \in P : m \in 1..leaf /\ (m # 1 => m \div 2 \in P) /\ (m = leaf \/ m < TreeBase)
  BY <1>7, <1>8 DEF OnPath
<1>10. \A m \in 1..(2 * TreeBase - 1) : m \notin P => t[m] # b
  BY <1>0, <1>7, <1>9, OffThePath DEF OnPath
<1> DEFINE u == x.tree
<1>11. u \in Trees /\ Updated(t, bs, b) = u
  BY <1>0, <1>6 DEF Climbs, Updated, c
<1>12. /\ \A m \in 0..(2 * TreeBase - 1) : m \notin P => u[m] = t[m]
       /\ u[leaf] = LeafValue(bs, b)
       /\ \A m \in P : m < TreeBase => NodeRight(u, bs, m)
  BY <1>0, <1>6 DEF Climbed
<1> HIDE DEF u
<1>13. ASSUME NEW a \in BucketIds PROVE u[TreeBase + a] = LeafValue(bs, a)
  <2>1. CASE a = b
    BY <2>1, <1>0, <1>12
  <2>2. CASE a # b
    <3>1. PICK m \in Nat : m = TreeBase + a /\ m >= TreeBase /\ m # leaf /\ m \in 0..(2 * TreeBase - 1)
      BY <1>0, <2>2
    <3>2. m \notin P
      BY <3>1, <1>9
    <3>3. u[m] = LeafValue(old, a)
      BY <3>1, <3>2, <1>12 DEF TreeRight
    <3> QED BY <3>1, <3>3, <2>2 DEF LeafValue
  <2> QED BY <2>1, <2>2
<1>14. ASSUME NEW n \in (TreeBase + NoBucket)..(2 * TreeBase - 1) PROVE u[n] = NoBucket
  <2>1. n \in 0..(2 * TreeBase - 1) /\ n # leaf /\ ~(n < TreeBase)
    BY <1>0
  <2>2. n \notin P
    BY <2>1, <1>9
  <2> QED BY <2>1, <2>2, <1>12 DEF TreeRight
<1>15. ASSUME NEW n \in 1..(TreeBase - 1) PROVE NodeRight(u, bs, n)
  <2>1. CASE n \in P
    BY <2>1, <1>12
  <2>2. CASE n \notin P
    <3>1. PICK l \in 1..(2 * TreeBase - 1) : l = 2 * n /\ l \div 2 = n /\ l # 1
      <4>1. 2 * n \in 1..(2 * TreeBase - 1) /\ (2 * n) \div 2 = n /\ 2 * n # 1
        OBVIOUS
      <4> QED BY <4>1
    <3>2. PICK r \in 1..(2 * TreeBase - 1) : r = 2 * n + 1 /\ r \div 2 = n /\ r # 1
      <4>1. 2 * n + 1 \in 1..(2 * TreeBase - 1) /\ (2 * n + 1) \div 2 = n /\ 2 * n + 1 # 1
        OBVIOUS
      <4> QED BY <4>1
    <3>3. l \notin P /\ r \notin P
      BY <2>2, <3>1, <3>2, <1>9
    <3>4. u[l] = t[l] /\ u[r] = t[r] /\ u[n] = t[n] /\ t[l] # b /\ t[r] # b
      BY <3>3, <2>2, <1>10, <1>12
    <3>5. t[l] \in 0..NoBucket /\ t[r] \in 0..NoBucket
      BY <1>1 DEF Trees
    <3>6. t[n] = Older(old, t[l], t[r])
      BY <3>1, <3>2 DEF TreeRight, NodeRight
    <3>7. \A z \in 0..NoBucket : z # b /\ z # NoBucket => bs[z] = old[z]
      BY KVAssumption DEF BucketIds, NoBucket
    <3>8. Older(old, t[l], t[r]) = Older(bs, t[l], t[r])
      BY <3>4, <3>5, <3>7 DEF Older
    <3> QED BY <3>1, <3>2, <3>4, <3>6, <3>8 DEF NodeRight
  <2> QED BY <2>1, <2>2
<1> QED BY <1>11, <1>13, <1>14, <1>15 DEF TreeRight

-----------------------------------------------------------------------------
(* The prefix query *)

\* The heads can be compared.
Heads(bs) == \A b \in BucketIds : bs[b] # <<>> => Head(bs[b]).order \in Nat

\* v is the bucket with the oldest head among those with leaves from l up to r, or
\* NoBucket when all of these are empty.
Inside(bs, x, l, r) == x \in BucketIds /\ bs[x] # <<>> /\ l <= TreeBase + x /\ TreeBase + x < r
OldestIn(bs, v, l, r) ==
  /\ v = NoBucket \/ Inside(bs, v, l, r)
  /\ \A x \in BucketIds : Inside(bs, x, l, r) =>
       v # NoBucket /\ Head(bs[v]).order <= Head(bs[x]).order

\* The older of the oldest of two adjacent parts is the oldest of both.
LEMMA OldestOfTwo ==
  ASSUME NEW bs, Heads(bs), NEW v, NEW w, NEW l \in Nat, NEW m \in Nat, NEW r \in Nat,
         l <= m, m <= r, OldestIn(bs, v, l, m), OldestIn(bs, w, m, r)
  PROVE  OldestIn(bs, Older(bs, v, w), l, r)
<1> USE BaseFacts
<1>0. \A x \in BucketIds : x \in Nat /\ x # NoBucket
  BY KVAssumption DEF BucketIds, NoBucket
<1>1. \A x \in BucketIds : Inside(bs, x, l, r) <=> Inside(bs, x, l, m) \/ Inside(bs, x, m, r)
  BY <1>0 DEF Inside
<1>2. CASE v = NoBucket
  <2>1. Older(bs, v, w) = w
    BY <1>2 DEF Older
  <2>2. w = NoBucket \/ Inside(bs, w, l, r)
    BY <1>1 DEF OldestIn, Inside
  <2> QED BY <2>1, <2>2, <1>1, <1>2 DEF OldestIn
<1>3. CASE v # NoBucket /\ w = NoBucket
  <2>1. Older(bs, v, w) = v
    BY <1>3 DEF Older
  <2>2. Inside(bs, v, l, r)
    BY <1>1, <1>3 DEF OldestIn, Inside
  <2> QED BY <2>1, <2>2, <1>1, <1>3 DEF OldestIn
<1>4. CASE v # NoBucket /\ w # NoBucket
  <2>1. Inside(bs, v, l, m) /\ Inside(bs, w, m, r)
    BY <1>4 DEF OldestIn
  <2>2. Inside(bs, v, l, r) /\ Inside(bs, w, l, r)
    BY <2>1, <1>1 DEF Inside
  <2>3. PICK a \in Nat, z \in Nat : a = Head(bs[v]).order /\ z = Head(bs[w]).order
    BY <2>1 DEF Inside, Heads
  <2>4. ASSUME NEW x \in BucketIds, Inside(bs, x, l, r)
        PROVE  /\ Head(bs[Older(bs, v, w)]).order <= Head(bs[x]).order
    <3>1. PICK c \in Nat : c = Head(bs[x]).order
      BY <2>4 DEF Inside, Heads
    <3>2. a <= c \/ z <= c
      BY <2>3, <2>4, <3>1, <1>1 DEF OldestIn
    <3>3. IF a <= z THEN Older(bs, v, w) = v ELSE Older(bs, v, w) = w
      BY <1>4, <2>3 DEF Older
    <3> QED BY <2>3, <3>1, <3>2, <3>3
  <2>5. Older(bs, v, w) = v \/ Older(bs, v, w) = w
    BY OlderIsOne
  <2> QED BY <1>4, <2>2, <2>4, <2>5 DEF OldestIn
<1> QED BY <1>2, <1>3, <1>4

\* Every node that stands for w leaves holds the oldest of them.
LevelRight(t, bs, w) ==
  \A n \in Nat : TreeBase <= n * w /\ (n + 1) * w <= 2 * TreeBase =>
    n < 2 * TreeBase /\ OldestIn(bs, t[n], n * w, (n + 1) * w)

\* A leaf holds the oldest of the one bucket it stands for.
LEMMA LeavesRight ==
  ASSUME NEW t, NEW bs, Heads(bs), TreeRight(t, bs)
  PROVE  LevelRight(t, bs, 1)
<1> USE BaseFacts
<1>0. \A x \in BucketIds : x \in Nat /\ x < NoBucket
  BY KVAssumption DEF BucketIds, NoBucket
<1>1. ASSUME NEW n \in Nat, TreeBase <= n, n + 1 <= 2 * TreeBase
      PROVE  OldestIn(bs, t[n], n, n + 1)
  <2>1. CASE n < TreeBase + NoBucket
    <3>1. PICK a \in BucketIds : n = TreeBase + a
      <4>1. n - TreeBase \in BucketIds /\ n = TreeBase + (n - TreeBase)
        BY <2>1, <1>1, KVAssumption DEF BucketIds, NoBucket
      <4> QED BY <4>1
    <3>2. t[n] = LeafValue(bs, a)
      BY <3>1 DEF TreeRight
    <3>3. \A x \in BucketIds : Inside(bs, x, n, n + 1) <=> x = a /\ bs[a] # <<>>
      BY <3>1, <1>0 DEF Inside
    <3>4. CASE bs[a] = <<>>
      BY <3>2, <3>3, <3>4 DEF LeafValue, OldestIn
    <3>5. CASE bs[a] # <<>>
      <4>1. t[n] = a /\ Head(bs[a]).order \in Nat
        BY <3>2, <3>5 DEF LeafValue, Heads
      <4> QED BY <3>3, <3>5, <4>1, <1>0 DEF OldestIn
    <3> QED BY <3>4, <3>5
  <2>2. CASE n >= TreeBase + NoBucket
    <3>1. n \in (TreeBase + NoBucket)..(2 * TreeBase - 1)
      BY <2>2, <1>1
    <3>2. t[n] = NoBucket
      BY <3>1 DEF TreeRight
    <3>3. \A x \in BucketIds : ~Inside(bs, x, n, n + 1)
      BY <2>2, <1>0 DEF Inside
    <3> QED BY <3>2, <3>3 DEF OldestIn
  <2> QED BY <2>1, <2>2
<1>2. \A n \in Nat : n * 1 = n /\ (n + 1) * 1 = n + 1
  OBVIOUS
<1> QED BY <1>1, <1>2 DEF LevelRight

\* The products in the bounds of a level and of the level above it.
LEMMA Doubles ==
  ASSUME NEW n \in Nat, NEW w \in Nat
  PROVE  /\ n * w \in Nat
         /\ (n + 1) * w = n * w + w
         /\ (2 * n) * w = n * w + n * w
         /\ n * (2 * w) = n * w + n * w
         /\ (n + 1) * (2 * w) = n * w + n * w + 2 * w
         /\ (2 * n + 1) * w = n * w + n * w + w
         /\ ((2 * n + 1) + 1) * w = n * w + n * w + 2 * w
OBVIOUS

\* A node above holds the older of its two children's, so the oldest of the leaves
\* of both.
LEMMA LevelAbove ==
  ASSUME NEW t, NEW bs, Heads(bs), TreeRight(t, bs), NEW w \in Nat, w >= 1, LevelRight(t, bs, w)
  PROVE  LevelRight(t, bs, 2 * w)
<1> USE BaseFacts
<1> SUFFICES ASSUME NEW n \in Nat, TreeBase <= n * (2 * w), (n + 1) * (2 * w) <= 2 * TreeBase
             PROVE  n < 2 * TreeBase /\ OldestIn(bs, t[n], n * (2 * w), (n + 1) * (2 * w))
  BY DEF LevelRight
<1>1. PICK a \in Nat : a = n * w
  BY Doubles
<1>2. /\ n * (2 * w) = a + a /\ (n + 1) * (2 * w) = a + a + 2 * w
      /\ (2 * n) * w = a + a /\ (2 * n + 1) * w = a + a + w
      /\ ((2 * n + 1) + 1) * w = a + a + 2 * w
  BY <1>1, Doubles
<1>3. n >= 1
  <2>1. CASE n = 0
    <3>1. a = 0
      BY <1>1, <2>1
    <3> QED BY <3>1, <1>2
  <2> QED BY <2>1
<1>4. n < TreeBase
  <2>1. n <= a
    <3>1. PICK d \in Nat : w = 1 + d
      <4>1. w - 1 \in Nat /\ w = 1 + (w - 1)
        OBVIOUS
      <4> QED BY <4>1
    <3>2. n * d \in Nat /\ n * (1 + d) = n + n * d
      OBVIOUS
    <3> QED BY <1>1, <3>1, <3>2
  <2> QED BY <2>1, <1>2
<1>5. OldestIn(bs, t[2 * n], a + a, a + a + w)
  <2>1. 2 * n \in Nat /\ TreeBase <= (2 * n) * w /\ (2 * n + 1) * w <= 2 * TreeBase
    BY <1>2
  <2> QED BY <2>1, <1>2 DEF LevelRight
<1>6. OldestIn(bs, t[2 * n + 1], a + a + w, a + a + 2 * w)
  <2>1. 2 * n + 1 \in Nat /\ TreeBase <= (2 * n + 1) * w /\ ((2 * n + 1) + 1) * w <= 2 * TreeBase
    BY <1>2
  <2> QED BY <2>1, <1>2 DEF LevelRight
<1>7. t[n] = Older(bs, t[2 * n], t[2 * n + 1])
  BY <1>3, <1>4 DEF TreeRight, NodeRight
<1>8. OldestIn(bs, t[n], a + a, a + a + 2 * w)
  BY <1>5, <1>6, <1>7, OldestOfTwo
<1> QED BY <1>2, <1>4, <1>8

\* What a round of the query starts from.
Queries == [l : 0..(2 * TreeBase), r : 0..(2 * TreeBase), ol : 0..NoBucket, or : 0..NoBucket]

\* Where a round of the query leaves its ends.
LEMMA EndsMove ==
  ASSUME NEW l \in Nat, NEW r \in Nat, l < r
  PROVE  /\ (l + (l % 2)) \div 2 \in Nat /\ (r - (r % 2)) \div 2 \in Nat
         /\ 2 * ((l + (l % 2)) \div 2) = l + (l % 2)
         /\ 2 * ((r - (r % 2)) \div 2) = r - (r % 2)
         /\ l + (l % 2) <= r - (r % 2)
         /\ l % 2 \in {0, 1} /\ r % 2 \in {0, 1}
<1>1. PICK a \in Nat, b \in Nat : l = 2 * a + b /\ b = l % 2 /\ b \in {0, 1}
  <2>1. l \div 2 \in Nat /\ l % 2 \in Nat /\ l = 2 * (l \div 2) + (l % 2) /\ l % 2 \in {0, 1}
    BY Halves
  <2> QED BY <2>1
<1>2. PICK c \in Nat, d \in Nat : r = 2 * c + d /\ d = r % 2 /\ d \in {0, 1}
  <2>1. r \div 2 \in Nat /\ r % 2 \in Nat /\ r = 2 * (r \div 2) + (r % 2) /\ r % 2 \in {0, 1}
    BY Halves
  <2> QED BY <2>1
<1>3. l + b = 2 * (a + b) /\ r - d = 2 * c
  BY <1>1, <1>2
<1>4. (l + b) \div 2 = a + b /\ (r - d) \div 2 = c
  BY <1>3
<1>5. l + b <= r - d
  BY <1>1, <1>2
<1> QED BY <1>1, <1>2, <1>3, <1>4, <1>5

\* A round of the query leaves a query.
LEMMA QueryRoundType ==
  ASSUME tree \in Trees, NEW q \in Queries
  PROVE  QueryRound(q) \in Queries
<1> USE BaseFacts
<1>1. CASE q.l >= q.r
  BY <1>1 DEF QueryRound
<1>2. CASE ~(q.l >= q.r)
  <2>1. PICK l \in 0..(2 * TreeBase), r \in 0..(2 * TreeBase) : l = q.l /\ r = q.r /\ l < r
    BY <1>2 DEF Queries
  <2>2. tree[l] \in 0..NoBucket /\ tree[r - 1] \in 0..NoBucket
    BY <2>1 DEF Trees
  <2>3. q.ol \in 0..NoBucket /\ q.or \in 0..NoBucket
    BY DEF Queries
  <2>4. Older(buckets, q.ol, tree[l]) \in 0..NoBucket /\ Older(buckets, tree[r - 1], q.or) \in 0..NoBucket
    BY <2>2, <2>3, OlderIsOne
  <2>5. (l + (l % 2)) \div 2 \in 0..(2 * TreeBase) /\ (r - (r % 2)) \div 2 \in 0..(2 * TreeBase)
    BY <2>1, EndsMove
  <2>6. QueryRound(q) =
          [l |-> (l + (l % 2)) \div 2, r |-> (r - (r % 2)) \div 2,
           ol |-> IF l % 2 = 1 THEN Older(buckets, q.ol, tree[l]) ELSE q.ol,
           or |-> IF r % 2 = 1 THEN Older(buckets, tree[r - 1], q.or) ELSE q.or]
    BY <1>2, <2>1 DEF QueryRound
  <2> QED BY <2>3, <2>4, <2>5, <2>6 DEF Queries
<1> QED BY <1>1, <1>2

\* The rounds of the query, one by one.
LEMMA QueryUnfolds ==
  ASSUME tree \in Trees, NEW last \in BucketIds
  PROVE  \E g \in [0..NoBucket -> Queries] :
           /\ g[0] = [l |-> TreeBase, r |-> TreeBase + last + 1, ol |-> NoBucket, or |-> NoBucket]
           /\ \A i \in 1..NoBucket : g[i] = QueryRound(g[i - 1])
           /\ Query(last) = g[NoBucket]
<1> USE BaseFacts
<1> DEFINE start == [l |-> TreeBase, r |-> TreeBase + last + 1, ol |-> NoBucket, or |-> NoBucket]
           F == [i \in 1..NoBucket |-> [x \in Queries |-> QueryRound(x)]]
           Rec(f) == [i \in 0..NoBucket |-> IF i = 0 THEN start ELSE QueryRound(f[i - 1])]
<1>1. start \in Queries
  <2>1. last \in Nat /\ last + 1 <= NoBucket
    BY KVAssumption DEF BucketIds, NoBucket
  <2>2. TreeBase \in 0..(2 * TreeBase) /\ TreeBase + last + 1 \in 0..(2 * TreeBase) /\ NoBucket \in 0..NoBucket
    BY <2>1
  <2> QED BY <2>2 DEF Queries
<1>2. F \in [1..NoBucket -> [Queries -> Queries]]
  BY QueryRoundType
<1>3. NoBucket \in Nat
  OBVIOUS
<1> HIDE DEF start, F
<1>4. PICK g \in [0..NoBucket -> Queries] : Iterates(g, start, NoBucket, F)
  BY ONLY <1>1, <1>2, <1>3, RecursionExists
<1>5. g = Rec(g)
  <2>1. ASSUME NEW i \in 0..NoBucket PROVE g[i] = Rec(g)[i]
    <3>1. CASE i = 0
      BY <3>1, <1>3, <1>4 DEF Iterates
    <3>2. CASE i # 0
      <4>1. i \in 1..NoBucket /\ i - 1 \in 0..NoBucket
        BY <1>3, <3>2
      <4>2. g[i - 1] \in Queries /\ g[i] = F[i][g[i - 1]]
        BY <4>1, <1>4 DEF Iterates
      <4> QED BY <4>1, <4>2, <3>2 DEF F
    <3> QED BY <3>1, <3>2
  <2> QED BY <2>1
<1> DEFINE c == CHOOSE f : f = Rec(f)
<1>6. Query(last) = c[NoBucket]
  BY DEF Query, start
<1>7. c = Rec(c)
  <2>1. \E f : f = Rec(f)
    BY <1>5
  <2> HIDE DEF Rec
  <2> QED BY <2>1
<1> HIDE DEF c
<1>8. c[0] = start
  BY <1>3, <1>7
<1>9. ASSUME NEW i \in 1..NoBucket PROVE c[i] = QueryRound(c[i - 1])
  <2>1. i \in 0..NoBucket /\ i # 0
    BY <1>3
  <2>2. Rec(c)[i] = QueryRound(c[i - 1])
    BY <2>1
  <2> HIDE DEF Rec
  <2> QED BY <1>7, <2>2
<1>10. c \in [0..NoBucket -> Queries]
  <2> DEFINE T == {i \in 0..NoBucket : c[i] \in Queries}
  <2>1. 0 \in T
    BY <1>1, <1>3, <1>8
  <2>2. ASSUME NEW i \in 1..NoBucket, i - 1 \in T PROVE i \in T
    <3>1. c[i - 1] \in Queries
      BY <2>2
    <3>2. c[i] \in Queries
      BY <3>1, <1>9, QueryRoundType
    <3> QED BY <3>2, <1>3
  <2> HIDE DEF T
  <2>3. \A i \in 0..NoBucket : i \in T
    BY <1>3, <2>1, <2>2, Reaches
  <2>4. \A i \in 0..NoBucket : c[i] \in Queries
    BY <2>3 DEF T
  <2>5. c = [i \in 0..NoBucket |-> c[i]]
    <3>1. DOMAIN Rec(c) = 0..NoBucket
      OBVIOUS
    <3>2. Rec(c) = [i \in 0..NoBucket |-> Rec(c)[i]]
      OBVIOUS
    <3> HIDE DEF Rec
    <3> QED BY <1>7, <3>1, <3>2
  <2> QED BY <2>4, <2>5
<1> QED BY <1>6, <1>8, <1>9, <1>10 DEF start

\* What the rounds keep, at the level where a node stands for w leaves: ol is the
\* oldest to the left of l, or the oldest to the right of r, up to the end z.
QueryInv(q, z, w) ==
  /\ q \in Queries
  /\ LevelRight(tree, buckets, w)
  /\ q.l <= q.r
  /\ TreeBase <= q.l * w /\ q.r * w <= z
  /\ OldestIn(buckets, q.ol, TreeBase, q.l * w)
  /\ OldestIn(buckets, q.or, q.r * w, z)

\* Multiplication keeps the order.
LEMMA TimesMonotone ==
  ASSUME NEW a \in Nat, NEW b \in Nat, NEW w \in Nat, a <= b
  PROVE  a * w \in Nat /\ b * w \in Nat /\ a * w <= b * w
<1>1. PICK d \in Nat : b = a + d
  <2>1. b - a \in Nat /\ b = a + (b - a)
    OBVIOUS
  <2> QED BY <2>1
<1>2. a * w \in Nat /\ d * w \in Nat /\ (a + d) * w = a * w + d * w
  OBVIOUS
<1> QED BY <1>1, <1>2

\* A round that has something left halves the ends and doubles the width.
LEMMA RoundKeeps ==
  ASSUME Heads(buckets), TreeRight(tree, buckets), NEW z \in Nat, z <= 2 * TreeBase,
         NEW w \in Nat, w >= 1, NEW q, QueryInv(q, z, w), q.l < q.r
  PROVE  /\ QueryInv(QueryRound(q), z, 2 * w)
         /\ QueryRound(q).r - QueryRound(q).l <= q.r - q.l - 1
<1> USE BaseFacts
<1>1. PICK l \in Nat, r \in Nat : l = q.l /\ r = q.r /\ l < r
  BY DEF QueryInv, Queries
<1>2. PICK l2 \in Nat, r2 \in Nat :
        /\ l2 = (l + (l % 2)) \div 2 /\ r2 = (r - (r % 2)) \div 2
        /\ 2 * l2 = l + (l % 2) /\ 2 * r2 = r - (r % 2)
        /\ 2 * l2 <= 2 * r2
  BY <1>1, EndsMove
<1>2a. l % 2 \in {0, 1} /\ r % 2 \in {0, 1}
  BY <1>1, EndsMove
<1>3. PICK x : x = QueryRound(q)
  OBVIOUS
<1>4. x = [l |-> l2, r |-> r2,
           ol |-> IF l % 2 = 1 THEN Older(buckets, q.ol, tree[l]) ELSE q.ol,
           or |-> IF r % 2 = 1 THEN Older(buckets, tree[r - 1], q.or) ELSE q.or]
  BY <1>1, <1>2, <1>3 DEF QueryRound
<1>5. /\ x.l = l2 /\ x.r = r2
      /\ x.ol = IF l % 2 = 1 THEN Older(buckets, q.ol, tree[l]) ELSE q.ol
      /\ x.or = IF r % 2 = 1 THEN Older(buckets, tree[r - 1], q.or) ELSE q.or
  BY <1>4
<1>6. x \in Queries
  BY <1>3, QueryRoundType DEF QueryInv, TreeRight
<1>7. PICK a \in Nat, e \in Nat : a = l * w /\ e = r * w /\ TreeBase <= a /\ e <= z
  <2>1. l * w \in Nat /\ r * w \in Nat
    OBVIOUS
  <2> QED BY <2>1, <1>1 DEF QueryInv
<1>8. PICK a2 \in Nat, e2 \in Nat : a2 = l2 * (2 * w) /\ e2 = r2 * (2 * w)
  <2>1. l2 * (2 * w) \in Nat /\ r2 * (2 * w) \in Nat
    OBVIOUS
  <2> QED BY <2>1
<1>9. a2 = (2 * l2) * w /\ e2 = (2 * r2) * w /\ a2 <= e2
  <2>1. l2 * (2 * w) = (2 * l2) * w /\ r2 * (2 * w) = (2 * r2) * w
    BY Doubles
  <2>2. (2 * l2) * w <= (2 * r2) * w
    BY <1>2, TimesMonotone
  <2> QED BY <1>8, <2>1, <2>2
<1>10. a2 >= a /\ e2 <= e
  <2>1. l <= 2 * l2 /\ 2 * r2 <= r
    BY <1>2, <1>2a
  <2> QED BY <2>1, <1>7, <1>9, TimesMonotone
<1>11. OldestIn(buckets, x.ol, TreeBase, a2)
  <2>0. OldestIn(buckets, q.ol, TreeBase, a)
    BY <1>1, <1>7 DEF QueryInv
  <2>1. CASE l % 2 = 1
    <3>1. 2 * l2 = l + 1
      BY <2>1, <1>2
    <3>2. a2 = (l + 1) * w
      BY <3>1, <1>9
    <3>3. (l + 1) * w <= 2 * TreeBase
      BY <3>2, <1>7, <1>9, <1>10
    <3>4. OldestIn(buckets, tree[l], a, a2)
      BY <3>2, <3>3, <1>7 DEF QueryInv, LevelRight
    <3> QED BY <2>0, <2>1, <3>4, <1>5, <1>7, <1>10, OldestOfTwo
  <2>2. CASE l % 2 = 0
    <3>1. a2 = a
      BY <2>2, <1>2, <1>7, <1>9
    <3> QED BY <2>0, <2>2, <3>1, <1>5
  <2> QED BY <2>1, <2>2, <1>2a
<1>12. OldestIn(buckets, x.or, e2, z)
  <2>0. OldestIn(buckets, q.or, e, z)
    BY <1>1, <1>7 DEF QueryInv
  <2>1. CASE r % 2 = 1
    <3>1. PICK k \in Nat : k = r - 1 /\ r = k + 1 /\ 2 * r2 = k
      BY <2>1, <1>1, <1>2
    <3>2. e2 = k * w /\ e = (k + 1) * w
      BY <3>1, <1>7, <1>9
    <3>3. TreeBase <= k * w /\ (k + 1) * w <= 2 * TreeBase
      BY <3>2, <1>7, <1>9, <1>10
    <3>4. OldestIn(buckets, tree[k], e2, e)
      BY <3>2, <3>3 DEF QueryInv, LevelRight
    <3> QED BY <2>0, <2>1, <3>1, <3>4, <1>5, <1>7, <1>10, OldestOfTwo
  <2>2. CASE r % 2 = 0
    <3>1. e2 = e
      BY <2>2, <1>2, <1>7, <1>9
    <3> QED BY <2>0, <2>2, <3>1, <1>5
  <2> QED BY <2>1, <2>2, <1>2a
<1>13. l2 <= r2 /\ r2 - l2 <= r - l - 1
  <2>1. PICK p \in {0, 1}, s \in {0, 1} : 2 * l2 = l + p /\ 2 * r2 = r - s
    BY <1>2, <1>2a
  <2>2. l2 <= r2
    BY <1>2
  <2>3. PICK d \in Nat : r = l + 1 + d
    <3>1. r - l - 1 \in Nat /\ r = l + 1 + (r - l - 1)
      BY <1>1
    <3> QED BY <3>1
  <2>4. PICK m \in Nat : r2 = l2 + m
    <3>1. r2 - l2 \in Nat /\ r2 = l2 + (r2 - l2)
      BY <2>2
    <3> QED BY <3>1
  <2>5. 2 * m = 1 + d - p - s
    BY <2>1, <2>3, <2>4
  <2>6. m <= d
    BY <2>5
  <2> QED BY <2>2, <2>3, <2>4, <2>6
<1>14. LevelRight(tree, buckets, 2 * w)
  BY LevelAbove DEF QueryInv
<1>15. TreeBase <= x.l * (2 * w) /\ x.r * (2 * w) <= z
  BY <1>5, <1>7, <1>8, <1>10
<1>16. QueryInv(x, z, 2 * w)
  BY <1>5, <1>6, <1>8, <1>11, <1>12, <1>13, <1>14, <1>15 DEF QueryInv
<1> QED BY <1>1, <1>3, <1>5, <1>13, <1>16

\* The query finds the oldest of the first buckets.
LEMMA QueryFinds ==
  ASSUME Heads(buckets), TreeRight(tree, buckets), NEW last \in BucketIds
  PROVE  OldestIn(buckets, Older(buckets, Query(last).ol, Query(last).or),
                  TreeBase, TreeBase + last + 1)
<1> USE BaseFacts
<1>0. last \in Nat /\ last + 1 <= NoBucket
  BY KVAssumption DEF BucketIds, NoBucket
<1>1. PICK z \in Nat : z = TreeBase + last + 1 /\ z <= 2 * TreeBase /\ z >= TreeBase
  BY <1>0
<1>2. tree \in Trees
  BY DEF TreeRight
<1>3. PICK g \in [0..NoBucket -> Queries] :
           /\ g[0] = [l |-> TreeBase, r |-> z, ol |-> NoBucket, or |-> NoBucket]
           /\ \A i \in 1..NoBucket : g[i] = QueryRound(g[i - 1])
           /\ Query(last) = g[NoBucket]
  BY <1>1, <1>2, QueryUnfolds
<1> DEFINE Good(q) == \E w \in Nat : w >= 1 /\ QueryInv(q, z, w)
           T == {i \in 0..NoBucket : Good(g[i]) /\ (g[i].l = g[i].r \/ g[i].r - g[i].l <= NoBucket - i)}
<1>4. 0 \in T
  <2>0. \A x \in BucketIds : x \in Nat
    BY KVAssumption DEF BucketIds
  <2>1. OldestIn(buckets, NoBucket, TreeBase, TreeBase) /\ OldestIn(buckets, NoBucket, z, z)
    BY <2>0 DEF OldestIn, Inside
  <2>2. TreeBase * 1 = TreeBase /\ z * 1 = z /\ 1 \in Nat
    OBVIOUS
  <2>3. g[0] \in Queries /\ 0 \in 0..NoBucket
    OBVIOUS
  <2>4. g[0].l = TreeBase /\ g[0].r = z /\ g[0].ol = NoBucket /\ g[0].or = NoBucket
    BY <1>3
  <2>5. LevelRight(tree, buckets, 1)
    BY LeavesRight
  <2>6. QueryInv(g[0], z, 1)
    BY <1>1, <2>1, <2>2, <2>3, <2>4, <2>5 DEF QueryInv
  <2>7. Good(g[0])
    BY <2>6
  <2>8. g[0].r - g[0].l <= NoBucket - 0
    BY <2>4, <1>0, <1>1
  <2> HIDE DEF Good
  <2> QED BY <2>3, <2>7, <2>8
<1>5. ASSUME NEW i \in 1..NoBucket, i - 1 \in T PROVE i \in T
  <2>1. PICK q \in Queries : q = g[i - 1]
    <3>1. i - 1 \in 0..NoBucket
      OBVIOUS
    <3> QED BY <3>1
  <2>2. PICK w \in Nat : w >= 1 /\ QueryInv(q, z, w)
    BY <1>5, <2>1
  <2>3. g[i] = QueryRound(q)
    BY <1>3, <2>1
  <2>4. PICK l \in Nat, r \in Nat : l = q.l /\ r = q.r /\ l <= r /\ (l = r \/ r - l <= NoBucket - (i - 1))
    <3>1. q.l \in Nat /\ q.r \in Nat /\ q.l <= q.r
      BY <2>2 DEF QueryInv, Queries
    <3> QED BY <3>1, <1>5, <2>1
  <2>5. CASE l = r
    <3>1. g[i] = q
      BY <2>3, <2>4, <2>5 DEF QueryRound
    <3>2. Good(g[i]) /\ g[i].l = g[i].r
      BY <2>2, <2>4, <2>5, <3>1
    <3> HIDE DEF Good
    <3> QED BY <3>2
  <2>6. CASE l < r
    <3>1. QueryInv(g[i], z, 2 * w) /\ g[i].r - g[i].l <= q.r - q.l - 1
      BY <1>1, <2>2, <2>3, <2>4, <2>6, RoundKeeps
    <3>2. Good(g[i])
      <4>1. 2 * w \in Nat /\ 2 * w >= 1
        BY <2>2
      <4> QED BY <3>1, <4>1
    <3>3. PICK l2 \in Nat, r2 \in Nat : l2 = g[i].l /\ r2 = g[i].r
      <4>1. PICK y \in Queries : y = g[i]
        BY <3>1 DEF QueryInv
      <4>2. y.l \in Nat /\ y.r \in Nat
        BY DEF Queries
      <4> QED BY <4>1, <4>2
    <3>4. r2 - l2 <= NoBucket - i
      <4>1. r2 - l2 <= r - l - 1 /\ r - l <= NoBucket - (i - 1)
        BY <3>1, <3>3, <2>4, <2>6
      <4> QED BY <4>1
    <3> HIDE DEF Good
    <3> QED BY <3>2, <3>3, <3>4
  <2> QED BY <2>4, <2>5, <2>6
<1> HIDE DEF T
<1>6. NoBucket \in T
  <2>1. \A i \in 0..NoBucket : i \in T
    BY <1>4, <1>5, Reaches
  <2> QED BY <2>1
<1>7. PICK q \in Queries, w \in Nat : q = Query(last) /\ w >= 1 /\ QueryInv(q, z, w)
  BY <1>3, <1>6 DEF T
<1>8. q.l = q.r
  <2>1. q.l = q.r \/ q.r - q.l <= NoBucket - NoBucket
    BY <1>3, <1>6, <1>7 DEF T
  <2>2. q.l \in Nat /\ q.r \in Nat /\ q.l <= q.r
    BY <1>7 DEF QueryInv, Queries
  <2> QED BY <2>1, <2>2
<1>9. PICK a \in Nat : a = q.l * w /\ TreeBase <= a /\ a <= z
  <2>1. q.l \in Nat
    BY DEF Queries
  <2>2. q.l * w \in Nat
    BY <2>1
  <2> QED BY <2>2, <1>7, <1>8 DEF QueryInv
<1>10. OldestIn(buckets, q.ol, TreeBase, a) /\ OldestIn(buckets, q.or, a, z)
  BY <1>7, <1>8, <1>9 DEF QueryInv
<1> QED BY <1>1, <1>7, <1>9, <1>10, OldestOfTwo

-----------------------------------------------------------------------------
(* The waiting buckets *)

\* The requests that may wait.
Entries == [id : SeqIds, shape : Nat \X Nat, order : Nat]

\* Every request waits in the bucket of the blocks it needs, behind older ones.
BucketsRight(bs, n) ==
  /\ bs \in [BucketIds -> Seq(Entries)]
  /\ \A b \in BucketIds : \A i \in DOMAIN bs[b] :
       BlocksFor(Capacity(bs[b][i])) = b /\ bs[b][i].order < n
  /\ \A b \in BucketIds : \A i, j \in DOMAIN bs[b] : i < j => bs[b][i].order < bs[b][j].order

\* The head of a bucket is its oldest request.
LEMMA HeadIsOldest ==
  ASSUME NEW bs, NEW n \in Nat, BucketsRight(bs, n), NEW b \in BucketIds, bs[b] # <<>>
  PROVE  /\ Head(bs[b]) \in Entries /\ Head(bs[b]) \in ToSet(bs[b])
         /\ BlocksFor(Capacity(Head(bs[b]))) = b
         /\ \A r \in ToSet(bs[b]) : Head(bs[b]).order <= r.order
<1>1. PICK s \in Seq(Entries) : s = bs[b]
  BY DEF BucketsRight
<1>2. s # <<>> /\ Len(s) \in Nat /\ Len(s) >= 1 /\ Head(s) = s[1] /\ 1 \in DOMAIN s
  BY <1>1
<1>3. s[1] \in Entries /\ s[1] \in ToSet(s)
  BY <1>2 DEF ToSet
<1>4. ASSUME NEW i \in DOMAIN s PROVE s[1].order <= s[i].order
  <2>1. CASE i = 1
    BY <1>3, <2>1 DEF Entries
  <2>2. CASE i # 1
    <3>1. i \in 1..Len(s) /\ 1 < i
      BY <2>2
    <3>2. s[1].order < s[i].order
      BY <1>1, <1>2, <3>1 DEF BucketsRight
    <3>3. s[i] \in Entries
      OBVIOUS
    <3> QED BY <1>3, <3>2, <3>3 DEF Entries
  <2> QED BY <2>1, <2>2
<1>5. BlocksFor(Capacity(s[1])) = b
  BY <1>1, <1>2 DEF BucketsRight
<1> QED BY <1>1, <1>2, <1>3, <1>4, <1>5 DEF ToSet

\* The heads have an order number to be compared by.
LEMMA BucketHeads ==
  ASSUME NEW bs, NEW n \in Nat, BucketsRight(bs, n)
  PROVE  Heads(bs)
BY HeadIsOldest DEF Heads, Entries

\* oldestEligibleWaitingBucket, whatever is available: a bucket that fits, whose
\* head is the oldest of all that fit, unless it is not older than the limit.
EligibleRight(b, available, limit) ==
  \/ /\ b \in BucketIds /\ b <= available /\ buckets[b] # <<>>
     /\ Head(buckets[b]).order < limit
     /\ \A x \in BucketIds : x <= available /\ buckets[x] # <<>> =>
          Head(buckets[b]).order <= Head(buckets[x]).order
  \/ /\ b = NoBucket
     /\ \A x \in BucketIds : x <= available /\ buckets[x] # <<>> =>
          limit <= Head(buckets[x]).order

\* The prefix query cut off at the blocks available, then compared with the limit.
LEMMA EligibleFound ==
  ASSUME BucketsRight(buckets, nextOrder), nextOrder \in Nat, TreeRight(tree, buckets),
         NEW available \in Nat, NEW limit \in Nat
  PROVE  EligibleRight(OldestEligible(available, limit), available, limit)
<1> USE BaseFacts
<1>1. Heads(buckets)
  BY BucketHeads
<1>2. \A x \in BucketIds : x \in Nat /\ x # NoBucket /\ x <= TotalBlocks
  BY KVAssumption DEF BucketIds, NoBucket
<1>3. PICK last \in BucketIds : last = IF available < TotalBlocks THEN available ELSE TotalBlocks
  BY KVAssumption DEF BucketIds
<1>4. PICK v : v = Older(buckets, Query(last).ol, Query(last).or)
  OBVIOUS
<1>5. OldestIn(buckets, v, TreeBase, TreeBase + last + 1)
  BY <1>1, <1>4, QueryFinds
<1>6. OldestEligible(available, limit) =
        IF v # NoBucket /\ Head(buckets[v]).order >= limit THEN NoBucket ELSE v
  BY <1>3, <1>4 DEF OldestEligible
<1>7. \A x \in BucketIds : Inside(buckets, x, TreeBase, TreeBase + last + 1)
                             <=> buckets[x] # <<>> /\ x <= available
  BY <1>2, <1>3, KVAssumption DEF Inside
<1>8. CASE v = NoBucket
  BY <1>5, <1>6, <1>7, <1>8 DEF OldestIn, EligibleRight
<1>9. CASE v # NoBucket
  <2>1. v \in BucketIds /\ buckets[v] # <<>> /\ v <= available
    BY <1>5, <1>7, <1>9 DEF OldestIn, Inside
  <2>2. PICK o \in Nat : o = Head(buckets[v]).order
    BY <2>1, <1>1 DEF Heads
  <2>3. \A x \in BucketIds : x <= available /\ buckets[x] # <<>> => o <= Head(buckets[x]).order
    BY <2>2, <1>5, <1>7 DEF OldestIn
  <2>4. CASE o >= limit
    <3>1. OldestEligible(available, limit) = NoBucket
      BY <2>2, <2>4, <1>6, <1>9
    <3>2. ASSUME NEW x \in BucketIds, x <= available, buckets[x] # <<>>
          PROVE  limit <= Head(buckets[x]).order
      <4>1. Head(buckets[x]).order \in Nat
        BY <3>2, <1>1 DEF Heads
      <4> QED BY <4>1, <3>2, <2>3, <2>4
    <3> QED BY <3>1, <3>2 DEF EligibleRight
  <2>5. CASE o < limit
    <3>1. OldestEligible(available, limit) = v
      BY <2>2, <2>5, <1>6, <1>9
    <3> QED BY <2>1, <2>2, <2>3, <2>5, <3>1 DEF EligibleRight
  <2> QED BY <2>4, <2>5
<1> QED BY <1>8, <1>9

\* With the buckets in order and the tree right, the query finds what a scan of all
\* the waiting requests would find.
LEMMA OldestIsRight ==
  ASSUME BucketsRight(buckets, nextOrder), nextOrder \in Nat, TreeRight(tree, buckets)
  PROVE  OldestEligibleRight
<1> SUFFICES ASSUME NEW a \in BucketIds, NEW limit \in 0..MaxRequests
             PROVE  LET fits == {r \in Waiting : BlocksFor(Capacity(r)) <= a}
                        old  == {r \in fits : \A q \in fits : r.order <= q.order}
                        b    == OldestEligible(a, limit)
                    IN IF \E r \in old : r.order < limit
                       THEN b # NoBucket /\ Head(buckets[b]) \in old
                       ELSE b = NoBucket
  BY DEF OldestEligibleRight
<1> DEFINE fits == {r \in Waiting : BlocksFor(Capacity(r)) <= a}
           old  == {r \in fits : \A q \in fits : r.order <= q.order}
           b    == OldestEligible(a, limit)
<1>0. a \in Nat /\ limit \in Nat /\ \A x \in BucketIds : x \in Nat /\ x # NoBucket
  BY BatchAssumption, KVAssumption DEF BucketIds, NoBucket
<1>1. EligibleRight(b, a, limit)
  BY <1>0, EligibleFound
<1>2. \A r \in fits : \E x \in BucketIds : x <= a /\ buckets[x] # <<>> /\ r \in Entries
                                            /\ Head(buckets[x]).order <= r.order
  <2> TAKE r \in fits
  <2>1. PICK x \in BucketIds : r \in ToSet(buckets[x])
    BY DEF Waiting
  <2>2. buckets[x] \in Seq(Entries)
    BY DEF BucketsRight
  <2>3. PICK i \in DOMAIN buckets[x] : r = buckets[x][i]
    BY <2>1 DEF ToSet
  <2>4. buckets[x] # <<>> /\ r \in Entries
    BY <2>2, <2>3
  <2>5. BlocksFor(Capacity(r)) = x
    BY <2>3 DEF BucketsRight
  <2>6. Head(buckets[x]).order <= r.order
    BY <2>1, <2>4, HeadIsOldest
  <2> QED BY <2>4, <2>5, <2>6
<1>3. \A x \in BucketIds : x <= a /\ buckets[x] # <<>> =>
        Head(buckets[x]) \in fits /\ Head(buckets[x]) \in Entries
  <2> TAKE x \in BucketIds
  <2> HAVE x <= a /\ buckets[x] # <<>>
  <2>1. Head(buckets[x]) \in ToSet(buckets[x]) /\ BlocksFor(Capacity(Head(buckets[x]))) = x
        /\ Head(buckets[x]) \in Entries
    BY HeadIsOldest
  <2>2. Head(buckets[x]) \in Waiting
    BY <2>1 DEF Waiting
  <2> QED BY <2>1, <2>2
<1> HIDE DEF fits, b
<1>4. \A r \in fits : r \in Entries /\ r.order \in Nat
  BY <1>2 DEF Entries
<1>5. CASE b = NoBucket
  <2>1. \A x \in BucketIds : x <= a /\ buckets[x] # <<>> => limit <= Head(buckets[x]).order
    BY <1>0, <1>1, <1>5 DEF EligibleRight
  <2>2. ASSUME NEW r \in fits PROVE ~(r.order < limit)
    <3>1. PICK x \in BucketIds : x <= a /\ buckets[x] # <<>> /\ Head(buckets[x]).order <= r.order
      BY <1>2
    <3>2. limit <= Head(buckets[x]).order /\ Head(buckets[x]).order \in Nat
      BY <3>1, <2>1, <1>3, <1>4
    <3> QED BY <3>1, <3>2, <1>0, <1>4
  <2> QED BY <2>2, <1>5 DEF fits, b
<1>6. CASE b # NoBucket
  <2>1. /\ b \in BucketIds /\ b <= a /\ buckets[b] # <<>>
        /\ Head(buckets[b]).order < limit
        /\ \A x \in BucketIds : x <= a /\ buckets[x] # <<>> =>
             Head(buckets[b]).order <= Head(buckets[x]).order
    BY <1>1, <1>6 DEF EligibleRight
  <2>2. Head(buckets[b]) \in fits /\ Head(buckets[b]).order \in Nat
    BY <2>1, <1>3, <1>4
  <2>3. ASSUME NEW q \in fits PROVE Head(buckets[b]).order <= q.order
    <3>1. PICK x \in BucketIds : x <= a /\ buckets[x] # <<>> /\ Head(buckets[x]).order <= q.order
      BY <1>2
    <3>2. Head(buckets[b]).order <= Head(buckets[x]).order /\ Head(buckets[x]).order \in Nat
      BY <3>1, <2>1, <1>3, <1>4
    <3> QED BY <3>1, <3>2, <2>2, <1>4
  <2>4. Head(buckets[b]) \in old
    BY <2>2, <2>3
  <2> QED BY <1>6, <2>1, <2>4 DEF fits, b
<1> QED BY <1>5, <1>6

-----------------------------------------------------------------------------
(* The cache *)

\* The states of a cache.
Tags == {"free", "raw", "sequence"}
SeqRecs == [table : Seq(Blocks), length : Nat]
SeqMaps == UNION {[Ids -> SeqRecs] : Ids \in SUBSET SeqIds}
Caches == [free : Seq(Blocks), state : [Blocks -> Tags], seqs : SeqMaps]

\* A map of sequences is a function on some of the ids.
LEMMA SeqMapFacts ==
  /\ \A f \in SeqMaps : /\ DOMAIN f \in SUBSET SeqIds
                         /\ \A s \in DOMAIN f : f[s] \in SeqRecs
  /\ \A Ids \in SUBSET SeqIds : \A f : f \in [Ids -> SeqRecs] => f \in SeqMaps
BY DEF SeqMaps

\* What the fields of a cache are.
LEMMA CacheFacts ==
  ASSUME NEW c \in Caches
  PROVE  /\ c.free \in Seq(Blocks) /\ c.state \in [Blocks -> Tags] /\ c.seqs \in SeqMaps
         /\ DOMAIN c.seqs \in SUBSET SeqIds
         /\ \A s \in DOMAIN c.seqs : /\ c.seqs[s] \in SeqRecs
                                      /\ c.seqs[s].table \in Seq(Blocks)
                                      /\ c.seqs[s].length \in Nat
<1>1. c.free \in Seq(Blocks) /\ c.state \in [Blocks -> Tags] /\ c.seqs \in SeqMaps
  BY DEF Caches
<1> QED BY <1>1, SeqMapFacts DEF SeqRecs

\* A record for every id, empty for one that is not in the map.
LEMMA SeqRecFacts ==
  ASSUME NEW c \in Caches, NEW s \in SeqIds
  PROVE  /\ SeqRec(c, s) \in SeqRecs
         /\ SeqRec(c, s).table \in Seq(Blocks) /\ SeqRec(c, s).length \in Nat
         /\ Len(SeqRec(c, s).table) \in Nat
<1>1. <<>> \in Seq(Blocks)
  OBVIOUS
<1>2. NoSeq \in SeqRecs
  BY <1>1 DEF NoSeq, SeqRecs
<1>3. SeqRec(c, s) \in SeqRecs
  BY <1>2, CacheFacts DEF SeqRec
<1> QED BY <1>3 DEF SeqRecs

\* Setting a sequence's record leaves everything else alone.
LEMMA WithSeqFacts ==
  ASSUME NEW c \in Caches, NEW s \in SeqIds, NEW q \in SeqRecs, NEW d, d = WithSeq(c, s, q)
  PROVE  /\ d \in Caches
         /\ d.free = c.free /\ d.state = c.state
         /\ DOMAIN d.seqs = DOMAIN c.seqs \union {s}
         /\ d.seqs[s] = q
         /\ \A x \in DOMAIN c.seqs : x # s => d.seqs[x] = c.seqs[x]
<1> DEFINE Ids == DOMAIN c.seqs \union {s}
           m == [x \in Ids |-> IF x = s THEN q ELSE c.seqs[x]]
<1>1. Ids \in SUBSET SeqIds
  BY CacheFacts
<1>2. m \in [Ids -> SeqRecs]
  BY CacheFacts
<1>3. m \in SeqMaps
  BY <1>1, <1>2, SeqMapFacts
<1>4. /\ DOMAIN m = Ids /\ m[s] = q
      /\ \A x \in DOMAIN c.seqs : x # s => m[x] = c.seqs[x]
  OBVIOUS
<1>5. d = [c EXCEPT !.seqs = m]
  BY DEF WithSeq
<1> HIDE DEF m
<1>6. d = [free |-> c.free, state |-> c.state, seqs |-> m]
  BY <1>5 DEF Caches
<1>7. d \in Caches
  BY <1>3, <1>6, CacheFacts DEF Caches
<1> QED BY <1>4, <1>6, <1>7

\* An update of two fields, written out.
LEMMA CacheExcept ==
  ASSUME NEW c \in Caches, NEW a, NEW z
  PROVE  [c EXCEPT !.free = a, !.state = z] = [free |-> a, state |-> z, seqs |-> c.seqs]
<1>1. PICK f, t, m : c = [free |-> f, state |-> t, seqs |-> m]
  BY DEF Caches
<1>2. PICK x : x = [c EXCEPT !.free = a]
  OBVIOUS
<1>3. x = [free |-> a, state |-> t, seqs |-> m]
  BY <1>1, <1>2
<1>4. [x EXCEPT !.state = z] = [free |-> a, state |-> z, seqs |-> m]
  BY <1>3
<1>5. [c EXCEPT !.free = a, !.state = z] = [x EXCEPT !.state = z]
  BY <1>2
<1>6. c.seqs = m
  BY <1>1
<1> QED BY <1>4, <1>5, <1>6

\* d is c after n blocks left the top of the free list for the end of s's table.
TakenTo(c, s, n, d) ==
  /\ d \in Caches
  /\ Len(d.free) = Len(c.free) - n
  /\ \A i \in 1..(Len(c.free) - n) : d.free[i] = c.free[i]
  /\ \A b \in Blocks : d.state[b] =
       IF \E i \in (Len(c.free) - n + 1)..Len(c.free) : c.free[i] = b
       THEN "sequence" ELSE c.state[b]
  /\ DOMAIN d.seqs = DOMAIN c.seqs \union {s}
  /\ d.seqs[s].length = SeqRec(c, s).length
  /\ Len(d.seqs[s].table) = Len(SeqRec(c, s).table) + n
  /\ \A i \in 1..Len(SeqRec(c, s).table) : d.seqs[s].table[i] = SeqRec(c, s).table[i]
  /\ \A i \in 1..n : d.seqs[s].table[Len(SeqRec(c, s).table) + i] = c.free[Len(c.free) + 1 - i]
  /\ \A x \in DOMAIN c.seqs : x # s => d.seqs[x] = c.seqs[x]

\* Taken moves the blocks as TakenTo says.
LEMMA TakenFacts ==
  ASSUME NEW c \in Caches, NEW s \in SeqIds, NEW n \in Nat, n <= Len(c.free),
         NEW d, d = Taken(c, s, n)
  PROVE  TakenTo(c, s, n, d)
<1>1. PICK f \in Seq(Blocks) : f = c.free
  BY CacheFacts
<1>2. PICK L \in Nat : L = Len(f) /\ n <= L /\ DOMAIN f = 1..L
  BY <1>1
<1>3. PICK q \in SeqRecs : q = SeqRec(c, s)
  BY SeqRecFacts
<1>4. PICK o \in Seq(Blocks) : o = q.table
  BY DEF SeqRecs
<1> DEFINE part == SubSeq(f, L - n + 1, L)
           top == Reverse(part)
           st == [b \in Blocks |-> IF b \in ToSet(top) THEN "sequence" ELSE c.state[b]]
           e == [free |-> SubSeq(f, 1, L - n), state |-> st, seqs |-> c.seqs]
           q2 == [table |-> o \o top, length |-> q.length]
<1>5. /\ part \in Seq(Blocks) /\ Len(part) = n
      /\ \A i \in 1..n : part[i] = f[L - n + i]
  BY <1>2
<1>6. /\ top \in Seq(Blocks) /\ Len(top) = n
      /\ \A i \in 1..n : top[i] = f[L + 1 - i]
  <2> HIDE DEF part
  <2>1. top = [i \in 1..n |-> part[(n - i) + 1]]
    BY <1>5 DEF Reverse
  <2>2. \A i \in 1..n : (n - i) + 1 \in 1..n
    OBVIOUS
  <2>3. \A i \in 1..n : part[(n - i) + 1] \in Blocks
    BY <2>2, <1>5
  <2>4. \A i \in 1..n : top[i] = f[L + 1 - i]
    <3> TAKE i \in 1..n
    <3>1. part[(n - i) + 1] = f[L - n + ((n - i) + 1)]
      BY <2>2, <1>5
    <3>2. L - n + ((n - i) + 1) = L + 1 - i
      BY <1>2
    <3> QED BY <2>1, <3>1, <3>2
  <2>5. top \in Seq(Blocks) /\ Len(top) = n
    <3> HIDE DEF top
    <3> QED BY <2>1, <2>3
  <2> QED BY <2>4, <2>5
<1> HIDE DEF top
<1>7. \A b \in Blocks : b \in ToSet(top) <=> \E i \in (L - n + 1)..L : f[i] = b
  <2> TAKE b \in Blocks
  <2>1. b \in ToSet(top) <=> \E i \in 1..n : top[i] = b
    <3>1. DOMAIN top = 1..n
      BY <1>6
    <3> QED BY <3>1 DEF ToSet
  <2>2. ASSUME NEW i \in 1..n, top[i] = b PROVE \E j \in (L - n + 1)..L : f[j] = b
    <3>1. L + 1 - i \in (L - n + 1)..L
      BY <1>2
    <3> QED BY <3>1, <2>2, <1>6
  <2>3. ASSUME NEW j \in (L - n + 1)..L, f[j] = b PROVE \E i \in 1..n : top[i] = b
    <3>1. L + 1 - j \in 1..n /\ L + 1 - (L + 1 - j) = j
      BY <1>2
    <3>2. top[L + 1 - j] = f[j]
      BY <3>1, <1>6
    <3> QED BY <3>1, <3>2, <2>3
  <2> QED BY <2>1, <2>2, <2>3
<1>8. /\ SubSeq(f, 1, L - n) \in Seq(Blocks) /\ Len(SubSeq(f, 1, L - n)) = L - n
      /\ \A i \in 1..(L - n) : SubSeq(f, 1, L - n)[i] = f[i]
  BY <1>2
<1>9. st \in [Blocks -> Tags]
  BY CacheFacts DEF Tags
<1>10. e \in Caches
  <2> HIDE DEF st
  <2> QED BY <1>8, <1>9, CacheFacts DEF Caches
<1>11. q2 \in SeqRecs /\ o \o top \in Seq(Blocks)
  BY <1>6 DEF SeqRecs
<1>12. d = WithSeq(e, s, q2)
  <2>1. [c EXCEPT !.free = SubSeq(@, 1, Len(@) - n),
                  !.state = [b \in Blocks |-> IF b \in ToSet(top) THEN "sequence" ELSE @[b]]] = e
    <3>1. st = [b \in Blocks |-> IF b \in ToSet(top) THEN "sequence" ELSE c.state[b]]
      OBVIOUS
    <3> HIDE DEF st
    <3>2. [c EXCEPT !.free = SubSeq(@, 1, Len(@) - n), !.state = st] = e
      <4>1. e = [free |-> SubSeq(f, 1, L - n), state |-> st, seqs |-> c.seqs]
        OBVIOUS
      <4>2. SubSeq(c.free, 1, Len(c.free) - n) = SubSeq(f, 1, L - n)
        BY <1>1, <1>2
      <4> HIDE DEF e
      <4> QED BY <4>1, <4>2, CacheExcept
    <3> QED BY <3>1, <3>2
  <2>2. [q EXCEPT !.table = @ \o top] = q2
    <3>1. \A a : [q EXCEPT !.table = a] = [table |-> a, length |-> q.length]
      BY DEF SeqRecs
    <3> QED BY <1>4, <3>1
  <2> HIDE DEF e, q2
  <2> QED BY <1>1, <1>2, <1>3, <2>1, <2>2 DEF Taken, top
<1>13. /\ e.free = SubSeq(f, 1, L - n) /\ e.state = st /\ e.seqs = c.seqs
       /\ q2.length = q.length /\ q2.table = o \o top
  OBVIOUS
<1>14. /\ Len(o \o top) = Len(o) + n
       /\ \A i \in 1..Len(o) : (o \o top)[i] = o[i]
       /\ \A i \in 1..n : (o \o top)[Len(o) + i] = f[L + 1 - i]
  <2>1. PICK k \in Nat : k = Len(o)
    OBVIOUS
  <2>2. Len(o \o top) = k + n
    BY <1>6, <2>1
  <2>3. \A i \in 1..k : (o \o top)[i] = o[i]
    BY <1>6, <2>1
  <2>4. \A i \in 1..n : (o \o top)[k + i] = top[i]
    BY <1>6, <2>1
  <2> QED BY <1>6, <2>1, <2>2, <2>3, <2>4
<1> HIDE DEF e, q2
<1>15. /\ d \in Caches
       /\ d.free = e.free /\ d.state = e.state
       /\ DOMAIN d.seqs = DOMAIN e.seqs \union {s}
       /\ d.seqs[s] = q2
       /\ \A x \in DOMAIN e.seqs : x # s => d.seqs[x] = e.seqs[x]
  BY <1>10, <1>11, <1>12, WithSeqFacts
<1>16. /\ Len(d.free) = L - n /\ \A i \in 1..(L - n) : d.free[i] = f[i]
  BY <1>8, <1>13, <1>15
<1>17. \A b \in Blocks : d.state[b] = IF \E i \in (L - n + 1)..L : f[i] = b
                                      THEN "sequence" ELSE c.state[b]
  BY <1>7, <1>13, <1>15
<1> HIDE DEF st, part
<1>18. /\ DOMAIN d.seqs = DOMAIN c.seqs \union {s}
       /\ \A x \in DOMAIN c.seqs : x # s => d.seqs[x] = c.seqs[x]
       /\ d.seqs[s].length = q.length
       /\ d.seqs[s].table = o \o top
  BY <1>13, <1>15
<1>19. /\ Len(d.seqs[s].table) = Len(o) + n
       /\ \A i \in 1..Len(o) : d.seqs[s].table[i] = o[i]
       /\ \A i \in 1..n : d.seqs[s].table[Len(o) + i] = f[L + 1 - i]
  BY <1>14, <1>18
<1> QED BY <1>1, <1>2, <1>3, <1>4, <1>15, <1>16, <1>17, <1>18, <1>19 DEF TakenTo

\* A block lies in the free list, or in the table of a sequence.
InFree(c, b) == \E i \in DOMAIN c.free : c.free[i] = b
InTable(c, s, b) == \E i \in DOMAIN c.seqs[s].table : c.seqs[s].table[i] = b

\* The parts of Partitioned.
TagsRight(c) ==
  \A b \in Blocks : /\ c.state[b] = "free" <=> InFree(c, b)
                    /\ c.state[b] = "sequence" <=> \E s \in DOMAIN c.seqs : InTable(c, s, b)
FreeOnce(c) == \A i, j \in DOMAIN c.free : c.free[i] = c.free[j] => i = j
TablesOnce(c) ==
  \A s, t \in DOMAIN c.seqs :
    \A i \in DOMAIN c.seqs[s].table, j \in DOMAIN c.seqs[t].table :
      c.seqs[s].table[i] = c.seqs[t].table[j] => s = t /\ i = j

\* Partitioned is its three parts.
LEMMA PartitionedParts ==
  ASSUME NEW c
  PROVE  Partitioned(c) <=> TagsRight(c) /\ FreeOnce(c) /\ TablesOnce(c)
BY DEF Partitioned, TagsRight, FreeOnce, TablesOnce, InFree, InTable

\* A block moved from the free list into a table stays in one place.
LEMMA TakenPartitioned ==
  ASSUME NEW c \in Caches, NEW s \in SeqIds, NEW n \in Nat, n <= Len(c.free), Partitioned(c)
  PROVE  Partitioned(Taken(c, s, n))
<1>1. PICK d : d = Taken(c, s, n)
  OBVIOUS
<1>2. PICK L \in Nat : L = Len(c.free) /\ DOMAIN c.free = 1..L
  BY CacheFacts
<1>3. PICK o \in Seq(Blocks) : o = SeqRec(c, s).table
  BY SeqRecFacts
<1>4. PICK M \in Nat : M = Len(o) /\ DOMAIN o = 1..M
  OBVIOUS
<1>5. /\ d \in Caches
      /\ Len(d.free) = L - n
      /\ \A i \in 1..(L - n) : d.free[i] = c.free[i]
      /\ \A b \in Blocks : d.state[b] =
           IF \E i \in (L - n + 1)..L : c.free[i] = b THEN "sequence" ELSE c.state[b]
      /\ DOMAIN d.seqs = DOMAIN c.seqs \union {s}
      /\ Len(d.seqs[s].table) = M + n
      /\ \A i \in 1..M : d.seqs[s].table[i] = o[i]
      /\ \A i \in 1..n : d.seqs[s].table[M + i] = c.free[L + 1 - i]
      /\ \A x \in DOMAIN c.seqs : x # s => d.seqs[x] = c.seqs[x]
  <2>1. TakenTo(c, s, n, d)
    BY <1>1, TakenFacts
  <2> QED BY <2>1, <1>2, <1>3, <1>4 DEF TakenTo
<1>6. DOMAIN d.free = 1..(L - n) /\ DOMAIN d.seqs[s].table = 1..(M + n)
  BY <1>2, <1>4, <1>5, CacheFacts
<1>7. TagsRight(c) /\ FreeOnce(c) /\ TablesOnce(c)
  BY PartitionedParts
<1>8. \A b \in Blocks : (\E i \in (L - n + 1)..L : c.free[i] = b) => ~InFree(d, b) /\ InFree(c, b)
  <2> TAKE b \in Blocks
  <2> HAVE \E i \in (L - n + 1)..L : c.free[i] = b
  <2>1. PICK i \in (L - n + 1)..L : c.free[i] = b
    OBVIOUS
  <2>2. i \in 1..L
    BY <1>2
  <2>3. ASSUME NEW j \in 1..(L - n), d.free[j] = b PROVE FALSE
    <3>1. j \in 1..L /\ c.free[j] = b /\ j # i
      BY <2>3, <1>5, <1>2
    <3> QED BY <3>1, <2>1, <2>2, <1>2, <1>7 DEF FreeOnce
  <2> QED BY <2>1, <2>2, <2>3, <1>2, <1>6 DEF InFree
<1>9. \A b \in Blocks : ~(\E i \in (L - n + 1)..L : c.free[i] = b) => (InFree(d, b) <=> InFree(c, b))
  <2> TAKE b \in Blocks
  <2> HAVE ~(\E i \in (L - n + 1)..L : c.free[i] = b)
  <2>1. \A i \in 1..(L - n) : i \in 1..L /\ d.free[i] = c.free[i]
    BY <1>5, <1>2
  <2>2. \A i \in 1..L : c.free[i] = b => i \in 1..(L - n)
    BY <1>2
  <2> QED BY <2>1, <2>2, <1>2, <1>6 DEF InFree
\* where a block of d's tables comes from
<1>10. ASSUME NEW x \in DOMAIN d.seqs, NEW i \in DOMAIN d.seqs[x].table
       PROVE  \/ /\ x \in DOMAIN c.seqs /\ i \in DOMAIN c.seqs[x].table
                 /\ c.seqs[x].table[i] = d.seqs[x].table[i]
              \/ /\ x = s /\ i \in (M + 1)..(M + n) /\ L + 1 - (i - M) \in (L - n + 1)..L
                 /\ L + 1 - (i - M) \in 1..L
                 /\ d.seqs[x].table[i] = c.free[L + 1 - (i - M)]
  <2>1. CASE x # s
    BY <2>1, <1>5
  <2>2. CASE x = s /\ i <= M
    <3>1. i \in 1..M
      BY <2>2, <1>6
    <3>2. s \in DOMAIN c.seqs
      <4>1. o # <<>>
        BY <3>1, <1>4
      <4> QED BY <4>1, <1>3 DEF SeqRec, NoSeq
    <3>3. o = c.seqs[s].table
      BY <3>2, <1>3 DEF SeqRec
    <3> QED BY <2>2, <3>1, <3>2, <3>3, <1>4, <1>5
  <2>3. CASE x = s /\ i > M
    <3>1. PICK k \in 1..n : i = M + k
      <4>1. i - M \in 1..n /\ i = M + (i - M)
        BY <2>3, <1>6
      <4> QED BY <4>1
    <3>2. d.seqs[s].table[i] = c.free[L + 1 - k] /\ i - M = k
      BY <3>1, <1>5
    <3>3. L + 1 - k \in (L - n + 1)..L /\ L + 1 - k \in 1..L /\ i \in (M + 1)..(M + n)
      BY <3>1, <1>2
    <3> QED BY <2>3, <3>2, <3>3
  <2>4. i \in Nat
    <3>1. d.seqs[x].table \in Seq(Blocks)
      BY <1>5, CacheFacts
    <3> QED BY <3>1
  <2> QED BY <2>1, <2>2, <2>3, <2>4
<1>11. ASSUME NEW x \in DOMAIN c.seqs, NEW i \in DOMAIN c.seqs[x].table
       PROVE  /\ x \in DOMAIN d.seqs /\ i \in DOMAIN d.seqs[x].table
              /\ d.seqs[x].table[i] = c.seqs[x].table[i]
  <2>1. CASE x # s
    BY <2>1, <1>5
  <2>2. CASE x = s
    <3>1. o = c.seqs[s].table
      BY <2>2, <1>3 DEF SeqRec
    <3>2. i \in 1..M /\ i \in 1..(M + n)
      BY <2>2, <3>1, <1>4
    <3> QED BY <2>2, <3>1, <3>2, <1>5, <1>6
  <2> QED BY <2>1, <2>2
<1>12. TagsRight(d)
  <2>1. ASSUME NEW b \in Blocks
        PROVE  /\ d.state[b] = "free" <=> InFree(d, b)
               /\ d.state[b] = "sequence" <=> \E x \in DOMAIN d.seqs : InTable(d, x, b)
    <3>1. CASE \E i \in (L - n + 1)..L : c.free[i] = b
      <4>1. PICK i \in (L - n + 1)..L : c.free[i] = b
        BY <3>1
      <4>2. PICK k \in 1..n : i = L + 1 - k
        <5>1. L + 1 - i \in 1..n /\ i = L + 1 - (L + 1 - i)
          BY <1>2
        <5> QED BY <5>1
      <4>3. d.seqs[s].table[M + k] = b /\ M + k \in 1..(M + n)
        <5>1. d.seqs[s].table[M + k] = c.free[L + 1 - k]
          BY <1>5
        <5> QED BY <5>1, <4>1, <4>2
      <4>4. InTable(d, s, b) /\ s \in DOMAIN d.seqs
        BY <4>3, <1>5, <1>6 DEF InTable
      <4>5. d.state[b] = "sequence" /\ ~InFree(d, b)
        BY <3>1, <1>5, <1>8
      <4> QED BY <4>4, <4>5
    <3>2. CASE ~(\E i \in (L - n + 1)..L : c.free[i] = b)
      <4>1. d.state[b] = c.state[b]
        BY <3>2, <1>5
      <4>2. InFree(d, b) <=> InFree(c, b)
        BY <3>2, <1>9
      <4>3. (\E x \in DOMAIN d.seqs : InTable(d, x, b)) <=> (\E x \in DOMAIN c.seqs : InTable(c, x, b))
        <5>1. ASSUME NEW x \in DOMAIN d.seqs, InTable(d, x, b)
              PROVE  \E y \in DOMAIN c.seqs : InTable(c, y, b)
          <6>1. PICK i \in DOMAIN d.seqs[x].table : d.seqs[x].table[i] = b
            BY <5>1 DEF InTable
          <6>2. /\ x \in DOMAIN c.seqs /\ i \in DOMAIN c.seqs[x].table
                /\ c.seqs[x].table[i] = d.seqs[x].table[i]
            BY <6>1, <1>10, <3>2
          <6> QED BY <6>1, <6>2 DEF InTable
        <5>2. ASSUME NEW x \in DOMAIN c.seqs, InTable(c, x, b)
              PROVE  \E y \in DOMAIN d.seqs : InTable(d, y, b)
          <6>1. PICK i \in DOMAIN c.seqs[x].table : c.seqs[x].table[i] = b
            BY <5>2 DEF InTable
          <6> QED BY <6>1, <1>11 DEF InTable
        <5> QED BY <5>1, <5>2
      <4> QED BY <4>1, <4>2, <4>3, <1>7 DEF TagsRight
    <3> QED BY <3>1, <3>2
  <2> QED BY <2>1 DEF TagsRight
<1>13. FreeOnce(d)
  <2>1. \A i \in 1..(L - n) : i \in 1..L
    BY <1>2
  <2>2. \A i \in DOMAIN d.free : i \in DOMAIN c.free /\ d.free[i] = c.free[i]
    BY <2>1, <1>2, <1>5, <1>6
  <2> QED BY <2>2, <1>7 DEF FreeOnce
\* no block of c's tables is free
<1>14. \A x \in DOMAIN c.seqs : \A i \in DOMAIN c.seqs[x].table : \A j \in 1..L :
         c.seqs[x].table[i] # c.free[j]
  <2> SUFFICES ASSUME NEW x \in DOMAIN c.seqs, NEW i \in DOMAIN c.seqs[x].table, NEW j \in 1..L,
                      c.seqs[x].table[i] = c.free[j]
               PROVE  FALSE
    OBVIOUS
  <2>1. PICK b \in Blocks : b = c.free[j]
    BY <1>2, CacheFacts
  <2>2. InFree(c, b) /\ InTable(c, x, b)
    BY <2>1, <1>2 DEF InFree, InTable
  <2> QED BY <2>2, <1>7 DEF TagsRight
<1>15. TablesOnce(d)
  <2> SUFFICES ASSUME NEW x \in DOMAIN d.seqs, NEW y \in DOMAIN d.seqs,
                      NEW i \in DOMAIN d.seqs[x].table, NEW j \in DOMAIN d.seqs[y].table,
                      d.seqs[x].table[i] = d.seqs[y].table[j]
               PROVE  x = y /\ i = j
    BY DEF TablesOnce
  <2>1. CASE /\ x \in DOMAIN c.seqs /\ i \in DOMAIN c.seqs[x].table
             /\ c.seqs[x].table[i] = d.seqs[x].table[i]
    <3>1. CASE /\ y \in DOMAIN c.seqs /\ j \in DOMAIN c.seqs[y].table
               /\ c.seqs[y].table[j] = d.seqs[y].table[j]
      BY <2>1, <3>1, <1>7 DEF TablesOnce
    <3>2. CASE \E k \in 1..L : d.seqs[y].table[j] = c.free[k]
      BY <2>1, <3>2, <1>14
    <3> QED BY <3>1, <3>2, <1>10
  <2>2. CASE /\ x = s /\ i \in (M + 1)..(M + n) /\ L + 1 - (i - M) \in 1..L
             /\ d.seqs[x].table[i] = c.free[L + 1 - (i - M)]
    <3>1. CASE /\ y \in DOMAIN c.seqs /\ j \in DOMAIN c.seqs[y].table
               /\ c.seqs[y].table[j] = d.seqs[y].table[j]
      BY <2>2, <3>1, <1>14
    <3>2. CASE /\ y = s /\ j \in (M + 1)..(M + n) /\ L + 1 - (j - M) \in 1..L
               /\ d.seqs[y].table[j] = c.free[L + 1 - (j - M)]
      <4>1. L + 1 - (i - M) = L + 1 - (j - M)
        BY <2>2, <3>2, <1>2, <1>7 DEF FreeOnce
      <4> QED BY <4>1, <2>2, <3>2
    <3> QED BY <3>1, <3>2, <1>10
  <2> QED BY <2>1, <2>2, <1>10
<1> QED BY <1>1, <1>12, <1>13, <1>15, PartitionedParts

\* An update of the free list and of one tag, written out.
LEMMA TagExcept ==
  ASSUME NEW c \in Caches, NEW a, NEW b \in Blocks, NEW z
  PROVE  [c EXCEPT !.free = a, !.state[b] = z] =
           [free |-> a, state |-> [c.state EXCEPT ![b] = z], seqs |-> c.seqs]
<1>1. PICK f, t, m : c = [free |-> f, state |-> t, seqs |-> m]
  BY DEF Caches
<1>2. PICK x : x = [c EXCEPT !.free = a]
  OBVIOUS
<1>3. x = [free |-> a, state |-> t, seqs |-> m]
  BY <1>1, <1>2
<1>4. x.state = t
  BY <1>3
<1>5. PICK y : y = [t EXCEPT ![b] = z]
  OBVIOUS
<1>6. [x EXCEPT !.state = y] = [free |-> a, state |-> y, seqs |-> m]
  BY <1>3
<1>7. [c EXCEPT !.free = a, !.state[b] = z] = [x EXCEPT !.state[b] = z]
  BY <1>2
<1>8. [x EXCEPT !.state[b] = z] = [x EXCEPT !.state = y]
  BY <1>4, <1>5
<1>9. c.seqs = m /\ c.state = t
  BY <1>1
<1> QED BY <1>5, <1>6, <1>7, <1>8, <1>9

\* A block handed out raw.
LEMMA AllocatedFacts ==
  ASSUME NEW c \in Caches, FreeBlocks(c) > 0, Partitioned(c), NEW d, d = Allocated(c)
  PROVE  d \in Caches /\ Partitioned(d) /\ d.seqs = c.seqs
<1>1. PICK f \in Seq(Blocks) : f = c.free
  BY CacheFacts
<1>2. PICK L \in Nat : L = Len(f) /\ L >= 1 /\ DOMAIN f = 1..L
  BY <1>1 DEF FreeBlocks
<1>3. PICK b \in Blocks : b = f[L]
  BY <1>2
<1>4. PICK g \in Seq(Blocks) : g = Front(f)
  <2>1. Front(f) = SubSeq(f, 1, L - 1)
    BY <1>2 DEF Front
  <2>2. SubSeq(f, 1, L - 1) \in Seq(Blocks)
    BY <1>2
  <2> QED BY <2>1, <2>2
<1>5. /\ Len(g) = L - 1 /\ DOMAIN g = 1..(L - 1)
      /\ \A i \in 1..(L - 1) : g[i] = f[i]
  BY <1>2, <1>4 DEF Front
<1>6. d = [free |-> g, state |-> [c.state EXCEPT ![b] = "raw"], seqs |-> c.seqs]
  <2>1. d = [c EXCEPT !.free = Front(f), !.state[Last(f)] = "raw"]
    BY <1>1 DEF Allocated
  <2>2. Last(f) = b
    BY <1>2, <1>3 DEF Last
  <2>3. d = [c EXCEPT !.free = g, !.state[b] = "raw"]
    BY <2>1, <2>2, <1>4
  <2> QED BY <2>3, TagExcept
<1>7. /\ d.free = g /\ d.seqs = c.seqs
      /\ \A x \in Blocks : d.state[x] = IF x = b THEN "raw" ELSE c.state[x]
  BY <1>6, CacheFacts
<1>8. d \in Caches
  <2>1. [c.state EXCEPT ![b] = "raw"] \in [Blocks -> Tags]
    BY CacheFacts DEF Tags
  <2> QED BY <2>1, <1>6, CacheFacts DEF Caches
<1>9. TagsRight(c) /\ FreeOnce(c) /\ TablesOnce(c)
  BY PartitionedParts
<1>10. InFree(c, b)
  BY <1>1, <1>2, <1>3 DEF InFree
<1>11. \A i \in 1..(L - 1) : i \in 1..L /\ d.free[i] = c.free[i]
  BY <1>1, <1>2, <1>5, <1>7
<1>12. DOMAIN c.free = 1..L /\ DOMAIN d.free = 1..(L - 1) /\ c.free[L] = b
  BY <1>1, <1>2, <1>3, <1>5, <1>7
<1>13. FreeOnce(d)
  BY <1>9, <1>11, <1>12 DEF FreeOnce
<1>14. TablesOnce(d)
  BY <1>7, <1>9 DEF TablesOnce
<1>15. \A x \in Blocks : InFree(d, x) <=> InFree(c, x) /\ x # b
  <2> TAKE x \in Blocks
  <2>1. ASSUME NEW i \in 1..(L - 1), d.free[i] = x PROVE InFree(c, x) /\ x # b
    <3>1. i \in 1..L /\ c.free[i] = x /\ i # L
      BY <1>2, <1>11, <2>1
    <3>2. L \in 1..L
      BY <1>2
    <3> QED BY <3>1, <3>2, <1>9, <1>12 DEF InFree, FreeOnce
  <2>2. ASSUME NEW i \in 1..L, c.free[i] = x, x # b PROVE InFree(d, x)
    <3>1. i # L
      BY <2>2, <1>12
    <3>2. i \in 1..(L - 1)
      BY <3>1, <1>2
    <3> QED BY <3>2, <2>2, <1>11, <1>12 DEF InFree
  <2> QED BY <2>1, <2>2, <1>12 DEF InFree
<1>16. TagsRight(d)
  <2>1. \A x, s : InTable(d, s, x) <=> InTable(c, s, x)
    BY <1>7 DEF InTable
  <2>2. ~ \E s \in DOMAIN c.seqs : InTable(c, s, b)
    BY <1>9, <1>10 DEF TagsRight
  <2> QED BY <2>1, <2>2, <1>7, <1>9, <1>10, <1>15 DEF TagsRight
<1> QED BY <1>7, <1>8, <1>13, <1>14, <1>16, PartitionedParts

\* What a release that is not refused does.
LEMMA ReleasedIs ==
  ASSUME NEW c \in Caches, NEW b \in Blocks, NEW z, c.state[b] = z, NEW d, d = Released(c, b, z)
  PROVE  /\ d \in Caches /\ d.seqs = c.seqs
         /\ d.free = Append(c.free, b)
         /\ \A x \in Blocks : d.state[x] = IF x = b THEN "free" ELSE c.state[x]
<1>1. d = [free |-> Append(c.free, b), state |-> [c.state EXCEPT ![b] = "free"], seqs |-> c.seqs]
  BY TagExcept DEF Released
<1>2. [c.state EXCEPT ![b] = "free"] \in [Blocks -> Tags] /\ Append(c.free, b) \in Seq(Blocks)
  BY CacheFacts DEF Tags
<1>3. d \in Caches
  BY <1>1, <1>2, CacheFacts DEF Caches
<1> QED BY <1>1, <1>3, CacheFacts

\* freeBlock: a raw block goes back, any other block stays where it is.
LEMMA RawReleased ==
  ASSUME NEW c \in Caches, NEW b \in Blocks, Partitioned(c), NEW d, d = Released(c, b, "raw")
  PROVE  d \in Caches /\ Partitioned(d) /\ d.seqs = c.seqs
<1>1. CASE c.state[b] # "raw"
  BY <1>1 DEF Released
<1>2. CASE c.state[b] = "raw"
  <2>1. /\ d \in Caches /\ d.seqs = c.seqs
        /\ d.free = Append(c.free, b)
        /\ \A x \in Blocks : d.state[x] = IF x = b THEN "free" ELSE c.state[x]
    BY <1>2, ReleasedIs
  <2>2. PICK f \in Seq(Blocks) : f = c.free
    BY CacheFacts
  <2>3. PICK L \in Nat : L = Len(f) /\ DOMAIN f = 1..L
    BY <2>2
  <2>4. /\ DOMAIN d.free = 1..(L + 1) /\ d.free[L + 1] = b
        /\ \A i \in 1..L : d.free[i] = f[i]
    BY <2>1, <2>2, <2>3
  <2>5. TagsRight(c) /\ FreeOnce(c) /\ TablesOnce(c)
    BY PartitionedParts
  <2>6. ~InFree(c, b) /\ ~ \E s \in DOMAIN c.seqs : InTable(c, s, b)
    BY <1>2, <2>5 DEF TagsRight
  <2>7. \A i \in 1..(L + 1) : i = L + 1 \/ i \in 1..L
    BY <2>3
  <2>8. \A i \in 1..L : f[i] # b
    BY <2>2, <2>3, <2>6 DEF InFree
  <2>9. FreeOnce(d)
    <3> SUFFICES ASSUME NEW i \in 1..(L + 1), NEW j \in 1..(L + 1), d.free[i] = d.free[j]
                 PROVE  i = j
      BY <2>4 DEF FreeOnce
    <3>1. CASE i = L + 1 \/ j = L + 1
      BY <3>1, <2>4, <2>7, <2>8
    <3>2. CASE i \in 1..L /\ j \in 1..L
      BY <3>2, <2>2, <2>3, <2>4, <2>5 DEF FreeOnce
    <3> QED BY <3>1, <3>2, <2>7
  <2>10. TablesOnce(d)
    BY <2>1, <2>5 DEF TablesOnce
  <2>11. \A x \in Blocks : InFree(d, x) <=> InFree(c, x) \/ x = b
    <3>1. L + 1 \in 1..(L + 1) /\ \A i \in 1..L : i \in 1..(L + 1)
      BY <2>3
    <3> QED BY <3>1, <2>2, <2>3, <2>4, <2>7 DEF InFree
  <2>12. \A x, s : InTable(d, s, x) <=> InTable(c, s, x)
    BY <2>1 DEF InTable
  <2>13. TagsRight(d)
    BY <2>1, <2>5, <2>6, <2>11, <2>12 DEF TagsRight
  <2> QED BY <2>1, <2>9, <2>10, <2>13, PartitionedParts
<1> QED BY <1>1, <1>2

\* The recursion that gives back a table's blocks one by one has a solution, which
\* is what the definition chooses.
LEMMA ReturnedUnfolds ==
  ASSUME NEW c \in Caches, NEW table \in Seq(Blocks)
  PROVE  /\ Returned(c, table)[0] = c
         /\ \A i \in 1..Len(table) :
              Returned(c, table)[i] = Released(Returned(c, table)[i - 1], table[i], "sequence")
<1> DEFINE n == Len(table)
           F == [i \in 1..n |-> [x \in Caches |-> Released(x, table[i], "sequence")]]
           Rec(f) == [i \in 0..n |->
                        IF i = 0 THEN c ELSE Released(f[i - 1], table[i], "sequence")]
<1>1. n \in Nat
  OBVIOUS
<1>2. F \in [1..n -> [Caches -> Caches]]
  <2>1. ASSUME NEW i \in 1..n, NEW x \in Caches PROVE Released(x, table[i], "sequence") \in Caches
    <3>1. PICK b \in Blocks : b = table[i]
      OBVIOUS
    <3>2. CASE x.state[b] = "sequence"
      BY <3>1, <3>2, ReleasedIs
    <3>3. CASE x.state[b] # "sequence"
      BY <3>1, <3>3 DEF Released
    <3> QED BY <3>2, <3>3
  <2> QED BY <2>1
<1> HIDE DEF n, F
<1>3. PICK g \in [0..n -> Caches] : Iterates(g, c, n, F)
  BY ONLY <1>1, <1>2, RecursionExists, c \in Caches
<1>4. g = Rec(g)
  <2>1. ASSUME NEW i \in 0..n PROVE g[i] = Rec(g)[i]
    <3>1. CASE i = 0
      BY <3>1, <1>1, <1>3 DEF Iterates
    <3>2. CASE i # 0
      <4>1. i \in 1..n /\ i - 1 \in 0..n
        BY <1>1, <3>2
      <4>2. g[i - 1] \in Caches /\ g[i] = F[i][g[i - 1]]
        BY <4>1, <1>3 DEF Iterates
      <4> QED BY <4>1, <4>2, <3>2 DEF F
    <3> QED BY <3>1, <3>2
  <2> QED BY <2>1
<1>5. Returned(c, table) = CHOOSE f : f = Rec(f)
  BY DEF Returned, n
<1>6. Returned(c, table) = Rec(Returned(c, table))
  <2>1. \E f : f = Rec(f)
    BY <1>4
  <2> HIDE DEF Rec
  <2> QED BY <2>1, <1>5
<1> DEFINE r == Returned(c, table)
<1> HIDE DEF r
<1>7. r = Rec(r)
  BY <1>6 DEF r
<1>8. r[0] = c
  BY <1>1, <1>7
<1>9. ASSUME NEW i \in 1..n PROVE r[i] = Released(r[i - 1], table[i], "sequence")
  <2>1. i \in 0..n /\ i # 0
    BY <1>1
  <2>2. Rec(r)[i] = Released(r[i - 1], table[i], "sequence")
    BY <2>1
  <2> HIDE DEF Rec
  <2> QED BY <1>7, <2>2
<1> QED BY <1>8, <1>9 DEF r, n

\* The cache d after the first k blocks of a table of c's went back.
GivenBack(c, table, k, d) ==
  /\ d \in Caches /\ d.seqs = c.seqs
  /\ Len(d.free) = Len(c.free) + k
  /\ \A i \in 1..Len(c.free) : d.free[i] = c.free[i]
  /\ \A i \in 1..k : d.free[Len(c.free) + i] = table[i]
  /\ \A x \in Blocks : d.state[x] = IF \E i \in 1..k : table[i] = x THEN "free" ELSE c.state[x]

\* One more block of the table goes back.
LEMMA GivesBack ==
  ASSUME NEW c \in Caches, NEW table \in Seq(Blocks), NEW k \in 1..Len(table), NEW d,
         GivenBack(c, table, k - 1, d),
         c.state[table[k]] = "sequence", \A i \in 1..(k - 1) : table[i] # table[k],
         NEW e, e = Released(d, table[k], "sequence")
  PROVE  GivenBack(c, table, k, e)
<1>1. PICK L \in Nat : L = Len(c.free)
  BY CacheFacts
<1>2. PICK b \in Blocks : b = table[k]
  OBVIOUS
<1>3. /\ d \in Caches /\ d.seqs = c.seqs /\ Len(d.free) = L + (k - 1)
      /\ \A i \in 1..L : d.free[i] = c.free[i]
      /\ \A i \in 1..(k - 1) : d.free[L + i] = table[i]
      /\ \A x \in Blocks : d.state[x] = IF \E i \in 1..(k - 1) : table[i] = x THEN "free" ELSE c.state[x]
  BY <1>1 DEF GivenBack
<1>4. d.state[b] = "sequence"
  BY <1>2, <1>3
<1>5. /\ e \in Caches /\ e.seqs = c.seqs
      /\ e.free = Append(d.free, b)
      /\ \A x \in Blocks : e.state[x] = IF x = b THEN "free" ELSE d.state[x]
  BY <1>2, <1>3, <1>4, ReleasedIs
<1>6. PICK f \in Seq(Blocks) : f = d.free
  BY <1>3, CacheFacts
<1>7. /\ Len(e.free) = L + k
      /\ e.free[L + k] = b
      /\ \A i \in 1..(L + (k - 1)) : e.free[i] = f[i]
  <2>1. PICK h \in Nat : h = Len(f)
    OBVIOUS
  <2>2. /\ Len(Append(f, b)) = h + 1 /\ Append(f, b)[h + 1] = b
        /\ \A i \in 1..h : Append(f, b)[i] = f[i]
    BY <2>1
  <2>3. h = L + (k - 1) /\ h + 1 = L + k
    BY <2>1, <1>1, <1>3, <1>6
  <2> QED BY <2>2, <2>3, <1>5, <1>6
<1>8. \A i \in 1..L : e.free[i] = c.free[i]
  <2>1. \A i \in 1..L : i \in 1..(L + (k - 1))
    BY <1>1
  <2> QED BY <2>1, <1>3, <1>6, <1>7
<1>9. ASSUME NEW i \in 1..k PROVE e.free[L + i] = table[i]
  <2>1. CASE i = k
    BY <2>1, <1>2, <1>7
  <2>2. CASE i # k
    <3>1. i \in 1..(k - 1) /\ L + i \in 1..(L + (k - 1))
      BY <2>2, <1>1
    <3> QED BY <3>1, <1>3, <1>6, <1>7
  <2> QED BY <2>1, <2>2
<1>10. ASSUME NEW x \in Blocks
       PROVE  e.state[x] = IF \E i \in 1..k : table[i] = x THEN "free" ELSE c.state[x]
  <2>1. (\E i \in 1..k : table[i] = x) <=> x = b \/ \E i \in 1..(k - 1) : table[i] = x
    <3>1. \A i \in 1..k : i = k \/ i \in 1..(k - 1)
      OBVIOUS
    <3>2. k \in 1..k /\ \A i \in 1..(k - 1) : i \in 1..k
      OBVIOUS
    <3> QED BY <3>1, <3>2, <1>2
  <2> QED BY <2>1, <1>3, <1>5
<1> QED BY <1>1, <1>5, <1>7, <1>8, <1>9, <1>10 DEF GivenBack

\* All blocks of a sequence's table go back: each is tagged as the sequence's until
\* its own turn, for no block is in the table twice.
LEMMA FreedGivesBack ==
  ASSUME NEW c \in Caches, Partitioned(c), NEW s \in DOMAIN c.seqs, NEW table, table = c.seqs[s].table
  PROVE  table \in Seq(Blocks) /\ GivenBack(c, table, Len(table), Returned(c, table)[Len(table)])
<1>1. table \in Seq(Blocks)
  BY CacheFacts
<1>2. TagsRight(c) /\ FreeOnce(c) /\ TablesOnce(c)
  BY PartitionedParts
<1>3. PICK n \in Nat : n = Len(table) /\ DOMAIN table = 1..n
  BY <1>1
<1>4. \A i \in 1..n : c.state[table[i]] = "sequence"
  <2> TAKE i \in 1..n
  <2>1. table[i] \in Blocks
    BY <1>1, <1>3
  <2>2. InTable(c, s, table[i])
    BY <1>3 DEF InTable
  <2> QED BY <2>1, <2>2, <1>2 DEF TagsRight
<1>5. \A i, j \in 1..n : table[i] = table[j] => i = j
  BY <1>2, <1>3 DEF TablesOnce
<1> DEFINE r == Returned(c, table)
           T == {k \in 0..n : GivenBack(c, table, k, r[k])}
<1>6. /\ r[0] = c
      /\ \A i \in 1..n : r[i] = Released(r[i - 1], table[i], "sequence")
  BY <1>1, <1>3, ReturnedUnfolds
<1> HIDE DEF r
<1>7. 0 \in T
  <2>1. GivenBack(c, table, 0, c)
    <3>1. Len(c.free) \in Nat
      BY CacheFacts
    <3> QED BY <3>1 DEF GivenBack
  <2> QED BY <2>1, <1>3, <1>6
<1>8. ASSUME NEW k \in 1..n, k - 1 \in T PROVE k \in T
  <2>1. GivenBack(c, table, k - 1, r[k - 1])
    BY <1>8
  <2>2. \A i \in 1..(k - 1) : table[i] # table[k]
    <3>1. \A i \in 1..(k - 1) : i \in 1..n /\ i # k
      BY <1>3
    <3> QED BY <3>1, <1>5
  <2>3. r[k] = Released(r[k - 1], table[k], "sequence")
    BY <1>6
  <2>4. GivenBack(c, table, k, r[k])
    BY <2>1, <2>2, <2>3, <1>1, <1>3, <1>4, GivesBack
  <2> QED BY <2>4, <1>3
<1> HIDE DEF T
<1>9. n \in T
  <2>1. \A k \in 0..n : k \in T
    BY <1>3, <1>7, <1>8, Reaches
  <2> QED BY <2>1, <1>3
<1> QED BY <1>1, <1>3, <1>9 DEF T, r

\* freeSequence: the blocks of the sequence are free again, the others stay where
\* they are.
FreedTo(c, s, d) ==
  /\ d \in Caches /\ Partitioned(d)
  /\ DOMAIN d.seqs = DOMAIN c.seqs \ {s}
  /\ \A x \in DOMAIN d.seqs : d.seqs[x] = c.seqs[x]

\* freeSequence: the sequence is gone, its blocks are free, the rest is as it was.
LEMMA FreedFacts ==
  ASSUME NEW c \in Caches, Partitioned(c), NEW s, NEW d, d = Freed(c, s)
  PROVE  FreedTo(c, s, d)
<1>1. CASE s \notin DOMAIN c.seqs
  BY <1>1 DEF Freed, FreedTo
<1>2. CASE s \in DOMAIN c.seqs
  <2>1. PICK table \in Seq(Blocks) : table = c.seqs[s].table
    BY <1>2, CacheFacts
  <2>2. PICK n \in Nat : n = Len(table) /\ DOMAIN table = 1..n
    BY <2>1
  <2>3. PICK e : e = Returned(c, table)[n]
    OBVIOUS
  <2>4. GivenBack(c, table, n, e)
    BY <1>2, <2>1, <2>2, <2>3, FreedGivesBack
  <2>5. PICK f \in Seq(Blocks), L \in Nat : f = c.free /\ L = Len(f) /\ DOMAIN f = 1..L
    <3>1. c.free \in Seq(Blocks)
      BY CacheFacts
    <3> QED BY <3>1
  <2>6. /\ e \in Caches /\ e.seqs = c.seqs /\ Len(e.free) = L + n
        /\ \A i \in 1..L : e.free[i] = f[i]
        /\ \A i \in 1..n : e.free[L + i] = table[i]
        /\ \A x \in Blocks : e.state[x] = IF \E i \in 1..n : table[i] = x THEN "free" ELSE c.state[x]
    BY <2>4, <2>5 DEF GivenBack
  <2> DEFINE Ids == DOMAIN c.seqs \ {s}
             m == [x \in Ids |-> c.seqs[x]]
  <2>7. d = [e EXCEPT !.seqs = m]
    BY <1>2, <2>1, <2>2, <2>3, <2>6 DEF Freed
  <2>8. m \in SeqMaps /\ DOMAIN m = Ids /\ \A x \in Ids : m[x] = c.seqs[x]
    <3>1. Ids \in SUBSET SeqIds /\ m \in [Ids -> SeqRecs]
      BY CacheFacts
    <3> QED BY <3>1, SeqMapFacts
  <2> HIDE DEF m
  <2>9. d = [free |-> e.free, state |-> e.state, seqs |-> m]
    BY <2>6, <2>7 DEF Caches
  <2>10. d \in Caches
    BY <2>6, <2>8, <2>9, CacheFacts DEF Caches
  <2>11. /\ DOMAIN d.seqs = DOMAIN c.seqs \ {s}
         /\ \A x \in DOMAIN d.seqs : d.seqs[x] = c.seqs[x]
         /\ d.free = e.free /\ d.state = e.state
    BY <2>8, <2>9
  <2>12. TagsRight(c) /\ FreeOnce(c) /\ TablesOnce(c)
    BY PartitionedParts
  <2>13. DOMAIN d.free = 1..(L + n)
    <3>1. d.free \in Seq(Blocks)
      BY <2>10, CacheFacts
    <3> QED BY <3>1, <2>6, <2>11
  <2>14. \A i \in 1..(L + n) :
           \/ i \in 1..L /\ d.free[i] = f[i]
           \/ i - L \in 1..n /\ i = L + (i - L) /\ d.free[i] = table[i - L]
    <3> TAKE i \in 1..(L + n)
    <3>1. CASE i <= L
      BY <3>1, <2>5, <2>6, <2>11
    <3>2. CASE i > L
      <4>1. PICK k \in 1..n : i = L + k
        <5>1. i - L \in 1..n /\ i = L + (i - L)
          BY <3>2, <2>2, <2>5
        <5> QED BY <5>1
      <4>2. d.free[L + k] = table[k] /\ i - L = k
        BY <4>1, <2>6, <2>11
      <4> QED BY <4>1, <4>2
    <3> QED BY <3>1, <3>2, <2>5
  \* no block of a table of c is free in c
  <2>15. \A i \in 1..n, j \in 1..L : table[i] # f[j]
    <3> SUFFICES ASSUME NEW i \in 1..n, NEW j \in 1..L, table[i] = f[j] PROVE FALSE
      OBVIOUS
    <3>1. PICK b \in Blocks : b = f[j]
      BY <2>5
    <3>2. InFree(c, b) /\ InTable(c, s, b)
      BY <3>1, <2>1, <2>2, <2>5 DEF InFree, InTable
    <3> QED BY <3>2, <1>2, <2>12 DEF TagsRight
  <2>16. \A i, j \in 1..n : table[i] = table[j] => i = j
    BY <1>2, <2>1, <2>2, <2>12 DEF TablesOnce
  <2>17. FreeOnce(d)
    <3> SUFFICES ASSUME NEW i \in 1..(L + n), NEW j \in 1..(L + n), d.free[i] = d.free[j]
                 PROVE  i = j
      BY <2>13 DEF FreeOnce
    <3>1. CASE i \in 1..L /\ d.free[i] = f[i]
      <4>1. CASE j \in 1..L /\ d.free[j] = f[j]
        BY <3>1, <4>1, <2>5, <2>12 DEF FreeOnce
      <4>2. CASE j - L \in 1..n /\ d.free[j] = table[j - L]
        BY <3>1, <4>2, <2>15
      <4> QED BY <4>1, <4>2, <2>14
    <3>2. CASE i - L \in 1..n /\ i = L + (i - L) /\ d.free[i] = table[i - L]
      <4>1. CASE j \in 1..L /\ d.free[j] = f[j]
        BY <3>2, <4>1, <2>15
      <4>2. CASE j - L \in 1..n /\ j = L + (j - L) /\ d.free[j] = table[j - L]
        <5>1. i - L = j - L
          BY <3>2, <4>2, <2>16
        <5> QED BY <5>1, <3>2, <4>2
      <4> QED BY <4>1, <4>2, <2>14
    <3> QED BY <3>1, <3>2, <2>14
  <2>18. TablesOnce(d)
    BY <2>11, <2>12 DEF TablesOnce
  <2>19. \A b \in Blocks : InFree(d, b) <=> InFree(c, b) \/ InTable(c, s, b)
    <3> TAKE b \in Blocks
    <3>1. ASSUME NEW i \in 1..(L + n), d.free[i] = b PROVE InFree(c, b) \/ InTable(c, s, b)
      BY <3>1, <2>1, <2>2, <2>5, <2>14 DEF InFree, InTable
    <3>2. ASSUME NEW i \in 1..L, f[i] = b PROVE InFree(d, b)
      <4>1. i \in 1..(L + n) /\ d.free[i] = b
        BY <3>2, <2>2, <2>5, <2>6, <2>11
      <4> QED BY <4>1, <2>13 DEF InFree
    <3>3. ASSUME NEW i \in 1..n, table[i] = b PROVE InFree(d, b)
      <4>1. L + i \in 1..(L + n) /\ d.free[L + i] = b
        BY <3>3, <2>2, <2>5, <2>6, <2>11
      <4> QED BY <4>1, <2>13 DEF InFree
    <3>4. InFree(c, b) => \E i \in 1..L : f[i] = b
      BY <2>5 DEF InFree
    <3>5. InTable(c, s, b) => \E i \in 1..n : table[i] = b
      BY <2>1, <2>2 DEF InTable
    <3>6. InFree(d, b) => \E i \in 1..(L + n) : d.free[i] = b
      BY <2>13 DEF InFree
    <3> QED BY <3>1, <3>2, <3>3, <3>4, <3>5, <3>6
  <2>20. \A b \in Blocks : (\E x \in DOMAIN d.seqs : InTable(d, x, b)) <=>
                             (\E x \in DOMAIN c.seqs : x # s /\ InTable(c, x, b))
    BY <2>11 DEF InTable
  <2>21. \A b \in Blocks : d.state[b] = IF InTable(c, s, b) THEN "free" ELSE c.state[b]
    <3>1. \A b \in Blocks : InTable(c, s, b) <=> \E i \in 1..n : table[i] = b
      BY <2>1, <2>2 DEF InTable
    <3> QED BY <3>1, <2>6, <2>11
  <2>22. \A b \in Blocks : InTable(c, s, b) => ~ \E x \in DOMAIN c.seqs : x # s /\ InTable(c, x, b)
    BY <1>2, <2>12 DEF TablesOnce, InTable
  <2>23. TagsRight(d)
    <3>1. ASSUME NEW b \in Blocks
          PROVE  /\ d.state[b] = "free" <=> InFree(d, b)
                 /\ d.state[b] = "sequence" <=> \E x \in DOMAIN d.seqs : InTable(d, x, b)
      <4>1. /\ c.state[b] = "free" <=> InFree(c, b)
            /\ c.state[b] = "sequence" <=> \E x \in DOMAIN c.seqs : InTable(c, x, b)
        BY <2>12 DEF TagsRight
      <4>2. CASE InTable(c, s, b)
        BY <4>2, <2>19, <2>20, <2>21, <2>22
      <4>3. CASE ~InTable(c, s, b)
        BY <4>1, <4>3, <2>19, <2>20, <2>21
      <4> QED BY <4>2, <4>3
    <3> QED BY <3>1 DEF TagsRight
  <2> QED BY <2>10, <2>11, <2>17, <2>18, <2>23, PartitionedParts DEF FreedTo
<1> QED BY <1>1, <1>2

\* A new length, or a new empty sequence, moves no block.
LEMMA SameTable ==
  ASSUME NEW c \in Caches, Partitioned(c), NEW s \in SeqIds, NEW q \in SeqRecs,
         q.table = SeqRec(c, s).table
  PROVE  Partitioned(WithSeq(c, s, q))
<1>1. PICK d : d = WithSeq(c, s, q)
  OBVIOUS
<1>2. /\ d \in Caches
      /\ d.free = c.free /\ d.state = c.state
      /\ DOMAIN d.seqs = DOMAIN c.seqs \union {s}
      /\ d.seqs[s] = q
      /\ \A x \in DOMAIN c.seqs : x # s => d.seqs[x] = c.seqs[x]
  BY <1>1, WithSeqFacts
<1>3. TagsRight(c) /\ FreeOnce(c) /\ TablesOnce(c)
  BY PartitionedParts
<1>4. \A x \in DOMAIN c.seqs : d.seqs[x].table = c.seqs[x].table
  BY <1>2 DEF SeqRec
<1>5. s \notin DOMAIN c.seqs => DOMAIN d.seqs[s].table = {}
  BY <1>2 DEF SeqRec, NoSeq
<1>6. \A x \in DOMAIN d.seqs : \A i \in DOMAIN d.seqs[x].table :
        /\ x \in DOMAIN c.seqs /\ i \in DOMAIN c.seqs[x].table
        /\ d.seqs[x].table[i] = c.seqs[x].table[i]
  BY <1>2, <1>4, <1>5
<1>7. TablesOnce(d)
  BY <1>3, <1>6 DEF TablesOnce
<1>8. FreeOnce(d)
  BY <1>2, <1>3 DEF FreeOnce
<1>9. \A b \in Blocks : (\E x \in DOMAIN d.seqs : InTable(d, x, b)) <=>
                          (\E x \in DOMAIN c.seqs : InTable(c, x, b))
  BY <1>2, <1>4, <1>6 DEF InTable
<1>10. TagsRight(d)
  BY <1>2, <1>3, <1>9 DEF TagsRight, InFree
<1> QED BY <1>1, <1>7, <1>8, <1>10, PartitionedParts

\* d is c with a record for s, and the other sequences as they were.
Touched(c, s, d) ==
  /\ d \in Caches /\ Partitioned(d)
  /\ DOMAIN d.seqs = DOMAIN c.seqs \union {s}
  /\ \A x \in DOMAIN c.seqs : x # s => d.seqs[x] = c.seqs[x]

\* The block of a token below n is one of the first BlocksFor(n).
LEMMA BlocksForFacts ==
  ASSUME NEW n \in Nat
  PROVE  /\ BlocksFor(n) \in Nat
         /\ \A p \in Nat : p < n => p \div BlockSize < BlocksFor(n)
<1>1. PICK B \in Nat : B = BlockSize /\ B >= 1
  BY KVAssumption
<1>2. PICK k \in Nat : k = (n + B - 1) \div B
  BY <1>1
<1>3. n <= B * k
  <2>1. PICK r \in Nat : n + B - 1 = B * k + r /\ r < B
    <3>1. /\ (n + B - 1) % B \in Nat /\ (n + B - 1) % B < B
          /\ n + B - 1 = B * ((n + B - 1) \div B) + ((n + B - 1) % B)
      BY <1>1
    <3> QED BY <3>1, <1>2
  <2>2. B * k \in Nat
    OBVIOUS
  <2> QED BY <2>1, <2>2, <1>1
<1>4. ASSUME NEW p \in Nat, p < n PROVE p \div B < k
  <2>1. PICK h \in Nat : h = p \div B /\ B * h <= p
    BY <1>1
  <2> SUFFICES ASSUME h >= k PROVE FALSE
    BY <2>1
  <2>2. B * k <= B * h
    <3>1. k * B \in Nat /\ h * B \in Nat /\ k * B <= h * B
      BY TimesMonotone
    <3>2. k * B = B * k /\ h * B = B * h
      OBVIOUS
    <3> QED BY <3>1, <3>2
  <2>3. B * k \in Nat /\ B * h \in Nat
    OBVIOUS
  <2> QED BY <1>3, <2>1, <2>2, <2>3, <1>4
<1> QED BY <1>1, <1>2, <1>4 DEF BlocksFor

\* reserveSequenceCapacity, when it succeeds.
LEMMA ReservedFacts ==
  ASSUME NEW c \in Caches, Partitioned(c), NEW s \in SeqIds, NEW n \in Nat, CanReserve(c, s, n),
         NEW d, d = Reserved(c, s, n)
  PROVE  /\ Touched(c, s, d)
         /\ d.seqs[s].length = SeqRec(c, s).length
         /\ s \notin DOMAIN c.seqs => Len(d.seqs[s].table) = BlocksFor(n)
<1>1. PICK M \in Nat : M = Len(SeqRec(c, s).table)
  BY SeqRecFacts
<1>2. PICK N \in Nat : N = BlocksFor(n)
  BY BlocksForFacts
<1>3. PICK L \in Nat : L = Len(c.free) /\ N <= M + L
  <2>1. Len(c.free) \in Nat
    BY CacheFacts
  <2> QED BY <2>1, <1>1, <1>2 DEF CanReserve, FreeBlocks
<1>4. s \notin DOMAIN c.seqs => M = 0
  BY <1>1 DEF SeqRec, NoSeq
<1>5. CASE N <= M
  <2>1. d = WithSeq(c, s, SeqRec(c, s))
    BY <1>1, <1>2, <1>5 DEF Reserved
  <2>2. SeqRec(c, s) \in SeqRecs
    BY SeqRecFacts
  <2>3. /\ d \in Caches
        /\ DOMAIN d.seqs = DOMAIN c.seqs \union {s}
        /\ d.seqs[s] = SeqRec(c, s)
        /\ \A x \in DOMAIN c.seqs : x # s => d.seqs[x] = c.seqs[x]
    BY <2>1, <2>2, WithSeqFacts
  <2>4. Partitioned(d)
    BY <2>1, <2>2, SameTable
  <2>5. s \notin DOMAIN c.seqs => Len(d.seqs[s].table) = N
    BY <2>3, <1>1, <1>4, <1>5
  <2> QED BY <2>3, <2>4, <2>5, <1>2 DEF Touched
<1>6. CASE N > M
  <2>1. PICK m \in Nat : m = N - M /\ m <= L
    BY <1>3, <1>6
  <2>2. d = Taken(c, s, m)
    BY <2>1, <1>1, <1>2, <1>6 DEF Reserved
  <2>3. TakenTo(c, s, m, d)
    BY <2>1, <2>2, <1>3, TakenFacts
  <2>4. Partitioned(d)
    BY <2>1, <2>2, <1>3, TakenPartitioned
  <2>5. Len(d.seqs[s].table) = N
    BY <2>1, <2>3, <1>1 DEF TakenTo
  <2> QED BY <2>3, <2>4, <2>5, <1>2 DEF Touched, TakenTo
<1> QED BY <1>5, <1>6

\* appendToken; a token that fits takes no block.
LEMMA AppendedFacts ==
  ASSUME NEW c \in Caches, Partitioned(c), NEW s \in SeqIds, NEW d, d = Appended(c, s)
  PROVE  /\ Touched(c, s, d)
         /\ ~Full(c, s) => /\ d.seqs[s].length = SeqRec(c, s).length + 1
                           /\ d.seqs[s].table = SeqRec(c, s).table
<1>0. SeqRec(c, s) \in SeqRecs
  BY SeqRecFacts
<1>1. CASE ~CanAppend(c, s)
  <2>1. d = WithSeq(c, s, SeqRec(c, s)) /\ Full(c, s)
    BY <1>1 DEF Appended, CanAppend
  <2>2. Partitioned(d)
    BY <2>1, <1>0, SameTable
  <2> QED BY <2>1, <2>2, <1>0, WithSeqFacts DEF Touched
<1>2. CASE CanAppend(c, s)
  <2>1. PICK e : e = IF Full(c, s) THEN Taken(c, s, 1) ELSE c
    OBVIOUS
  <2>2. /\ e \in Caches /\ Partitioned(e)
        /\ DOMAIN e.seqs \union {s} = DOMAIN c.seqs \union {s}
        /\ \A x \in DOMAIN c.seqs : x # s => x \in DOMAIN e.seqs /\ e.seqs[x] = c.seqs[x]
    <3>1. CASE Full(c, s)
      <4>1. Len(c.free) \in Nat /\ 1 <= Len(c.free)
        BY <1>2, <3>1, CacheFacts DEF CanAppend, FreeBlocks
      <4>2. TakenTo(c, s, 1, e)
        BY <2>1, <3>1, <4>1, TakenFacts
      <4>3. Partitioned(e)
        BY <2>1, <3>1, <4>1, TakenPartitioned
      <4> QED BY <4>2, <4>3 DEF TakenTo
    <3>2. CASE ~Full(c, s)
      BY <2>1, <3>2
    <3> QED BY <3>1, <3>2
  <2>3. PICK q \in SeqRecs : q = [SeqRec(e, s) EXCEPT !.length = @ + 1]
    <3>1. SeqRec(e, s) \in SeqRecs
      BY <2>2, SeqRecFacts
    <3>2. [SeqRec(e, s) EXCEPT !.length = @ + 1] \in SeqRecs
      BY <3>1 DEF SeqRecs
    <3> QED BY <3>2
  <2>4. q.table = SeqRec(e, s).table /\ q.length = SeqRec(e, s).length + 1
    <3>1. SeqRec(e, s) \in SeqRecs
      BY <2>2, SeqRecFacts
    <3> QED BY <3>1, <2>3 DEF SeqRecs
  <2>5. d = WithSeq(e, s, q)
    BY <1>2, <2>1, <2>3 DEF Appended
  <2>6. Partitioned(d)
    BY <2>2, <2>4, <2>5, SameTable
  <2>7. /\ d \in Caches
        /\ DOMAIN d.seqs = DOMAIN e.seqs \union {s}
        /\ d.seqs[s] = q
        /\ \A x \in DOMAIN e.seqs : x # s => d.seqs[x] = e.seqs[x]
    BY <2>2, <2>5, WithSeqFacts
  <2>8. Touched(c, s, d)
    BY <2>2, <2>6, <2>7 DEF Touched
  <2>9. ~Full(c, s) => e = c
    BY <2>1
  <2> QED BY <2>4, <2>7, <2>8, <2>9
<1> QED BY <1>1, <1>2

-----------------------------------------------------------------------------
(* Sequences without one of their elements *)

\* The position in a sequence of what is at j once the element at i is removed.
Skip(i, j) == IF j < i THEN j ELSE j + 1

\* What is left when the element at i is removed.
LEMMA RemoveFacts ==
  ASSUME NEW S, NEW f \in Seq(S), NEW i \in DOMAIN f, NEW g, g = RemoveAt(f, i)
  PROVE  /\ g \in Seq(S)
         /\ \A j \in DOMAIN g : Skip(i, j) \in DOMAIN f /\ Skip(i, j) # i /\ g[j] = f[Skip(i, j)]
         /\ \A j, k \in DOMAIN g : (j < k => Skip(i, j) < Skip(i, k)) /\ (Skip(i, j) = Skip(i, k) => j = k)
         /\ \A k \in DOMAIN f : k # i => \E j \in DOMAIN g : g[j] = f[k]
<1>1. PICK n \in Nat : n = Len(f) /\ DOMAIN f = 1..n /\ i \in 1..n
  OBVIOUS
<1>2. PICK a \in Seq(S) : a = SubSeq(f, 1, i - 1) /\ Len(a) = i - 1 /\ \A j \in 1..(i - 1) : a[j] = f[j]
  <2>1. SubSeq(f, 1, i - 1) \in Seq(S) /\ Len(SubSeq(f, 1, i - 1)) = i - 1
    BY <1>1
  <2>2. \A j \in 1..(i - 1) : SubSeq(f, 1, i - 1)[j] = f[j]
    BY <1>1
  <2> QED BY <2>1, <2>2
<1>3. PICK b \in Seq(S) : b = SubSeq(f, i + 1, n) /\ Len(b) = n - i
                           /\ \A j \in 1..(n - i) : b[j] = f[i + j]
  <2>1. SubSeq(f, i + 1, n) \in Seq(S) /\ Len(SubSeq(f, i + 1, n)) = n - i
    BY <1>1
  <2>2. \A j \in 1..(n - i) : SubSeq(f, i + 1, n)[j] = f[i + j]
    BY <1>1
  <2> QED BY <2>1, <2>2
<1>4. g = a \o b
  BY <1>1, <1>2, <1>3 DEF RemoveAt
<1>4a. /\ a \o b \in Seq(S) /\ Len(a \o b) = Len(a) + Len(b)
       /\ DOMAIN (a \o b) = 1..(Len(a) + Len(b))
       /\ \A k \in 1..Len(b) : (a \o b)[Len(a) + k] = b[k]
  OBVIOUS
<1>5. g \in Seq(S) /\ Len(g) = n - 1 /\ DOMAIN g = 1..(n - 1)
  <2>1. (i - 1) + (n - i) = n - 1
    BY <1>1
  <2> QED BY <2>1, <1>2, <1>3, <1>4, <1>4a
<1>6. ASSUME NEW j \in 1..(n - 1)
      PROVE  Skip(i, j) \in 1..n /\ Skip(i, j) # i /\ g[j] = f[Skip(i, j)]
  <2>1. CASE j < i
    <3>1. j \in 1..(i - 1) /\ Skip(i, j) = j
      BY <2>1, <1>1 DEF Skip
    <3>2. g[j] = a[j]
      BY <3>1, <1>2, <1>3, <1>4
    <3> QED BY <3>1, <3>2, <2>1, <1>1, <1>2
  <2>2. CASE ~(j < i)
    <3>1. PICK k \in Nat : j = (i - 1) + k /\ k \in 1..(n - i)
      <4>1. j - (i - 1) \in Nat /\ j = (i - 1) + (j - (i - 1)) /\ j - (i - 1) \in 1..(n - i)
        BY <2>2, <1>1
      <4> QED BY <4>1
    <3>2. g[j] = b[k]
      BY <3>1, <1>2, <1>3, <1>4, <1>4a
    <3>3. Skip(i, j) = i + k
      BY <2>2, <3>1, <1>1 DEF Skip
    <3> QED BY <3>1, <3>2, <3>3, <1>1, <1>3
  <2> QED BY <2>1, <2>2
<1>7. \A j, k \in 1..(n - 1) : (j < k => Skip(i, j) < Skip(i, k)) /\ (Skip(i, j) = Skip(i, k) => j = k)
  BY <1>1 DEF Skip
<1>8. ASSUME NEW k \in 1..n, k # i PROVE \E j \in 1..(n - 1) : g[j] = f[k]
  <2>1. CASE k < i
    <3>1. k \in 1..(n - 1) /\ Skip(i, k) = k
      BY <2>1, <1>1 DEF Skip
    <3> QED BY <3>1, <1>6
  <2>2. CASE k > i
    <3>1. k - 1 \in 1..(n - 1) /\ Skip(i, k - 1) = k
      BY <2>2, <1>1 DEF Skip
    <3> QED BY <3>1, <1>6
  <2> QED BY <2>1, <2>2, <1>8, <1>1
<1> QED BY <1>1, <1>5, <1>6, <1>7, <1>8

-----------------------------------------------------------------------------
(* What the buckets keep *)

\* A bucket with a request at its end, and one without its i-th request.
WithEntry(bs, b, r) == [bs EXCEPT ![b] = Append(@, r)]
WithoutEntry(bs, b, i) == [bs EXCEPT ![b] = RemoveAt(@, i)]

\* A bucket loses one of its entries.
LEMMA FewerEntries ==
  ASSUME NEW bs, NEW n \in Nat, BucketsRight(bs, n), NEW b \in BucketIds,
         NEW i \in DOMAIN bs[b], NEW cs, cs = WithoutEntry(bs, b, i)
  PROVE  BucketsRight(cs, n) /\ \A a \in BucketIds : a # b => cs[a] = bs[a]
<1>1. PICK f \in Seq(Entries) : f = bs[b]
  BY DEF BucketsRight
<1>2. PICK g : g = RemoveAt(f, i)
  OBVIOUS
<1>3. /\ g \in Seq(Entries)
      /\ \A j \in DOMAIN g : Skip(i, j) \in DOMAIN f /\ g[j] = f[Skip(i, j)]
      /\ \A j, k \in DOMAIN g : j < k => Skip(i, j) < Skip(i, k)
  BY <1>1, <1>2, RemoveFacts
<1>4. /\ cs \in [BucketIds -> Seq(Entries)] /\ cs[b] = g
      /\ \A a \in BucketIds : a # b => cs[a] = bs[a]
  BY <1>1, <1>2, <1>3 DEF BucketsRight, WithoutEntry
<1>5. ASSUME NEW a \in BucketIds, NEW j \in DOMAIN cs[a]
      PROVE  BlocksFor(Capacity(cs[a][j])) = a /\ cs[a][j].order < n
  <2>1. CASE a # b
    <3>1. cs[a] = bs[a]
      BY <2>1, <1>4
    <3> QED BY <3>1 DEF BucketsRight
  <2>2. CASE a = b
    <3>1. PICK k \in DOMAIN bs[b] : cs[a][j] = bs[b][k]
      BY <2>2, <1>1, <1>3, <1>4
    <3> QED BY <3>1, <2>2 DEF BucketsRight
  <2> QED BY <2>1, <2>2
<1>6. ASSUME NEW a \in BucketIds, NEW j \in DOMAIN cs[a], NEW k \in DOMAIN cs[a], j < k
      PROVE  cs[a][j].order < cs[a][k].order
  <2>1. CASE a # b
    <3>1. cs[a] = bs[a]
      BY <2>1, <1>4
    <3> QED BY <3>1, <1>6 DEF BucketsRight
  <2>2. CASE a = b
    <3>1. PICK x \in DOMAIN bs[b], y \in DOMAIN bs[b] : cs[a][j] = bs[b][x] /\ cs[a][k] = bs[b][y] /\ x < y
      BY <2>2, <1>1, <1>3, <1>4, <1>6
    <3> QED BY <3>1 DEF BucketsRight
  <2> QED BY <2>1, <2>2
<1> QED BY <1>4, <1>5, <1>6 DEF BucketsRight

\* Popping the head is removing the first element.
LEMMA TailIsRemove ==
  ASSUME NEW S, NEW f \in Seq(S), f # <<>>
  PROVE  Tail(f) = RemoveAt(f, 1) /\ 1 \in DOMAIN f
<1>1. 1 \in DOMAIN f
  OBVIOUS
<1>2. SubSeq(f, 1, 0) = <<>>
  OBVIOUS
<1>3. PICK n \in Nat : n = Len(f) /\ n >= 1
  BY <1>1
<1>4. Tail(f) = SubSeq(f, 2, n)
  BY <1>3
<1>5. SubSeq(f, 2, n) \in Seq(S)
  BY <1>3
<1>6. <<>> \o SubSeq(f, 2, n) = SubSeq(f, 2, n)
  BY <1>5
<1> QED BY <1>1, <1>2, <1>3, <1>4, <1>6 DEF RemoveAt

\* The youngest entry joins its bucket.
LEMMA OneMoreEntry ==
  ASSUME NEW bs, NEW n \in Nat, BucketsRight(bs, n), NEW r \in Entries, r.order = n,
         NEW b \in BucketIds, BlocksFor(Capacity(r)) = b,
         NEW cs, cs = WithEntry(bs, b, r)
  PROVE  BucketsRight(cs, n + 1) /\ \A a \in BucketIds : a # b => cs[a] = bs[a]
<1>1. PICK f \in Seq(Entries), L \in Nat : f = bs[b] /\ L = Len(f) /\ DOMAIN f = 1..L
  <2>1. bs[b] \in Seq(Entries)
    BY DEF BucketsRight
  <2> QED BY <2>1
<1>2. PICK g \in Seq(Entries) : g = Append(f, r)
  <2>1. Append(f, r) \in Seq(Entries)
    OBVIOUS
  <2> QED BY <2>1
<1>3. DOMAIN g = 1..(L + 1) /\ g[L + 1] = r /\ \A j \in 1..L : g[j] = f[j]
  BY <1>1, <1>2
<1>4. \A j \in 1..(L + 1) : j = L + 1 \/ j \in 1..L
  BY <1>1
<1>5. /\ cs \in [BucketIds -> Seq(Entries)] /\ cs[b] = g
      /\ \A a \in BucketIds : a # b => cs[a] = bs[a]
  BY <1>1, <1>2 DEF BucketsRight, WithEntry
<1>6. \A a \in BucketIds : \A j \in DOMAIN bs[a] :
        bs[a][j].order \in Nat /\ bs[a][j].order < n /\ BlocksFor(Capacity(bs[a][j])) = a
  <2> TAKE a \in BucketIds
  <2> TAKE j \in DOMAIN bs[a]
  <2>1. bs[a] \in Seq(Entries)
    BY DEF BucketsRight
  <2>2. bs[a][j] \in Entries
    BY <2>1
  <2> QED BY <2>2 DEF BucketsRight, Entries
<1>7. ASSUME NEW a \in BucketIds, NEW j \in DOMAIN cs[a]
      PROVE  BlocksFor(Capacity(cs[a][j])) = a /\ cs[a][j].order < n + 1
  <2>1. CASE a # b
    BY <2>1, <1>5, <1>6
  <2>2. CASE a = b /\ j = L + 1
    BY <2>2, <1>3, <1>5
  <2>3. CASE a = b /\ j \in 1..L
    <3>1. cs[a][j] = bs[b][j] /\ j \in DOMAIN bs[b]
      BY <2>3, <1>1, <1>3, <1>5
    <3>2. PICK o \in Nat : o = bs[b][j].order /\ o < n
      BY <3>1, <1>6
    <3> QED BY <2>3, <3>1, <3>2, <1>6
  <2> QED BY <2>1, <2>2, <2>3, <1>3, <1>4, <1>5
<1>8. ASSUME NEW a \in BucketIds, NEW j \in DOMAIN cs[a], NEW k \in DOMAIN cs[a], j < k
      PROVE  cs[a][j].order < cs[a][k].order
  <2>1. CASE a # b
    BY <2>1, <1>5, <1>8 DEF BucketsRight
  <2>2. CASE a = b
    <3>1. j \in 1..L
      BY <2>2, <1>1, <1>3, <1>4, <1>5, <1>8
    <3>2. CASE k = L + 1
      BY <3>1, <3>2, <2>2, <1>1, <1>3, <1>5, <1>6
    <3>3. CASE k \in 1..L
      <4>1. f[j].order < f[k].order
        BY <3>1, <3>3, <1>1, <1>8 DEF BucketsRight
      <4> QED BY <4>1, <3>1, <3>3, <2>2, <1>3, <1>5
    <3> QED BY <3>2, <3>3, <2>2, <1>3, <1>4, <1>5
  <2> QED BY <2>1, <2>2
<1> QED BY <1>5, <1>7, <1>8 DEF BucketsRight

-----------------------------------------------------------------------------
(* The batch and the sequences of the cache *)

\* The requests that may run.
Runners == [id : SeqIds, shape : Nat \X Nat, generated : Nat]

\* r's sequence holds its prompt and what it generated, in all the blocks it needs.
Holds(c, r) ==
  /\ r.id \in DOMAIN c.seqs
  /\ c.seqs[r.id].length = r.shape[1] + r.generated
  /\ Len(c.seqs[r.id].table) = BlocksFor(Capacity(r))

\* The sequences of the cache c are those of the batch run, the caller's own, out,
\* and the one being prefilled, in extra; no two of these share one.
HoldsAll(c, run) == \A i \in DOMAIN run : Holds(c, run[i])
Apart(c, run, out, extra) ==
  /\ \A i, j \in DOMAIN run : run[i].id = run[j].id => i = j
  /\ \A i \in DOMAIN run : run[i].id \notin out /\ run[i].id \notin extra
  /\ out \subseteq DOMAIN c.seqs /\ extra \subseteq DOMAIN c.seqs
  /\ \A x \in out : x \notin extra
Owned(c, run, out, extra) ==
  \A x \in DOMAIN c.seqs : x \in out \/ x \in extra \/ \E i \in DOMAIN run : run[i].id = x
RoomFor(c, run, out, extra) ==
  HoldsAll(c, run) /\ Apart(c, run, out, extra) /\ Owned(c, run, out, extra)

\* Only the sequences count.
LEMMA RoomSameSequences ==
  ASSUME NEW c, NEW d, NEW run, NEW out, NEW extra, RoomFor(c, run, out, extra), d.seqs = c.seqs
  PROVE  RoomFor(d, run, out, extra)
BY DEF RoomFor, HoldsAll, Holds, Apart, Owned

\* A request of the batch leaves, with its sequence.
LEMMA RoomWithoutOne ==
  ASSUME NEW c, NEW d, NEW run \in Seq(Runners), NEW out, NEW extra, RoomFor(c, run, out, extra),
         NEW i \in DOMAIN run, FreedTo(c, run[i].id, d)
  PROVE  RoomFor(d, RemoveAt(run, i), out, extra)
<1>1. PICK g : g = RemoveAt(run, i)
  OBVIOUS
<1>2. /\ g \in Seq(Runners)
      /\ \A j \in DOMAIN g : Skip(i, j) \in DOMAIN run /\ Skip(i, j) # i /\ g[j] = run[Skip(i, j)]
      /\ \A j, k \in DOMAIN g : Skip(i, j) = Skip(i, k) => j = k
      /\ \A k \in DOMAIN run : k # i => \E j \in DOMAIN g : g[j] = run[k]
  BY <1>1, RemoveFacts
<1>3. /\ DOMAIN d.seqs = DOMAIN c.seqs \ {run[i].id}
      /\ \A x \in DOMAIN d.seqs : d.seqs[x] = c.seqs[x]
  BY DEF FreedTo
<1>4. \A j \in DOMAIN run : j # i => run[j].id # run[i].id
  BY DEF RoomFor, Apart
<1>5. HoldsAll(d, g)
  <2>1. ASSUME NEW j \in DOMAIN g PROVE Holds(d, g[j])
    <3>1. PICK k \in DOMAIN run : k # i /\ g[j] = run[k]
      BY <1>2
    <3>2. Holds(c, run[k]) /\ run[k].id # run[i].id
      BY <3>1, <1>4 DEF RoomFor, HoldsAll
    <3> QED BY <3>1, <3>2, <1>3 DEF Holds
  <2> QED BY <2>1 DEF HoldsAll
<1>6. Apart(d, g, out, extra)
  <2>1. ASSUME NEW j \in DOMAIN g, NEW k \in DOMAIN g, g[j].id = g[k].id PROVE j = k
    <3>1. Skip(i, j) = Skip(i, k)
      BY <2>1, <1>2 DEF RoomFor, Apart
    <3> QED BY <3>1, <1>2
  <2>2. \A j \in DOMAIN g : g[j].id \notin out /\ g[j].id \notin extra
    BY <1>2 DEF RoomFor, Apart
  <2>3. out \subseteq DOMAIN d.seqs /\ extra \subseteq DOMAIN d.seqs
    BY <1>3 DEF RoomFor, Apart
  <2> QED BY <2>1, <2>2, <2>3 DEF RoomFor, Apart
<1>7. Owned(d, g, out, extra)
  <2>1. ASSUME NEW x \in DOMAIN d.seqs, x \notin out, x \notin extra PROVE \E j \in DOMAIN g : g[j].id = x
    <3>1. x \in DOMAIN c.seqs /\ x # run[i].id
      BY <1>3
    <3>2. PICK k \in DOMAIN run : run[k].id = x
      BY <2>1, <3>1 DEF RoomFor, Owned
    <3>3. k # i
      BY <3>1, <3>2
    <3> QED BY <3>2, <3>3, <1>2
  <2> QED BY <2>1 DEF Owned
<1> QED BY <1>1, <1>5, <1>6, <1>7 DEF RoomFor

\* A sequence that no request of the batch has is freed.
LEMMA RoomFreed ==
  ASSUME NEW c, NEW d, NEW run, NEW out, NEW extra, NEW out2, NEW extra2, NEW s,
         RoomFor(c, run, out, extra), FreedTo(c, s, d),
         s \in out \/ s \in extra, out2 = out \ {s}, extra2 = extra \ {s}
  PROVE  RoomFor(d, run, out2, extra2)
<1>1. /\ DOMAIN d.seqs = DOMAIN c.seqs \ {s}
      /\ \A x \in DOMAIN d.seqs : d.seqs[x] = c.seqs[x]
  BY DEF FreedTo
<1>2. \A i \in DOMAIN run : run[i].id # s
  BY DEF RoomFor, Apart
<1>3. HoldsAll(d, run)
  BY <1>1, <1>2 DEF RoomFor, HoldsAll, Holds
<1>4. Apart(d, run, out2, extra2)
  BY <1>1 DEF RoomFor, Apart
<1>5. Owned(d, run, out2, extra2)
  BY <1>1 DEF RoomFor, Owned
<1> QED BY <1>3, <1>4, <1>5 DEF RoomFor

\* A new sequence, the caller's or the one of the request being admitted.
LEMMA RoomNew ==
  ASSUME NEW c, NEW d, NEW run, NEW out, NEW extra, NEW out2, NEW extra2, NEW s,
         RoomFor(c, run, out, extra), Touched(c, s, d), s \notin DOMAIN c.seqs,
         \/ out2 = out \union {s} /\ extra2 = extra
         \/ out2 = out /\ extra2 = extra \union {s}
  PROVE  RoomFor(d, run, out2, extra2)
<1>1. /\ DOMAIN d.seqs = DOMAIN c.seqs \union {s}
      /\ \A x \in DOMAIN c.seqs : d.seqs[x] = c.seqs[x]
  BY DEF Touched
<1>2. \A i \in DOMAIN run : run[i].id # s
  BY DEF RoomFor, HoldsAll, Holds
<1>3. HoldsAll(d, run)
  BY <1>1, <1>2 DEF RoomFor, HoldsAll, Holds
<1>4. Apart(d, run, out2, extra2)
  BY <1>1, <1>2 DEF RoomFor, Apart
<1>5. Owned(d, run, out2, extra2)
  BY <1>1 DEF RoomFor, Owned
<1> QED BY <1>3, <1>4, <1>5 DEF RoomFor

\* A token for the sequence being prefilled.
LEMMA RoomPrefilled ==
  ASSUME NEW c, NEW d, NEW run, NEW out, NEW extra, NEW s,
         RoomFor(c, run, out, extra), Touched(c, s, d), s \in extra
  PROVE  RoomFor(d, run, out, extra)
<1>1. /\ DOMAIN d.seqs = DOMAIN c.seqs
      /\ \A x \in DOMAIN c.seqs : x # s => d.seqs[x] = c.seqs[x]
  BY DEF Touched, RoomFor, Apart
<1>2. \A i \in DOMAIN run : run[i].id # s
  BY DEF RoomFor, Apart
<1>3. HoldsAll(d, run)
  BY <1>1, <1>2 DEF RoomFor, HoldsAll, Holds
<1>4. Apart(d, run, out, extra)
  BY <1>1 DEF RoomFor, Apart
<1>5. Owned(d, run, out, extra)
  BY <1>1 DEF RoomFor, Owned
<1> QED BY <1>3, <1>4, <1>5 DEF RoomFor

\* The request that was prefilled joins the batch.
LEMMA RoomAdmitted ==
  ASSUME NEW d, NEW run \in Seq(Runners), NEW out, NEW r \in Runners,
         RoomFor(d, run, out, {r.id}), Holds(d, r)
  PROVE  RoomFor(d, Append(run, r), out, {})
<1>1. PICK L \in Nat : L = Len(run) /\ DOMAIN run = 1..L
  OBVIOUS
<1>2. PICK g : g = Append(run, r)
  OBVIOUS
<1>3. DOMAIN g = 1..(L + 1) /\ g[L + 1] = r /\ \A i \in 1..L : g[i] = run[i]
  BY <1>1, <1>2
<1>4. \A i \in 1..(L + 1) : i = L + 1 \/ i \in 1..L
  BY <1>1
<1>5. L + 1 \in 1..(L + 1) /\ \A i \in 1..L : i \in 1..(L + 1)
  BY <1>1
<1>6. HoldsAll(d, g)
  BY <1>1, <1>3, <1>4 DEF RoomFor, HoldsAll
<1>7. Apart(d, g, out, {})
  <2>1. ASSUME NEW i \in 1..(L + 1), NEW j \in 1..(L + 1), g[i].id = g[j].id PROVE i = j
    <3>1. CASE i = L + 1 \/ j = L + 1
      BY <3>1, <2>1, <1>1, <1>3, <1>4 DEF RoomFor, Apart
    <3>2. CASE i \in 1..L /\ j \in 1..L
      BY <3>2, <2>1, <1>1, <1>3 DEF RoomFor, Apart
    <3> QED BY <3>1, <3>2, <1>4
  <2>2. \A i \in 1..(L + 1) : g[i].id \notin out
    BY <1>1, <1>3, <1>4 DEF RoomFor, Apart
  <2> QED BY <2>1, <2>2, <1>3 DEF RoomFor, Apart
<1>8. Owned(d, g, out, {})
  BY <1>1, <1>3, <1>5 DEF RoomFor, Owned
<1> QED BY <1>2, <1>6, <1>7, <1>8 DEF RoomFor

\* A token for a request of the batch.
LEMMA RoomDecoded ==
  ASSUME NEW c, NEW d, NEW run \in Seq(Runners), NEW out, NEW extra, RoomFor(c, run, out, extra),
         NEW i \in DOMAIN run, Touched(c, run[i].id, d),
         NEW g, g = [run EXCEPT ![i].generated = @ + 1], Holds(d, g[i])
  PROVE  g \in Seq(Runners) /\ RoomFor(d, g, out, extra)
<1>1. PICK L \in Nat : L = Len(run) /\ DOMAIN run = 1..L
  OBVIOUS
<1>2. PICK x \in Runners : x = run[i]
  OBVIOUS
<1>3. PICK r \in Runners : r = [run[i] EXCEPT !.generated = @ + 1] /\ r.id = run[i].id
  <2>1. PICK n \in Nat : n = x.generated + 1
    BY DEF Runners
  <2>2. [x EXCEPT !.generated = n] = [id |-> x.id, shape |-> x.shape, generated |-> n]
    <3>1. PICK a, b, m : x = [id |-> a, shape |-> b, generated |-> m]
      BY DEF Runners
    <3> QED BY <3>1
  <2>3. [id |-> x.id, shape |-> x.shape, generated |-> n] \in Runners
    BY DEF Runners
  <2> QED BY <2>1, <2>2, <2>3, <1>2
<1>4. g = [run EXCEPT ![i] = r]
  BY <1>3
<1>5. g \in Seq(Runners) /\ DOMAIN g = DOMAIN run /\ g[i] = r /\ \A j \in DOMAIN run : j # i => g[j] = run[j]
  BY <1>1, <1>4
<1>6. \A j \in DOMAIN run : g[j].id = run[j].id
  BY <1>3, <1>5
<1>7. /\ DOMAIN d.seqs = DOMAIN c.seqs
      /\ \A y \in DOMAIN c.seqs : y # run[i].id => d.seqs[y] = c.seqs[y]
  BY DEF Touched, RoomFor, HoldsAll, Holds
<1>8. HoldsAll(d, g)
  <2>1. ASSUME NEW j \in DOMAIN g PROVE Holds(d, g[j])
    <3>1. CASE j = i
      BY <3>1
    <3>2. CASE j # i
      <4>1. g[j] = run[j] /\ run[j].id # run[i].id /\ Holds(c, run[j])
        BY <3>2, <1>5 DEF RoomFor, Apart, HoldsAll
      <4> QED BY <4>1, <1>7 DEF Holds
    <3> QED BY <3>1, <3>2
  <2> QED BY <2>1 DEF HoldsAll
<1>9. Apart(d, g, out, extra)
  BY <1>5, <1>6, <1>7 DEF RoomFor, Apart
<1>10. Owned(d, g, out, extra)
  BY <1>5, <1>6, <1>7 DEF RoomFor, Owned
<1> QED BY <1>5, <1>8, <1>9, <1>10 DEF RoomFor

-----------------------------------------------------------------------------
(* The invariant of the scheduler *)

\* The types.
BatchTypes ==
  /\ kv \in Caches
  /\ nextOrder \in Nat /\ orderLimit \in Nat /\ position \in Nat
  /\ running \in Seq(Runners)

\* The index: buckets in order, and the tree over them.
IndexInv == BucketsRight(buckets, nextOrder) /\ TreeRight(tree, buckets)

\* The sequence that belongs to no one yet but the request being admitted.
Prefilling == IF phase = "prefill" THEN {request.id} ELSE {}
RoomInv == RoomFor(kv, running, outside, Prefilling)

\* The request being admitted has its blocks and waits where it will be removed.
PrefillInv ==
  phase = "prefill" =>
    /\ request \in Entries /\ position < request.shape[1]
    /\ kv.seqs[request.id].length = position
    /\ Len(kv.seqs[request.id].table) = BlocksFor(Capacity(request))
    /\ BlocksFor(Capacity(request)) \in BucketIds
    /\ buckets[BlocksFor(Capacity(request))] # <<>>

\* The executor is asked for a token of a request that is not finished.
DecodeInv == phase = "decode" => position \in DOMAIN running /\ Unfinished(running[position])

\* The inductive invariant.  The three properties are about the cache, the index and
\* the batch; none is inductive without what the index holds and without the request
\* between its reservation and its last prompt token.
BatchInv ==
  /\ BatchTypes
  /\ IndexInv
  /\ BlocksPartitioned
  /\ RoomInv
  /\ PrefillInv
  /\ DecodeInv
  /\ lastError # "CACHE_APPEND_FAILURE"

\* A step that leaves the index alone.
LEMMA SameIndex ==
  ASSUME IndexInv, UNCHANGED <<buckets, tree, nextOrder>>
  PROVE  IndexInv'
BY DEF IndexInv

\* One bucket changes, and the tree is brought up to date.
LEMMA NewIndex ==
  ASSUME IndexInv, NEW b \in BucketIds, NEW bs, NEW n \in Nat, BucketsRight(bs, n),
         \A a \in BucketIds : a # b => bs[a] = buckets[a],
         buckets' = bs, tree' = Updated(tree, bs, b), nextOrder' = n
  PROVE  IndexInv'
<1>1. TreeRight(tree, buckets)
  BY DEF IndexInv
<1>2. PICK old : old = buckets
  OBVIOUS
<1>3. PICK t : t = tree
  OBVIOUS
<1>4. TreeRight(Updated(t, bs, b), bs)
  BY <1>1, <1>2, <1>3, UpdatedRight
<1>5. PICK u : u = Updated(t, bs, b)
  OBVIOUS
<1>6. tree' = u /\ TreeRight(u, bs)
  BY <1>3, <1>4, <1>5
<1> QED BY <1>6 DEF IndexInv

\* A step that touches neither the cache, the index nor the batch.
LEMMA QuietStep ==
  ASSUME BatchInv, UNCHANGED <<kv, buckets, tree, nextOrder, running, outside>>,
         position' \in Nat, orderLimit' \in Nat, lastError' # "CACHE_APPEND_FAILURE",
         \/ UNCHANGED <<phase, request, position>>
         \/ phase # "prefill" /\ phase' # "prefill" /\ DecodeInv'
  PROVE  BatchInv'
<1>1. BatchTypes'
  BY DEF BatchInv, BatchTypes
<1>2. IndexInv'
  BY SameIndex DEF BatchInv
<1>3. BlocksPartitioned'
  BY DEF BatchInv, BlocksPartitioned
<1>4. RoomInv'
  <2>1. Prefilling' = Prefilling
    BY DEF Prefilling
  <2> QED BY <2>1 DEF BatchInv, RoomInv
<1>5. PrefillInv'
  BY DEF BatchInv, PrefillInv
<1>6. DecodeInv'
  BY DEF BatchInv, DecodeInv
<1> QED BY <1>1, <1>2, <1>3, <1>4, <1>5, <1>6 DEF BatchInv

\* Nothing waits, nothing runs and every block is free.
LEMMA BatchInitInv ==
  ASSUME BatchInit
  PROVE  BatchInv
<1> USE BaseFacts
<1>0. TotalBlocks \in Nat
  BY KVAssumption
<1>1. kv = [free  |-> [i \in 1..TotalBlocks |-> TotalBlocks - i],
            state |-> [b \in Blocks |-> "free"],
            seqs  |-> [s \in {} |-> NoSeq]]
  BY DEF BatchInit, KVInit
<1>2. /\ kv.free = [i \in 1..TotalBlocks |-> TotalBlocks - i]
      /\ kv.state = [b \in Blocks |-> "free"]
      /\ kv.seqs = [s \in {} |-> NoSeq]
  BY <1>1
<1>3. \A i \in 1..TotalBlocks : TotalBlocks - i \in Blocks
  BY <1>0 DEF Blocks
<1>4. kv.free \in Seq(Blocks) /\ DOMAIN kv.free = 1..TotalBlocks
      /\ \A i \in 1..TotalBlocks : kv.free[i] = TotalBlocks - i
  BY <1>0, <1>2, <1>3
<1>5. kv.seqs \in SeqMaps /\ DOMAIN kv.seqs = {}
  <2>1. {} \in SUBSET SeqIds /\ [s \in {} |-> NoSeq] \in [{} -> SeqRecs]
    OBVIOUS
  <2> QED BY <2>1, <1>2, SeqMapFacts
<1>6. kv \in Caches
  <2>1. kv.state \in [Blocks -> Tags]
    BY <1>2 DEF Tags
  <2>2. kv = [free |-> kv.free, state |-> kv.state, seqs |-> kv.seqs]
    BY <1>1
  <2> QED BY <1>4, <1>5, <2>1, <2>2 DEF Caches
<1>7. BatchTypes
  <2>1. <<>> \in Seq(Runners)
    OBVIOUS
  <2> QED BY <1>6, <2>1 DEF BatchTypes, BatchInit
<1>8. BucketsRight(buckets, nextOrder)
  <2>1. buckets = [b \in BucketIds |-> <<>>] /\ nextOrder = 0
    BY DEF BatchInit
  <2>2. <<>> \in Seq(Entries) /\ DOMAIN <<>> = {}
    OBVIOUS
  <2> QED BY <2>1, <2>2 DEF BucketsRight
<1>9. TreeRight(tree, buckets)
  <2>1. tree = [i \in 0..(2 * TreeBase - 1) |-> NoBucket] /\ buckets = [b \in BucketIds |-> <<>>]
    BY DEF BatchInit
  <2>2. tree \in Trees
    BY <2>1 DEF Trees
  <2>3. \A b \in BucketIds : tree[TreeBase + b] = LeafValue(buckets, b)
    BY <2>1, LeafFacts DEF LeafValue
  <2>4. \A n \in (TreeBase + NoBucket)..(2 * TreeBase - 1) : tree[n] = NoBucket
    BY <2>1
  <2>5. ASSUME NEW n \in 1..(TreeBase - 1) PROVE NodeRight(tree, buckets, n)
    <3>1. n \in 0..(2 * TreeBase - 1) /\ 2 * n \in 0..(2 * TreeBase - 1) /\ 2 * n + 1 \in 0..(2 * TreeBase - 1)
      OBVIOUS
    <3>2. tree[n] = NoBucket /\ tree[2 * n] = NoBucket /\ tree[2 * n + 1] = NoBucket
      BY <2>1, <3>1
    <3> QED BY <3>2 DEF NodeRight, Older
  <2> QED BY <2>2, <2>3, <2>4, <2>5 DEF TreeRight
<1>10. BlocksPartitioned
  <2>1. FreeOnce(kv)
    BY <1>0, <1>4 DEF FreeOnce
  <2>2. TablesOnce(kv)
    BY <1>5 DEF TablesOnce
  <2>3. \A b \in Blocks : InFree(kv, b)
    <3> TAKE b \in Blocks
    <3>1. TotalBlocks - b \in 1..TotalBlocks /\ TotalBlocks - (TotalBlocks - b) = b
      BY <1>0 DEF Blocks
    <3> QED BY <3>1, <1>4 DEF InFree
  <2>4. TagsRight(kv)
    BY <2>3, <1>2, <1>5 DEF TagsRight
  <2> QED BY <2>1, <2>2, <2>4, PartitionedParts DEF BlocksPartitioned
<1>11. RoomInv /\ PrefillInv /\ DecodeInv
  <2>1. phase = "out" /\ running = <<>> /\ outside = {} /\ DOMAIN running = {}
    BY DEF BatchInit
  <2>2. Prefilling = {}
    BY <2>1 DEF Prefilling
  <2>3. RoomInv
    BY <2>1, <2>2, <1>5 DEF RoomInv, RoomFor, HoldsAll, Apart, Owned
  <2> QED BY <2>1, <2>3 DEF PrefillInv, DecodeInv
<1> QED BY <1>7, <1>8, <1>9, <1>10, <1>11 DEF BatchInv, IndexInv, BatchInit

\* addRequest: the new request is the youngest, so it goes to its bucket's end.
LEMMA AddRequestStep ==
  ASSUME BatchInv, NEW id \in SeqIds, NEW shape \in Shapes, AddRequest(id, shape)
  PROVE  BatchInv'
<1> DEFINE r == [id |-> id, shape |-> shape, order |-> nextOrder]
           b == BlocksFor(Capacity(r))
           bs == [buckets EXCEPT ![b] = Append(@, r)]
<1>1. /\ b <= TotalBlocks
      /\ buckets' = bs /\ tree' = Updated(tree, bs, b)
      /\ nextOrder' = nextOrder + 1
      /\ UNCHANGED <<kv, running, executor, phase, request, position, orderLimit,
                     lastError, outside, faults, raws>>
  BY DEF AddRequest
<1>2. PICK n \in Nat : n = nextOrder
  BY DEF BatchInv, BatchTypes
<1>3. PICK q \in Entries : q = r /\ q.order = n
  <2>1. PICK sh \in Nat \X Nat : sh = shape
    BY BatchAssumption
  <2>2. [id |-> id, shape |-> sh, order |-> n] \in Entries
    BY DEF Entries
  <2> QED BY <2>1, <2>2, <1>2
<1> HIDE DEF r
<1>4. PICK k \in BucketIds : k = b
  <2>1. q.shape \in Nat \X Nat
    BY DEF Entries
  <2>2. Capacity(q) \in Nat
    BY <2>1 DEF Capacity
  <2>3. b \in Nat
    BY <1>3, <2>2, BlocksForFacts
  <2> QED BY <1>1, <2>3, KVAssumption DEF BucketIds
<1>5. PICK old : old = buckets /\ BucketsRight(old, n)
  BY <1>2 DEF BatchInv, IndexInv
<1>6. PICK cs : cs = WithEntry(old, k, q) /\ cs = bs
  BY <1>3, <1>4, <1>5 DEF WithEntry
<1>7. BucketsRight(cs, n + 1) /\ \A a \in BucketIds : a # k => cs[a] = old[a]
  <2>1. BlocksFor(Capacity(q)) = k
    BY <1>3, <1>4
  <2>2. BucketsRight(old, n) /\ q.order = n /\ cs = WithEntry(old, k, q)
    BY <1>3, <1>5, <1>6
  <2> HIDE DEF b, bs
  <2> QED BY <2>1, <2>2, OneMoreEntry
<1> HIDE DEF b, bs
<1>8. IndexInv'
  <2>1. n + 1 \in Nat /\ nextOrder' = n + 1 /\ buckets' = cs /\ tree' = Updated(tree, cs, k) /\ IndexInv
    <3>1. n + 1 \in Nat /\ nextOrder' = n + 1
      BY <1>1, <1>2
    <3>2. buckets' = cs /\ tree' = Updated(tree, cs, k)
      BY <1>1, <1>4, <1>6
    <3> QED BY <3>1, <3>2 DEF BatchInv
  <2> QED BY <2>1, <1>5, <1>7, NewIndex
<1>9. BatchTypes'
  BY <1>1, <1>2 DEF BatchInv, BatchTypes
<1>10. BlocksPartitioned' /\ RoomInv' /\ DecodeInv' /\ lastError' # "CACHE_APPEND_FAILURE"
  <2>1. Prefilling' = Prefilling
    BY <1>1 DEF Prefilling
  <2> QED BY <1>1, <2>1 DEF BatchInv, BlocksPartitioned, RoomInv, DecodeInv
<1>11. PrefillInv'
  <2>1. \A a \in BucketIds : old[a] # <<>> => cs[a] # <<>>
    <3>1. cs[k] # <<>>
      <4>1. old \in [BucketIds -> Seq(Entries)]
        BY <1>5 DEF BucketsRight
      <4>2. cs[k] = Append(old[k], q)
        BY <4>1, <1>6 DEF WithEntry
      <4>3. old[k] \in Seq(Entries)
        BY <4>1
      <4> QED BY <4>2, <4>3
    <3> QED BY <3>1, <1>7
  <2> QED BY <2>1, <1>1, <1>5, <1>6 DEF BatchInv, PrefillInv
<1> QED BY <1>8, <1>9, <1>10, <1>11 DEF BatchInv

\* cancelRequest of a waiting request.
LEMMA CancelWaitingStep ==
  ASSUME BatchInv, NEW id \in SeqIds, CancelWaiting(id)
  PROVE  BatchInv'
<1> DEFINE bs(b, i) == [buckets EXCEPT ![b] = RemoveAt(@, i)]
           Leaves1(b, i) == /\ phase = "out"
                            /\ buckets' = bs(b, i) /\ tree' = Updated(tree, bs(b, i), b)
                            /\ UNCHANGED <<kv, nextOrder, running, executor, phase, request, position,
                                           orderLimit, lastError, outside, faults, raws>>
<1>0. PICK b \in BucketIds : \E i \in DOMAIN buckets[b] : Leaves1(b, i)
  BY DEF CancelWaiting
<1>1. PICK i \in DOMAIN buckets[b] : Leaves1(b, i)
  BY <1>0
<1>2. PICK n \in Nat : n = nextOrder
  BY DEF BatchInv, BatchTypes
<1>3. PICK old : old = buckets /\ BucketsRight(old, n)
  BY <1>2 DEF BatchInv, IndexInv
<1>4. PICK cs : cs = WithoutEntry(old, b, i)
  OBVIOUS
<1>5. BucketsRight(cs, n) /\ \A a \in BucketIds : a # b => cs[a] = old[a]
  <2>1. i \in DOMAIN old[b]
    BY <1>3
  <2> QED BY <2>1, <1>3, <1>4, FewerEntries
<1>6. IndexInv'
  <2>1. nextOrder' = n /\ buckets' = cs /\ tree' = Updated(tree, cs, b) /\ IndexInv
    BY <1>1, <1>2, <1>3, <1>4 DEF BatchInv, WithoutEntry
  <2> QED BY <2>1, <1>3, <1>5, NewIndex
<1>7. phase' = "out"
  BY <1>1
<1>8. BatchTypes'
  BY <1>1 DEF BatchInv, BatchTypes
<1>9. BlocksPartitioned' /\ RoomInv' /\ DecodeInv' /\ lastError' # "CACHE_APPEND_FAILURE"
  <2>1. Prefilling' = Prefilling
    BY <1>1 DEF Prefilling
  <2> QED BY <1>1, <2>1 DEF BatchInv, BlocksPartitioned, RoomInv, DecodeInv
<1>10. PrefillInv'
  BY <1>7 DEF PrefillInv
<1> QED BY <1>6, <1>8, <1>9, <1>10 DEF BatchInv

\* A request of the batch leaves with its sequence, no executor being called.
LEMMA LeaveStep ==
  ASSUME BatchInv, NEW i \in DOMAIN running, phase = "out" \/ phase = "retire",
         kv' = Freed(kv, running[i].id), running' = RemoveAt(running, i),
         UNCHANGED <<buckets, tree, nextOrder, phase, request, position, orderLimit, lastError, outside>>
  PROVE  BatchInv'
<1>1. PICK c \in Caches : c = kv /\ Partitioned(c)
  BY DEF BatchInv, BatchTypes, BlocksPartitioned
<1>2. PICK run \in Seq(Runners) : run = running
  BY DEF BatchInv, BatchTypes
<1>3. PICK d : d = Freed(c, run[i].id)
  OBVIOUS
<1>4. FreedTo(c, run[i].id, d)
  BY <1>1, <1>3, FreedFacts
<1>5. kv' = d /\ d \in Caches /\ Partitioned(d)
  BY <1>1, <1>2, <1>3, <1>4 DEF FreedTo
<1>6. PICK g : g = RemoveAt(run, i)
  OBVIOUS
<1>7. running' = g /\ g \in Seq(Runners)
  BY <1>2, <1>6, RemoveFacts
<1>8. Prefilling = {} /\ Prefilling' = {}
  BY DEF Prefilling
<1>9. RoomFor(d, g, outside, {})
  <2>1. RoomFor(c, run, outside, {})
    BY <1>1, <1>2, <1>8 DEF BatchInv, RoomInv
  <2> QED BY <2>1, <1>2, <1>4, <1>6, RoomWithoutOne
<1>10. RoomInv'
  BY <1>5, <1>7, <1>8, <1>9 DEF RoomInv
<1>11. BatchTypes' /\ BlocksPartitioned'
  BY <1>5, <1>7 DEF BatchInv, BatchTypes, BlocksPartitioned
<1>12. IndexInv'
  BY SameIndex DEF BatchInv
<1>13. PrefillInv' /\ DecodeInv'
  BY DEF PrefillInv, DecodeInv
<1> QED BY <1>10, <1>11, <1>12, <1>13 DEF BatchInv

\* cancelRequest of a running one.
LEMMA CancelRunningStep ==
  ASSUME BatchInv, NEW id \in SeqIds, CancelRunning(id)
  PROVE  BatchInv'
<1>1. PICK i \in DOMAIN running :
        /\ phase = "out" /\ running[i].id = id
        /\ kv' = Freed(kv, id)
        /\ running' = RemoveAt(running, i)
        /\ UNCHANGED <<buckets, tree, nextOrder, executor, phase, request, position,
                       orderLimit, lastError, outside, faults, raws>>
  BY DEF CancelRunning
<1> QED BY <1>1, LeaveStep

\* A step of the caller on the cache: what it needs to show.
LEMMA CallerCacheStep ==
  ASSUME BatchInv, NEW d \in Caches, kv' = d, Partitioned(d),
         RoomFor(d, running, outside', Prefilling),
         phase = "prefill" => d.seqs[request.id] = kv.seqs[request.id],
         UNCHANGED <<buckets, tree, nextOrder, running, phase, request, position, orderLimit, lastError>>
  PROVE  BatchInv'
<1>1. BatchTypes' /\ BlocksPartitioned'
  BY DEF BatchInv, BatchTypes, BlocksPartitioned
<1>2. IndexInv'
  BY SameIndex DEF BatchInv
<1>3. RoomInv'
  <2>1. Prefilling' = Prefilling
    BY DEF Prefilling
  <2> QED BY <2>1 DEF RoomInv
<1>4. PrefillInv'
  BY DEF BatchInv, PrefillInv
<1>5. DecodeInv'
  BY DEF BatchInv, DecodeInv
<1> QED BY <1>1, <1>2, <1>3, <1>4, <1>5 DEF BatchInv

\* The cache, the batch and what they hold, as constants.
LEMMA BatchNow ==
  ASSUME BatchInv
  PROVE  \E c \in Caches, run \in Seq(Runners) :
           /\ c = kv /\ run = running /\ Partitioned(c)
           /\ RoomFor(c, run, outside, Prefilling)
BY DEF BatchInv, BatchTypes, BlocksPartitioned, RoomInv

\* allocateBlock.
LEMMA AllocateBlockStep ==
  ASSUME BatchInv, AllocateBlock
  PROVE  BatchInv'
<1>1. PICK c \in Caches, run \in Seq(Runners) :
        c = kv /\ run = running /\ Partitioned(c) /\ RoomFor(c, run, outside, Prefilling)
  BY BatchNow
<1>2. /\ FreeBlocks(c) > 0 /\ kv' = Allocated(c)
      /\ UNCHANGED <<buckets, tree, nextOrder, running, executor, phase, request, position,
                     orderLimit, lastError, outside, faults>>
  BY <1>1 DEF AllocateBlock
<1>3. PICK d : d = Allocated(c)
  OBVIOUS
<1>4. d \in Caches /\ Partitioned(d) /\ d.seqs = c.seqs
  BY <1>1, <1>2, <1>3, AllocatedFacts
<1>5. RoomFor(d, running, outside', Prefilling)
  BY <1>1, <1>2, <1>4, RoomSameSequences
<1> QED BY <1>1, <1>2, <1>3, <1>4, <1>5, CallerCacheStep

\* freeBlock: only a block that was handed out raw goes back.
LEMMA FreeBlockStep ==
  ASSUME BatchInv, NEW b \in Blocks, FreeBlock(b)
  PROVE  BatchInv'
<1>1. PICK c \in Caches, run \in Seq(Runners) :
        c = kv /\ run = running /\ Partitioned(c) /\ RoomFor(c, run, outside, Prefilling)
  BY BatchNow
<1>2. /\ kv' = Released(c, b, "raw")
      /\ UNCHANGED <<buckets, tree, nextOrder, running, executor, phase, request, position,
                     orderLimit, lastError, outside, faults>>
  BY <1>1 DEF FreeBlock, schedVars
<1>3. PICK d : d = Released(c, b, "raw")
  OBVIOUS
<1>4. d \in Caches /\ Partitioned(d) /\ d.seqs = c.seqs
  BY <1>1, <1>2, <1>3, RawReleased
<1>5. RoomFor(d, running, outside', Prefilling)
  BY <1>1, <1>2, <1>4, RoomSameSequences
<1> QED BY <1>1, <1>2, <1>3, <1>4, <1>5, CallerCacheStep

\* The caller's appendToken under an id without a sequence.
LEMMA OutsideAppendStep ==
  ASSUME BatchInv, NEW id \in SeqIds, OutsideAppend(id)
  PROVE  BatchInv'
<1>1. PICK c \in Caches, run \in Seq(Runners) :
        c = kv /\ run = running /\ Partitioned(c) /\ RoomFor(c, run, outside, Prefilling)
  BY BatchNow
<1>2. /\ id \notin DOMAIN c.seqs /\ kv' = Appended(c, id)
      /\ outside' = outside \union {id}
      /\ UNCHANGED <<buckets, tree, nextOrder, running, executor, phase, request, position,
                     orderLimit, lastError, faults>>
  BY <1>1 DEF OutsideAppend, HasSequence
<1>3. PICK d : d = Appended(c, id)
  OBVIOUS
<1>4. Touched(c, id, d)
  BY <1>1, <1>3, AppendedFacts
<1>5. d \in Caches /\ Partitioned(d)
  BY <1>4 DEF Touched
<1>6. RoomFor(d, running, outside', Prefilling)
  BY <1>1, <1>2, <1>4, RoomNew
<1>7. phase = "prefill" => d.seqs[request.id] = c.seqs[request.id]
  <2>1. phase = "prefill" => request.id \in DOMAIN c.seqs
    BY <1>1 DEF RoomFor, Apart, Prefilling
  <2> QED BY <2>1, <1>2, <1>4 DEF Touched
<1> QED BY <1>1, <1>2, <1>3, <1>5, <1>6, <1>7, CallerCacheStep

\* The caller's freeSequence of its own sequence.
LEMMA OutsideFreeStep ==
  ASSUME BatchInv, NEW id \in SeqIds, OutsideFree(id)
  PROVE  BatchInv'
<1>1. PICK c \in Caches, run \in Seq(Runners) :
        c = kv /\ run = running /\ Partitioned(c) /\ RoomFor(c, run, outside, Prefilling)
  BY BatchNow
<1>2. /\ id \in outside /\ kv' = Freed(c, id)
      /\ outside' = outside \ {id}
      /\ UNCHANGED <<buckets, tree, nextOrder, running, executor, phase, request, position,
                     orderLimit, lastError, faults, raws>>
  BY <1>1 DEF OutsideFree
<1>3. PICK d : d = Freed(c, id)
  OBVIOUS
<1>4. FreedTo(c, id, d)
  BY <1>1, <1>3, FreedFacts
<1>5. d \in Caches /\ Partitioned(d)
  BY <1>4 DEF FreedTo
<1>6. id \notin Prefilling
  BY <1>1, <1>2 DEF RoomFor, Apart
<1>7. RoomFor(d, running, outside', Prefilling)
  <2>1. Prefilling = Prefilling \ {id}
    BY <1>6
  <2> QED BY <2>1, <1>1, <1>2, <1>4, RoomFreed
<1>8. phase = "prefill" => d.seqs[request.id] = c.seqs[request.id]
  <2>1. phase = "prefill" => request.id \in DOMAIN c.seqs /\ request.id # id
    BY <1>1, <1>6 DEF RoomFor, Apart, Prefilling
  <2> QED BY <2>1, <1>4 DEF FreedTo
<1> QED BY <1>1, <1>2, <1>3, <1>5, <1>7, <1>8, CallerCacheStep

\* The steps that change neither the cache, the index nor the batch.
LEMMA QuietSteps ==
  ASSUME BatchInv,
         \/ SetTokenExecutor \/ ReentrantStep \/ StepWithoutExecutor \/ StepBegin \/ AdmitDone
         \/ UNCHANGED batchVars
  PROVE  BatchInv'
<1>0. position \in Nat /\ orderLimit \in Nat /\ nextOrder \in Nat /\ lastError # "CACHE_APPEND_FAILURE"
  BY DEF BatchInv, BatchTypes
<1>1. CASE SetTokenExecutor
  <2>1. /\ UNCHANGED <<kv, buckets, tree, nextOrder, running, outside>>
        /\ UNCHANGED <<phase, request, position, orderLimit, lastError>>
    BY <1>1 DEF SetTokenExecutor
  <2> QED BY <1>0, <2>1, QuietStep
<1>2. CASE ReentrantStep
  <2>1. /\ UNCHANGED <<kv, buckets, tree, nextOrder, running, outside>>
        /\ UNCHANGED <<phase, request, position, orderLimit>>
        /\ lastError' = "REENTRANT_STEP"
    BY <1>2 DEF ReentrantStep
  <2> QED BY <1>0, <2>1, QuietStep
<1>3. CASE StepWithoutExecutor
  <2>1. /\ UNCHANGED <<kv, buckets, tree, nextOrder, running, outside>>
        /\ phase = "out" /\ phase' = "out" /\ position' = 0 /\ orderLimit' = 0
        /\ lastError' = "MISSING_EXECUTOR"
    BY <1>3 DEF StepWithoutExecutor, Fail, EndStep
  <2>2. DecodeInv'
    BY <2>1 DEF DecodeInv
  <2> QED BY <1>0, <2>1, <2>2, QuietStep
<1>4. CASE StepBegin
  <2>1. /\ UNCHANGED <<kv, buckets, tree, nextOrder, running, outside>>
        /\ phase = "out" /\ phase' = "retire" /\ position' = position /\ orderLimit' = nextOrder
        /\ lastError' = "NONE"
    BY <1>4 DEF StepBegin
  <2>2. DecodeInv'
    BY <2>1 DEF DecodeInv
  <2> QED BY <1>0, <2>1, <2>2, QuietStep
<1>5. CASE AdmitDone
  <2>1. /\ UNCHANGED <<kv, buckets, tree, nextOrder, running, outside>>
        /\ phase = "admit" /\ phase' = "next" /\ position' = 1 /\ orderLimit' = orderLimit
        /\ lastError' = lastError
    BY <1>5 DEF AdmitDone
  <2>2. DecodeInv'
    BY <2>1 DEF DecodeInv
  <2> QED BY <1>0, <2>1, <2>2, QuietStep
<1>6. CASE UNCHANGED batchVars
  <2>1. /\ UNCHANGED <<kv, buckets, tree, nextOrder, running, outside>>
        /\ UNCHANGED <<phase, request, position, orderLimit, lastError>>
    BY <1>6 DEF batchVars, schedVars
  <2> QED BY <1>0, <2>1, QuietStep
<1> QED BY <1>1, <1>2, <1>3, <1>4, <1>5, <1>6

\* The least element of a set of numbers is in it.
LEMMA MinIn ==
  ASSUME NEW S, S \subseteq Nat, S # {}
  PROVE  Min(S) \in S
<1>1. \E x \in S : \A y \in S : x <= y
  BY LeastNatural
<1> QED BY <1>1 DEF Min

\* A finished request leaves the batch, with its sequence.
LEMMA RetireStep ==
  ASSUME BatchInv, Retire
  PROVE  BatchInv'
<1> DEFINE done == {i \in DOMAIN running : ~Unfinished(running[i])}
<1>1. /\ phase = "retire"
      /\ IF done = {} THEN phase' = "admit" /\ UNCHANGED <<kv, running>>
         ELSE /\ kv' = Freed(kv, running[Min(done)].id)
              /\ running' = RemoveAt(running, Min(done))
              /\ UNCHANGED phase
      /\ UNCHANGED <<buckets, tree, nextOrder, executor, request, position, orderLimit,
                     lastError, outside, faults, raws>>
  BY DEF Retire
<1>2. position \in Nat /\ orderLimit \in Nat /\ lastError # "CACHE_APPEND_FAILURE" /\ running \in Seq(Runners)
  BY DEF BatchInv, BatchTypes
<1>3. done \subseteq DOMAIN running /\ done \subseteq Nat
  BY <1>2
<1> HIDE DEF done
<1>4. CASE done = {}
  <2>1. DecodeInv'
    BY <1>1, <1>4 DEF DecodeInv
  <2> QED BY <1>1, <1>2, <1>4, <2>1, QuietStep
<1>5. CASE done # {}
  <2>1. PICK i \in DOMAIN running : i = Min(done)
    BY <1>3, <1>5, MinIn
  <2> QED BY <1>1, <1>5, <2>1, LeaveStep
<1> QED BY <1>4, <1>5

\* The next request to decode is one that is not finished.
LEMMA NextDecodeStep ==
  ASSUME BatchInv, NextDecode
  PROVE  BatchInv'
<1> DEFINE left == {i \in DOMAIN running : i >= position /\ Unfinished(running[i])}
<1>1. /\ phase = "next"
      /\ \/ /\ left = {} \/ ~executor
            /\ EndStep /\ lastError' \in {lastError, "MISSING_EXECUTOR"}
         \/ /\ left # {} /\ phase' = "decode" /\ position' = Min(left)
            /\ UNCHANGED <<orderLimit, lastError>>
      /\ UNCHANGED <<kv, buckets, tree, nextOrder, running, outside>>
  BY DEF NextDecode, NoExecutor, Fail
<1>2. position \in Nat /\ orderLimit \in Nat /\ lastError # "CACHE_APPEND_FAILURE" /\ running \in Seq(Runners)
  BY DEF BatchInv, BatchTypes
<1>3. left \subseteq Nat
  BY <1>2
<1>4. CASE EndStep /\ lastError' \in {lastError, "MISSING_EXECUTOR"}
  <2>1. phase' = "out" /\ position' = 0 /\ orderLimit' = 0
    BY <1>4 DEF EndStep
  <2>2. DecodeInv'
    BY <2>1 DEF DecodeInv
  <2> QED BY <1>1, <1>2, <1>4, <2>1, <2>2, QuietStep
<1>5. CASE left # {} /\ phase' = "decode" /\ position' = Min(left) /\ UNCHANGED <<orderLimit, lastError>>
  <2>1. PICK i : i = Min(left) /\ i \in left
    <3> HIDE DEF left
    <3> QED BY <1>3, <1>5, MinIn
  <2>2. phase' = "decode" /\ position' = i /\ orderLimit' = orderLimit
    BY <1>5, <2>1
  <2>3. i \in DOMAIN running /\ Unfinished(running[i]) /\ i \in Nat
    BY <1>3, <2>1
  <2>4. DecodeInv'
    BY <1>1, <2>2, <2>3 DEF DecodeInv, Unfinished
  <2> QED BY <1>1, <1>2, <1>5, <2>2, <2>3, <2>4, QuietStep
<1> QED BY <1>1, <1>4, <1>5

\* The batch's record of a request.
Runner(r) == [id |-> r.id, shape |-> r.shape, generated |-> 0]

\* A waiting request, and what becomes of it in the batch.
LEMMA EntryFacts ==
  ASSUME NEW r \in Entries
  PROVE  /\ r.id \in SeqIds /\ r.shape[1] \in Nat /\ r.shape[2] \in Nat /\ r.order \in Nat
         /\ Capacity(r) \in Nat /\ r.shape[1] <= Capacity(r)
         /\ Runner(r) \in Runners /\ Runner(r).id = r.id
         /\ Capacity(Runner(r)) = Capacity(r)
         /\ Runner(r).shape[1] + Runner(r).generated = r.shape[1]
<1>1. r.id \in SeqIds /\ r.shape \in Nat \X Nat /\ r.order \in Nat
  BY DEF Entries
<1>2. PICK a \in Nat, b \in Nat : r.shape[1] = a /\ r.shape[2] = b
  BY <1>1
<1>3. Runner(r) \in Runners
  BY <1>1 DEF Runner, Runners
<1>4. Runner(r).id = r.id /\ Runner(r).shape = r.shape /\ Runner(r).generated = 0
  BY DEF Runner
<1> QED BY <1>1, <1>2, <1>3, <1>4 DEF Capacity

\* The request leaves its bucket.
LEMMA AdmittedIndex ==
  ASSUME BatchInv, NEW r, BlocksFor(Capacity(r)) \in BucketIds,
         buckets[BlocksFor(Capacity(r))] # <<>>, Admitted(r), nextOrder' = nextOrder
  PROVE  IndexInv'
<1>1. PICK b \in BucketIds : b = BlocksFor(Capacity(r))
  OBVIOUS
<1>2. PICK n \in Nat : n = nextOrder
  BY DEF BatchInv, BatchTypes
<1>3. PICK old : old = buckets /\ BucketsRight(old, n)
  BY <1>2 DEF BatchInv, IndexInv
<1>4. old \in [BucketIds -> Seq(Entries)] /\ old[b] \in Seq(Entries) /\ old[b] # <<>>
  BY <1>1, <1>3 DEF BucketsRight
<1>5. Tail(old[b]) = RemoveAt(old[b], 1) /\ 1 \in DOMAIN old[b]
  BY <1>4, TailIsRemove
<1>6. PICK cs : cs = WithoutEntry(old, b, 1)
  OBVIOUS
<1>7. buckets' = cs /\ tree' = Updated(tree, cs, b)
  <2>1. [buckets EXCEPT ![b] = Tail(@)] = cs
    BY <1>3, <1>5, <1>6 DEF WithoutEntry
  <2> QED BY <2>1, <1>1 DEF Admitted
<1>8. BucketsRight(cs, n) /\ \A a \in BucketIds : a # b => cs[a] = old[a]
  BY <1>3, <1>5, <1>6, FewerEntries
<1>9. nextOrder' = n /\ IndexInv
  BY <1>2 DEF BatchInv
<1> QED BY <1>3, <1>7, <1>8, <1>9, NewIndex

\* The request joins the batch, with the cache d.
LEMMA AdmittedStep ==
  ASSUME BatchInv, NEW r \in Entries, BlocksFor(Capacity(r)) \in BucketIds,
         buckets[BlocksFor(Capacity(r))] # <<>>, Admitted(r), nextOrder' = nextOrder,
         NEW d \in Caches, kv' = d, Partitioned(d), RoomFor(d, running, outside, {r.id}),
         d.seqs[r.id].length = r.shape[1],
         Len(d.seqs[r.id].table) = BlocksFor(Capacity(r)),
         position' \in Nat, orderLimit' \in Nat, lastError' # "CACHE_APPEND_FAILURE",
         UNCHANGED outside
  PROVE  BatchInv'
<1>1. IndexInv'
  BY AdmittedIndex
<1>2. PICK run \in Seq(Runners) : run = running
  BY DEF BatchInv, BatchTypes
<1>3. PICK q \in Runners : q = Runner(r) /\ q.id = r.id
  BY EntryFacts
<1>4. running' = Append(run, q) /\ phase' = "admit"
  BY <1>2, <1>3 DEF Admitted, Runner
<1>5. RoomFor(d, run, outside, {q.id})
  BY <1>2, <1>3
<1>6. Holds(d, q)
  <2>1. q.id \in DOMAIN d.seqs
    BY <1>5 DEF RoomFor, Apart
  <2> QED BY <2>1, <1>3, EntryFacts DEF Holds
<1>7. RoomFor(d, Append(run, q), outside, {})
  BY <1>5, <1>6, RoomAdmitted
<1>8. PICK g \in Seq(Runners) : g = Append(run, q)
  <2>1. Append(run, q) \in Seq(Runners)
    OBVIOUS
  <2> QED BY <2>1
<1>9. RoomInv'
  <2>1. Prefilling' = {}
    BY <1>4 DEF Prefilling
  <2> QED BY <2>1, <1>4, <1>7 DEF RoomInv
<1>10. BatchTypes'
  <2>1. nextOrder \in Nat
    BY DEF BatchInv, BatchTypes
  <2> QED BY <2>1, <1>4, <1>8 DEF BatchTypes
<1>11. BlocksPartitioned'
  BY DEF BlocksPartitioned
<1>12. PrefillInv' /\ DecodeInv'
  BY <1>4 DEF PrefillInv, DecodeInv
<1> QED BY <1>1, <1>9, <1>10, <1>11, <1>12 DEF BatchInv

\* The candidate is a bucket with a request in it.
LEMMA CandidateFacts ==
  ASSUME BatchInv, Candidate # NoBucket
  PROVE  /\ Candidate \in BucketIds /\ buckets[Candidate] # <<>>
         /\ Head(buckets[Candidate]) \in Entries
         /\ BlocksFor(Capacity(Head(buckets[Candidate]))) = Candidate
<1>1. PICK a \in Nat : a = FreeBlocks(kv)
  <2>1. kv.free \in Seq(Blocks)
    BY CacheFacts DEF BatchInv, BatchTypes
  <2> QED BY <2>1 DEF FreeBlocks
<1>2. PICK limit \in Nat : limit = orderLimit
  BY DEF BatchInv, BatchTypes
<1>3. Candidate = OldestEligible(a, limit)
  BY <1>1, <1>2 DEF Candidate
<1>4. nextOrder \in Nat /\ BucketsRight(buckets, nextOrder) /\ TreeRight(tree, buckets)
  BY DEF BatchInv, BatchTypes, IndexInv
<1>5. EligibleRight(Candidate, a, limit)
  BY <1>3, <1>4, EligibleFound
<1>6. Candidate \in BucketIds /\ buckets[Candidate] # <<>>
  BY <1>5 DEF EligibleRight
<1> QED BY <1>4, <1>6, HeadIsOldest

\* The reservation: a new sequence with all the blocks the request will need.
LEMMA AdmitStep ==
  ASSUME BatchInv, Admit
  PROVE  BatchInv'
<1>1. PICK c \in Caches, run \in Seq(Runners) :
        c = kv /\ run = running /\ Partitioned(c) /\ RoomFor(c, run, outside, Prefilling)
  BY BatchNow
<1>2. phase = "admit" /\ Candidate # NoBucket
  BY DEF Admit
<1>3. PICK r \in Entries : r = Head(buckets[Candidate])
  BY <1>2, CandidateFacts
<1>4. BlocksFor(Capacity(r)) \in BucketIds /\ buckets[BlocksFor(Capacity(r))] # <<>>
  BY <1>2, <1>3, CandidateFacts
<1>5. position \in Nat /\ orderLimit \in Nat /\ lastError # "CACHE_APPEND_FAILURE"
  BY DEF BatchInv, BatchTypes
<1> DEFINE Refused == /\ Fail("CACHE_RESERVATION_FAILURE") \/ Fail("MISSING_EXECUTOR")
                      /\ UNCHANGED <<kv, buckets, tree, running>>
           GoesIn == /\ ~(HasSequence(r.id) \/ ~CanReserve(kv, r.id, Capacity(r)))
                     /\ kv' = Reserved(kv, r.id, Capacity(r))
                     /\ request' = r /\ position' = 0
                     /\ IF r.shape[1] = 0 THEN Admitted(r)
                        ELSE phase' = "prefill" /\ UNCHANGED <<buckets, tree, running>>
                     /\ UNCHANGED <<lastError, orderLimit>>
<1>6. (Refused \/ GoesIn) /\ UNCHANGED <<nextOrder, outside>>
  BY <1>3 DEF Admit, NoExecutor
<1>7. CASE Refused
  <2>1. /\ UNCHANGED <<kv, buckets, tree, nextOrder, running, outside>>
        /\ phase' = "out" /\ position' = 0 /\ orderLimit' = 0
        /\ lastError' \in {"CACHE_RESERVATION_FAILURE", "MISSING_EXECUTOR"}
    BY <1>6, <1>7 DEF Fail, EndStep
  <2>2. DecodeInv'
    BY <2>1 DEF DecodeInv
  <2> QED BY <1>2, <2>1, <2>2, QuietStep
<1>8. CASE GoesIn
  <2>1. r.id \notin DOMAIN c.seqs /\ CanReserve(c, r.id, Capacity(r))
    BY <1>1, <1>8 DEF HasSequence
  <2>2. /\ kv' = Reserved(c, r.id, Capacity(r))
        /\ request' = r /\ position' = 0
        /\ UNCHANGED <<lastError, orderLimit, nextOrder, outside>>
    BY <1>1, <1>6, <1>8
  <2>3. PICK d : d = Reserved(c, r.id, Capacity(r))
    OBVIOUS
  <2>4. /\ Touched(c, r.id, d)
        /\ d.seqs[r.id].length = 0
        /\ Len(d.seqs[r.id].table) = BlocksFor(Capacity(r))
    <3>1. r.id \in SeqIds /\ Capacity(r) \in Nat
      BY EntryFacts
    <3>2. SeqRec(c, r.id).length = 0
      BY <2>1 DEF SeqRec, NoSeq
    <3> QED BY <1>1, <2>1, <2>3, <3>1, <3>2, ReservedFacts
  <2>5. d \in Caches /\ Partitioned(d)
    BY <2>4 DEF Touched
  <2>6. RoomFor(d, run, outside, {r.id})
    <3>1. Prefilling = {}
      BY <1>2 DEF Prefilling
    <3>2. {r.id} = Prefilling \union {r.id}
      BY <3>1
    <3> QED BY <1>1, <2>1, <2>4, <3>2, RoomNew
  <2>7. CASE r.shape[1] = 0
    <3>1. Admitted(r)
      BY <1>6, <1>8, <2>7
    <3>2. kv' = d /\ position' \in Nat /\ orderLimit' \in Nat /\ lastError' # "CACHE_APPEND_FAILURE"
      BY <1>5, <2>2, <2>3
    <3>3. RoomFor(d, running, outside, {r.id}) /\ d.seqs[r.id].length = r.shape[1]
          /\ Len(d.seqs[r.id].table) = BlocksFor(Capacity(r)) /\ nextOrder' = nextOrder /\ outside' = outside
      BY <1>1, <2>2, <2>4, <2>6, <2>7
    <3> QED BY <1>4, <2>5, <3>1, <3>2, <3>3, AdmittedStep
  <2>8. CASE r.shape[1] # 0
    <3>1. phase' = "prefill" /\ UNCHANGED <<buckets, tree, running>>
      BY <1>6, <1>8, <2>8
    <3>2. BatchTypes'
      BY <1>1, <2>2, <2>3, <2>5, <3>1 DEF BatchInv, BatchTypes
    <3>3. IndexInv'
      BY <2>2, <3>1, SameIndex DEF BatchInv
    <3>4. BlocksPartitioned'
      BY <2>2, <2>3, <2>5 DEF BlocksPartitioned
    <3>5. RoomInv'
      <4>1. Prefilling' = {r.id}
        BY <2>2, <3>1 DEF Prefilling
      <4> QED BY <4>1, <1>1, <2>2, <2>3, <2>6, <3>1 DEF RoomInv
    <3>6. PrefillInv'
      <4>1. r.shape[1] \in Nat /\ 0 < r.shape[1]
        BY <2>8, EntryFacts
      <4>2. /\ request' = r /\ position' = 0 /\ kv' = d /\ buckets' = buckets
        BY <2>2, <2>3, <3>1
      <4> QED BY <4>1, <4>2, <1>4, <2>4 DEF PrefillInv
    <3>7. DecodeInv'
      BY <3>1 DEF DecodeInv
    <3> QED BY <1>5, <2>2, <3>2, <3>3, <3>4, <3>5, <3>6, <3>7 DEF BatchInv
  <2> QED BY <2>7, <2>8
<1> QED BY <1>6, <1>7, <1>8

\* A sequence with room for n tokens and fewer than n in it has a block for the next.
LEMMA NotFull ==
  ASSUME NEW c, NEW s, s \in DOMAIN c.seqs, NEW n \in Nat, NEW p \in Nat, p < n,
         c.seqs[s].length = p, Len(c.seqs[s].table) = BlocksFor(n)
  PROVE  ~Full(c, s) /\ CanAppend(c, s)
<1>1. PICK k \in Nat : k = BlocksFor(n)
  BY BlocksForFacts
<1>2. PICK h \in Nat : h = p \div BlockSize
  BY KVAssumption
<1>3. h < k
  BY <1>1, <1>2, BlocksForFacts
<1>4. SeqRec(c, s) = c.seqs[s]
  BY DEF SeqRec
<1>5. ~Full(c, s)
  BY <1>1, <1>2, <1>3, <1>4 DEF Full
<1> QED BY <1>5 DEF CanAppend

\* A step that ends during the prompt gives the reservation back; the request keeps its
\* place in its bucket.
LEMMA GiveBackStep ==
  ASSUME BatchInv, phase = "prefill", kv' = Freed(kv, request.id),
         phase' = "out", position' = 0, orderLimit' = 0, lastError' # "CACHE_APPEND_FAILURE",
         UNCHANGED <<buckets, tree, nextOrder, running, outside>>
  PROVE  BatchInv'
<1>1. PICK c \in Caches, run \in Seq(Runners) :
        c = kv /\ run = running /\ Partitioned(c) /\ RoomFor(c, run, outside, Prefilling)
  BY BatchNow
<1>2. DecodeInv' /\ PrefillInv'
  BY DEF DecodeInv, PrefillInv
<1>3. PICK s : s = request.id
  OBVIOUS
<1>4. Prefilling = {s}
  BY <1>3 DEF Prefilling
<1>5. PICK d : d = Freed(c, s)
  OBVIOUS
<1>6. kv' = d
  BY <1>1, <1>3, <1>5
<1>7. FreedTo(c, s, d)
  BY <1>1, <1>5, FreedFacts
<1>8. d \in Caches /\ Partitioned(d)
  BY <1>7 DEF FreedTo
<1>9. RoomFor(d, run, outside, {})
  <2>1. outside = outside \ {s}
    BY <1>1, <1>4 DEF RoomFor, Apart
  <2>2. {} = Prefilling \ {s} /\ s \in Prefilling
    BY <1>4
  <2> QED BY <2>1, <2>2, <1>1, <1>7, RoomFreed
<1>10. RoomInv'
  <2>1. Prefilling' = {}
    BY DEF Prefilling
  <2> QED BY <2>1, <1>1, <1>6, <1>9 DEF RoomInv
<1>11. BatchTypes'
  BY <1>6, <1>8 DEF BatchInv, BatchTypes
<1>12. IndexInv'
  BY SameIndex DEF BatchInv
<1>13. BlocksPartitioned'
  BY <1>6, <1>8 DEF BlocksPartitioned
<1> QED BY <1>2, <1>10, <1>11, <1>12, <1>13 DEF BatchInv

\* A prompt token: the sequence of the request being admitted grows in its blocks.
LEMMA PrefillTokenStep ==
  ASSUME BatchInv, PrefillToken
  PROVE  BatchInv'
<1>1. PICK c \in Caches, run \in Seq(Runners) :
        c = kv /\ run = running /\ Partitioned(c) /\ RoomFor(c, run, outside, Prefilling)
  BY BatchNow
<1>2. phase = "prefill"
  BY DEF PrefillToken
<1>3. PICK r \in Entries : r = request
  BY <1>2 DEF BatchInv, PrefillInv
<1>4. PICK p \in Nat : p = position
  BY DEF BatchInv, BatchTypes
<1>5. /\ p < r.shape[1] /\ c.seqs[r.id].length = p
      /\ Len(c.seqs[r.id].table) = BlocksFor(Capacity(r))
      /\ BlocksFor(Capacity(r)) \in BucketIds /\ buckets[BlocksFor(Capacity(r))] # <<>>
  BY <1>1, <1>2, <1>3, <1>4 DEF BatchInv, PrefillInv
<1>6. Prefilling = {r.id} /\ r.id \in DOMAIN c.seqs
  <2>1. Prefilling = {r.id}
    BY <1>2, <1>3 DEF Prefilling
  <2> QED BY <2>1, <1>1 DEF RoomFor, Apart
<1>7. PICK n \in Nat : n = Capacity(r) /\ p < n
  <2>1. PICK a \in Nat, m \in Nat : a = r.shape[1] /\ m = Capacity(r) /\ a <= m
    BY EntryFacts
  <2> QED BY <2>1, <1>5
<1>8. ~Full(c, r.id) /\ CanAppend(c, r.id)
  BY <1>5, <1>6, <1>7, NotFull
<1>8a. CASE /\ NoExecutor /\ kv' = Freed(kv, request.id)
           /\ UNCHANGED <<buckets, tree, running, nextOrder, outside>>
  <2>1. phase' = "out" /\ position' = 0 /\ orderLimit' = 0 /\ lastError' = "MISSING_EXECUTOR"
    BY <1>8a DEF NoExecutor, Fail, EndStep
  <2> QED BY <1>2, <1>8a, <2>1, GiveBackStep
<1> DEFINE Grown == /\ kv' = Appended(c, r.id)
                    /\ position' = p + 1
                    /\ IF p + 1 = r.shape[1] THEN Admitted(r) ELSE UNCHANGED <<buckets, tree, running, phase>>
                    /\ UNCHANGED <<lastError, request, orderLimit, nextOrder, outside>>
<1>8b. \/ /\ NoExecutor /\ kv' = Freed(kv, request.id)
         /\ UNCHANGED <<buckets, tree, running, nextOrder, outside>>
      \/ Grown
  BY <1>1, <1>3, <1>4, <1>8 DEF PrefillToken
<1> SUFFICES ASSUME Grown PROVE BatchInv'
  BY <1>8a, <1>8b
<1>9. /\ kv' = Appended(c, r.id)
      /\ position' = p + 1
      /\ IF p + 1 = r.shape[1] THEN Admitted(r) ELSE UNCHANGED <<buckets, tree, running, phase>>
      /\ UNCHANGED <<lastError, request, orderLimit, nextOrder, outside>>
  OBVIOUS
<1> HIDE DEF Grown
<1>10. PICK d : d = Appended(c, r.id)
  OBVIOUS
<1>11. r.id \in SeqIds /\ SeqRec(c, r.id) = c.seqs[r.id]
  BY <1>6, EntryFacts DEF SeqRec
<1>12. Touched(c, r.id, d) /\ d.seqs[r.id].length = p + 1 /\ d.seqs[r.id].table = c.seqs[r.id].table
  BY <1>1, <1>5, <1>8, <1>10, <1>11, AppendedFacts
<1>13. d \in Caches /\ Partitioned(d) /\ Len(d.seqs[r.id].table) = BlocksFor(Capacity(r))
  BY <1>5, <1>12 DEF Touched
<1>14. RoomFor(d, run, outside, {r.id})
  BY <1>1, <1>6, <1>12, RoomPrefilled
<1>15. orderLimit' \in Nat /\ lastError' # "CACHE_APPEND_FAILURE" /\ position' \in Nat /\ kv' = d
  BY <1>9, <1>10 DEF BatchInv, BatchTypes
<1>16. CASE p + 1 = r.shape[1]
  <2>1. Admitted(r) /\ nextOrder' = nextOrder /\ outside' = outside
    BY <1>9, <1>16
  <2>2. RoomFor(d, running, outside, {r.id}) /\ d.seqs[r.id].length = r.shape[1]
    BY <1>1, <1>12, <1>14, <1>16
  <2> QED BY <1>5, <1>13, <1>15, <2>1, <2>2, AdmittedStep
<1>17. CASE p + 1 # r.shape[1]
  <2>1. UNCHANGED <<buckets, tree, running, phase, request, nextOrder, outside>>
    BY <1>9, <1>17
  <2>2. BatchTypes'
    BY <1>13, <1>15, <2>1 DEF BatchInv, BatchTypes
  <2>3. IndexInv'
    BY <2>1, SameIndex DEF BatchInv
  <2>4. BlocksPartitioned'
    BY <1>13, <1>15 DEF BlocksPartitioned
  <2>5. RoomInv'
    <3>1. Prefilling' = {r.id}
      BY <1>2, <1>3, <2>1 DEF Prefilling
    <3> QED BY <3>1, <1>1, <1>14, <1>15, <2>1 DEF RoomInv
  <2>6. PrefillInv'
    <3>1. r.shape[1] \in Nat
      BY EntryFacts
    <3>2. p + 1 < r.shape[1]
      BY <3>1, <1>5, <1>17
    <3>3. request' = r /\ position' = p + 1 /\ kv' = d /\ buckets' = buckets
      BY <1>3, <1>9, <1>15, <2>1
    <3> QED BY <3>2, <3>3, <1>5, <1>12, <1>13 DEF PrefillInv
  <2>7. DecodeInv'
    BY <1>2, <2>1 DEF DecodeInv
  <2> QED BY <1>15, <2>2, <2>3, <2>4, <2>5, <2>6, <2>7 DEF BatchInv
<1> QED BY <1>16, <1>17

\* A generated token: the request was admitted with the blocks for all of them.
LEMMA DecodeTokenStep ==
  ASSUME BatchInv, DecodeToken
  PROVE  BatchInv'
<1>1. PICK c \in Caches, run \in Seq(Runners) :
        c = kv /\ run = running /\ Partitioned(c) /\ RoomFor(c, run, outside, Prefilling)
  BY BatchNow
<1>2. phase = "decode"
  BY DEF DecodeToken
<1>3. PICK i \in DOMAIN run : i = position /\ Unfinished(run[i])
  BY <1>1, <1>2 DEF BatchInv, DecodeInv
<1>4. PICK x \in Runners : x = run[i]
  OBVIOUS
<1>5. PICK a \in Nat, b \in Nat, k \in Nat : a = x.shape[1] /\ b = x.shape[2] /\ k = x.generated /\ k < b
  BY <1>3, <1>4 DEF Runners, Unfinished
<1>6. Holds(c, x) /\ x.id \in SeqIds
  BY <1>1, <1>4 DEF RoomFor, HoldsAll, Runners
<1>7. /\ x.id \in DOMAIN c.seqs /\ c.seqs[x.id].length = a + k
      /\ Len(c.seqs[x.id].table) = BlocksFor(a + b)
  BY <1>5, <1>6 DEF Holds, Capacity
<1>8. ~Full(c, x.id) /\ CanAppend(c, x.id)
  <2>1. a + k \in Nat /\ a + b \in Nat /\ a + k < a + b
    BY <1>5
  <2> QED BY <2>1, <1>7, NotFull
<1>9. /\ kv' = Appended(c, x.id)
      /\ running' = [run EXCEPT ![i].generated = @ + 1]
      /\ position' = i + 1 /\ phase' = "next"
      /\ UNCHANGED <<lastError, request, orderLimit, buckets, tree, nextOrder, outside>>
  BY <1>1, <1>3, <1>4, <1>8 DEF DecodeToken
<1>10. PICK d : d = Appended(c, x.id)
  OBVIOUS
<1>11. SeqRec(c, x.id) = c.seqs[x.id]
  BY <1>7 DEF SeqRec
<1>12. Touched(c, x.id, d) /\ d.seqs[x.id].length = (a + k) + 1 /\ d.seqs[x.id].table = c.seqs[x.id].table
  BY <1>1, <1>6, <1>7, <1>8, <1>10, <1>11, AppendedFacts
<1>13. PICK g : g = [run EXCEPT ![i].generated = @ + 1]
  OBVIOUS
<1>14. g[i].id = x.id /\ g[i].shape = x.shape /\ g[i].generated = k + 1
  <2>1. PICK h : h = [x EXCEPT !.generated = @ + 1]
    OBVIOUS
  <2>2. h.id = x.id /\ h.shape = x.shape /\ h.generated = k + 1
    <3>1. PICK u, v, w : x = [id |-> u, shape |-> v, generated |-> w]
      BY DEF Runners
    <3> QED BY <2>1, <3>1, <1>5
  <2>3. g[i] = h
    BY <1>4, <1>13, <2>1
  <2> QED BY <2>2, <2>3
<1>15. Holds(d, g[i])
  <2>1. x.id \in DOMAIN d.seqs
    BY <1>12 DEF Touched
  <2>2. (a + k) + 1 = a + (k + 1)
    OBVIOUS
  <2> QED BY <2>1, <2>2, <1>5, <1>7, <1>12, <1>14 DEF Holds, Capacity
<1>16. g \in Seq(Runners) /\ RoomFor(d, g, outside, Prefilling)
  <2>1. Touched(c, run[i].id, d)
    BY <1>4, <1>12
  <2> QED BY <2>1, <1>1, <1>13, <1>15, RoomDecoded
<1>17. d \in Caches /\ Partitioned(d)
  BY <1>12 DEF Touched
<1>18. kv' = d /\ running' = g
  BY <1>9, <1>10, <1>13
<1>19. BatchTypes'
  <2>1. i + 1 \in Nat
    OBVIOUS
  <2> QED BY <2>1, <1>9, <1>16, <1>17, <1>18 DEF BatchInv, BatchTypes
<1>20. IndexInv'
  BY <1>9, SameIndex DEF BatchInv
<1>21. BlocksPartitioned'
  BY <1>17, <1>18 DEF BlocksPartitioned
<1>22. RoomInv'
  <2>1. Prefilling' = {} /\ Prefilling = {}
    BY <1>2, <1>9 DEF Prefilling
  <2> QED BY <2>1, <1>9, <1>16, <1>18 DEF RoomInv
<1>23. PrefillInv' /\ DecodeInv'
  BY <1>9 DEF PrefillInv, DecodeInv
<1> QED BY <1>9, <1>19, <1>20, <1>21, <1>22, <1>23 DEF BatchInv

\* The executor fails: a prompt is undone, a decode leaves everything as it was.
LEMMA ExecutorFailsStep ==
  ASSUME BatchInv, ExecutorFails
  PROVE  BatchInv'
<1>1. /\ phase = "prefill" \/ phase = "decode"
      /\ kv' = IF phase = "prefill" THEN Freed(kv, request.id) ELSE kv
      /\ phase' = "out" /\ position' = 0 /\ orderLimit' = 0 /\ lastError' = "EXECUTOR_FAILURE"
      /\ UNCHANGED <<buckets, tree, nextOrder, running, outside>>
  BY DEF ExecutorFails, InCallback, Fail, EndStep
<1>2. CASE phase = "decode"
  <2>1. kv' = kv /\ phase # "prefill" /\ phase' # "prefill" /\ DecodeInv'
    BY <1>1, <1>2 DEF DecodeInv
  <2> QED BY <1>1, <2>1, QuietStep
<1>3. CASE phase = "prefill"
  BY <1>1, <1>3, GiveBackStep
<1> QED BY <1>1, <1>2, <1>3

\* Every operation of the cache's users and every step of the scheduler keeps it.
LEMMA BatchStep ==
  ASSUME BatchInv, [BatchNext]_batchVars
  PROVE  BatchInv'
<1>1. CASE Step
  BY <1>1, QuietSteps, RetireStep, AdmitStep, PrefillTokenStep, NextDecodeStep, DecodeTokenStep DEF Step
<1>2. CASE CallerStep
  <2>1. ASSUME NEW id \in SeqIds, NEW shape \in Shapes, AddRequest(id, shape) PROVE BatchInv'
    BY <2>1, AddRequestStep
  <2>2. ASSUME NEW id \in SeqIds,
               CancelWaiting(id) \/ CancelRunning(id) \/ OutsideAppend(id) \/ OutsideFree(id)
        PROVE  BatchInv'
    BY <2>2, CancelWaitingStep, CancelRunningStep, OutsideAppendStep, OutsideFreeStep
  <2>3. ASSUME NEW b \in Blocks, FreeBlock(b) PROVE BatchInv'
    BY <2>3, FreeBlockStep
  <2>4. CASE SetTokenExecutor \/ AllocateBlock \/ ReentrantStep \/ ExecutorFails
    BY <2>4, QuietSteps, AllocateBlockStep, ExecutorFailsStep
  <2> QED BY <1>2, <2>1, <2>2, <2>3, <2>4 DEF CallerStep
<1>3. CASE UNCHANGED batchVars
  BY <1>3, QuietSteps
<1> QED BY <1>1, <1>2, <1>3 DEF BatchNext

\* What the invariant says of an admitted request.
LEMMA RoomIsKept ==
  ASSUME BatchInv
  PROVE  AdmittedHasRoom
<1>1. /\ lastError # "CACHE_APPEND_FAILURE"
      /\ phase = "prefill" => kv.seqs[request.id].length = position
  BY DEF BatchInv, PrefillInv
<1>2. /\ HoldsAll(kv, running) /\ Owned(kv, running, outside, Prefilling)
  BY DEF BatchInv, RoomInv, RoomFor
<1>3. ASSUME NEW i \in DOMAIN running
      PROVE  LET r == running[i]
             IN /\ HasSequence(r.id)
                /\ kv.seqs[r.id].length = r.shape[1] + r.generated
                /\ Len(kv.seqs[r.id].table) = BlocksFor(Capacity(r))
  BY <1>2 DEF HoldsAll, Holds, HasSequence
<1>4. ASSUME NEW id \in DOMAIN kv.seqs
      PROVE  id \in {running[i].id : i \in DOMAIN running} \union outside
                    \union (IF phase = "prefill" THEN {request.id} ELSE {})
  <2>1. id \in outside \/ id \in Prefilling \/ \E i \in DOMAIN running : running[i].id = id
    BY <1>2 DEF Owned
  <2> QED BY <2>1 DEF Prefilling
<1> QED BY <1>1, <1>3, <1>4 DEF AdmittedHasRoom

\* The invariant of the cache and of the scheduler over it.
THEOREM BatchInvariant == BatchSpec => []BatchInv
<1>1. BatchInit => BatchInv
  BY BatchInitInv
<1>2. BatchInv /\ [BatchNext]_batchVars => BatchInv'
  BY BatchStep
<1> QED BY <1>1, <1>2, PTL DEF BatchSpec

\* Every block of the KV cache is in exactly one place, as its tag says, after any
\* sequence of reservations, appends, frees and stray freeBlock calls.
THEOREM BlocksStayPartitioned == BatchSpec => []BlocksPartitioned
<1>1. BatchInv => BlocksPartitioned
  BY DEF BatchInv
<1> QED BY <1>1, BatchInvariant, PTL

\* The prefix-min tree always finds the oldest waiting request that fits, as a scan
\* of all of them would, for every pool and every set of request shapes.
THEOREM OldestIsFound == BatchSpec => []OldestEligibleRight
<1>1. BatchInv => OldestEligibleRight
  BY OldestIsRight DEF BatchInv, BatchTypes, IndexInv
<1> QED BY <1>1, BatchInvariant, PTL

\* An admitted request owns all the blocks it can need, so that no append of a step
\* fails, and its sequence holds exactly the tokens computed for it.
THEOREM AdmittedKeepsRoom == BatchSpec => []AdmittedHasRoom
<1>1. BatchInv => AdmittedHasRoom
  BY RoomIsKept
<1> QED BY <1>1, BatchInvariant, PTL
=============================================================================
