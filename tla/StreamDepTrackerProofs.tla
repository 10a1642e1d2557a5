----------------------- MODULE StreamDepTrackerProofs -----------------------
(***************************************************************************)
(* The tracker's nodes never exceed a leaf below them, for every number of *)
(* slots, threads, streams and events and whatever is read behind tree_.   *)
(*                                                                         *)
(* That a node is at most its children is not preserved: a slow            *)
(* propagation may lower a child after its parent was computed.  What is   *)
(* preserved compares nodes with leaves, which only grow, and says the     *)
(* same of the values a thread has loaded and not yet stored.              *)
(***************************************************************************)
EXTENDS StreamDepTracker, TLAPS

LoadedLeft(p) ==
  pc[p] \in {"right", "store"} =>
    \A l \in Below[Left(Parent(at[p]))] : lv[p] <= tree[l]

LoadedRight(p) ==
  pc[p] = "store" /\ Right(Parent(at[p])) \in Nodes =>
    \A l \in Below[Right(Parent(at[p]))] : rv[p] <= tree[l]

Inv ==
  /\ TrackerTypes
  /\ NeverOverReports
  /\ \A p \in Threads : LoadedLeft(p) /\ LoadedRight(p)

\* The walk of propagateUp stays inside the array, except for the right child
\* of the last inner node, and never stores to a leaf.
LEMMA WalkStaysInside ==
  ASSUME NEW i \in Nodes, i > 0
  PROVE  /\ Parent(i) \in Slots /\ Parent(i) \in Nodes
         /\ Parent(i) \notin Leaves
         /\ Left(Parent(i)) \in Nodes
         /\ Parent(i) >= 0
  BY TrackerAssumption DEF Nodes, Slots, Leaves, Leaf, Parent, Left

\* Leaves are nodes, and the one of a slot is below no other leaf.
LEMMA LeafFacts ==
  /\ \A k \in Slots : Leaf(k) \in Nodes /\ Leaf(k) \in Leaves /\ Leaf(k) > 0
  /\ Leaves \subseteq Nodes
  /\ \A i \in Nodes : Below[i] \subseteq Leaves
<1>1. \A k \in Slots : Leaf(k) \in Nodes /\ Leaf(k) \in Leaves /\ Leaf(k) > 0
  BY TrackerAssumption DEF Nodes, Slots, Leaves, Leaf
<1>2. Leaves \subseteq Nodes
  BY TrackerAssumption DEF Nodes, Slots, Leaves, Leaf
<1>3. \A i \in Nodes : Below[i] \subseteq Leaves
  BY BelowAssumption
<1> QED
  BY <1>1, <1>2, <1>3

\* slotOf returns a slot of the tree and keeps the map well formed.
LEMMA SlotOfType ==
  ASSUME TrackerTypes, NEW p \in Threads, NEW s \in StreamIds, SlotOf(p, s)
  PROVE  /\ slotMap' \in [StreamIds -> Slots \cup {Unmapped}]
         /\ nextSlot' \in Slots
         /\ slot' \in [Threads -> Slots]
<1>1. (nextSlot + 1) % S \in Slots
  BY TrackerAssumption DEF TrackerTypes, Slots
<1>2. CASE slotMap[s] # Unmapped
  BY <1>2 DEF TrackerTypes, SlotOf
<1>3. CASE slotMap[s] = Unmapped
  BY <1>1, <1>3 DEF TrackerTypes, SlotOf
<1> QED
  BY <1>2, <1>3

\* Nothing the invariant speaks about changes.
LEMMA SameTree ==
  ASSUME Inv, TrackerTypes', UNCHANGED <<tree, at, rv>>,
         \A q \in Threads : pc'[q] \in {"right", "store"} =>
            pc[q] = pc'[q] /\ lv'[q] = lv[q]
  PROVE  Inv'
<1>1. NeverOverReports'
  BY DEF Inv, NeverOverReports
<1>2. ASSUME NEW q \in Threads PROVE LoadedLeft(q)' /\ LoadedRight(q)'
  BY <1>2 DEF Inv, LoadedLeft, LoadedRight
<1> QED
  BY <1>1, <1>2 DEF Inv

\* The initial state satisfies the invariant.
LEMMA InitInv == TrackerInit => Inv
<1> SUFFICES ASSUME TrackerInit PROVE Inv
  OBVIOUS
<1>1. TrackerTypes
  BY TrackerAssumption DEF TrackerInit, TrackerTypes, Nodes, Slots
<1>2. NeverOverReports
  BY LeafFacts DEF TrackerInit, NeverOverReports
<1>3. \A p \in Threads : LoadedLeft(p) /\ LoadedRight(p)
  BY DEF TrackerInit, LoadedLeft, LoadedRight
<1> QED
  BY <1>1, <1>2, <1>3 DEF Inv

\* Finding the slot, in notifyKernelComplete.
LEMMA NotifySlotInv ==
  ASSUME Inv, NEW p \in Threads, NEW s \in StreamIds, NotifySlot(p, s)
  PROVE  Inv'
<1>1. TrackerTypes'
  BY SlotOfType DEF Inv, TrackerTypes, NotifySlot, Goto
<1> QED
  BY <1>1, SameTree DEF Inv, TrackerTypes, NotifySlot, Goto

\* A task is queued, by a launch or by record() itself.
LEMMA EnqueueInv ==
  ASSUME Inv, \/ \E s \in StreamIds : Enqueue(s)
              \/ \E p \in Threads, e \in Events, s \in StreamIds : RecordSubmit(p, e, s)
  PROVE  Inv'
<1>1. TrackerTypes'
  <2>1. CASE \E s \in StreamIds : Enqueue(s)
    BY <2>1 DEF Inv, TrackerTypes, Enqueue
  <2>2. ASSUME NEW p \in Threads, NEW e \in Events, NEW s \in StreamIds, RecordSubmit(p, e, s)
        PROVE  TrackerTypes'
    <3>1. \A q \in Threads : pc'[q] = "slot" => own'[q].stream \in StreamIds
      <4> TAKE q \in Threads
      <4>0. (own[q] = own'[q] /\ pc[q] = pc'[q]) \/ q = p
        BY <2>2 DEF RecordSubmit, Goto, Inv, TrackerTypes
      <4>1. CASE q = p
        BY <2>2, <4>1 DEF RecordSubmit, Inv, TrackerTypes
      <4> QED
        BY <4>0, <4>1 DEF Inv, TrackerTypes
    <3> QED
      BY <2>2, <3>1 DEF Inv, TrackerTypes, RecordSubmit, Goto
  <2> QED
    BY <2>1, <2>2
<1>2. UNCHANGED <<tree, at, rv, lv>> /\ \A q \in Threads : pc'[q] = pc[q] \/ pc'[q] = "slot"
  BY DEF Inv, TrackerTypes, Enqueue, RecordSubmit, Goto
<1>3. \A q \in Threads : pc'[q] \in {"right", "store"} => pc[q] = pc'[q] /\ lv'[q] = lv[q]
  BY <1>2
<1> QED
  BY <1>1, <1>2, <1>3, SameTree

\* Finding the slot, in recordEventCounter.
LEMMA RecordSlotInv ==
  ASSUME Inv, NEW p \in Threads, RecordSlot(p)
  PROVE  Inv'
<1>0. own[p].stream \in StreamIds
  BY DEF Inv, TrackerTypes, RecordSlot
<1>1. TrackerTypes'
  BY <1>0, SlotOfType DEF Inv, TrackerTypes, RecordSlot, Goto, workVars
<1> QED
  BY <1>1, SameTree DEF Inv, TrackerTypes, RecordSlot, Goto

\* recordEventCounter loads the leaf.
LEMMA RecordLoadInv ==
  ASSUME Inv, NEW p \in Threads, RecordLoad(p)
  PROVE  Inv'
<1>1. TrackerTypes'
  BY LeafFacts DEF Inv, TrackerTypes, RecordLoad, Goto, workVars
<1> QED
  BY <1>1, SameTree DEF Inv, TrackerTypes, RecordLoad, Goto

\* recordEventCounter stores the snapshot.
LEMMA RecordStoreInv ==
  ASSUME Inv, NEW p \in Threads, RecordStore(p)
  PROVE  Inv'
<1>1. TrackerTypes'
  BY DEF Inv, TrackerTypes, RecordStore, Goto
<1> QED
  BY <1>1, SameTree DEF Inv, TrackerTypes, RecordStore, Goto

\* The only step that changes a leaf: it grows, so no node can pass it.
LEMMA NotifyAddInv ==
  ASSUME Inv, NEW p \in Threads, NotifyAdd(p)
  PROVE  Inv'
<1> DEFINE leaf == Leaf(slot[p])
<1>0. leaf \in Nodes /\ leaf \in Leaves /\ leaf > 0
  BY LeafFacts DEF Inv, TrackerTypes
<1>1. TrackerTypes'
  BY <1>0 DEF Inv, TrackerTypes, NotifyAdd, Goto, workVars
<1>2. /\ \A i \in Nodes : tree[i] <= tree'[i]
      /\ \A i \in Nodes \ {leaf} : tree'[i] = tree[i]
  BY <1>0 DEF Inv, TrackerTypes, NotifyAdd
<1>3. NeverOverReports'
  <2> SUFFICES ASSUME NEW i \in Nodes, NEW l \in Below[i]
               PROVE  tree'[i] <= tree'[l]
    BY DEF NeverOverReports
  <2>1. l \in Nodes /\ tree[i] <= tree[l] /\ tree[i] \in Nat /\ tree[l] \in Nat
    BY LeafFacts DEF Inv, NeverOverReports, TrackerTypes
  <2>2. tree'[i] \in Nat /\ tree'[l] \in Nat
    BY <1>1, <2>1 DEF TrackerTypes
  <2>3. CASE i = leaf
    <3>1. Below[i] = {i}
      BY <1>0, <2>3, BelowAssumption
    <3> QED
      BY <2>2, <3>1
  <2>4. CASE i # leaf
    BY <1>2, <2>1, <2>2, <2>4
  <2> QED
    BY <2>3, <2>4
<1>4. ASSUME NEW q \in Threads PROVE LoadedLeft(q)' /\ LoadedRight(q)'
  <2>1. CASE q = p
    BY <2>1 DEF Inv, TrackerTypes, NotifyAdd, Goto, LoadedLeft, LoadedRight
  <2>2. CASE q # p
    <3>1. pc'[q] = pc[q] /\ at'[q] = at[q] /\ lv'[q] = lv[q] /\ rv'[q] = rv[q]
      BY <2>2 DEF Inv, TrackerTypes, NotifyAdd, Goto
    <3>2. LoadedLeft(q) /\ LoadedRight(q)
      BY DEF Inv
    <3>3. pc[q] \in {"right", "store"} => Left(Parent(at[q])) \in Nodes
      BY WalkStaysInside DEF Inv, TrackerTypes
    <3>4. lv[q] \in Nat /\ rv[q] \in Nat /\ tree \in [Nodes -> Nat]
          /\ tree' \in [Nodes -> Nat]
      BY <1>1 DEF Inv, TrackerTypes
    <3>5. LoadedLeft(q)'
      BY <1>2, <3>1, <3>2, <3>3, <3>4, LeafFacts DEF LoadedLeft
    <3>6. LoadedRight(q)'
      BY <1>2, <3>1, <3>2, <3>4, LeafFacts DEF LoadedRight
    <3> QED
      BY <3>5, <3>6
  <2> QED
    BY <2>1, <2>2
<1> QED
  BY <1>1, <1>3, <1>4 DEF Inv

\* A loaded value is a node's value, hence at most the leaves below that node.
LEMMA PropagateLeftInv ==
  ASSUME Inv, NEW p \in Threads, PropagateLeft(p)
  PROVE  Inv'
<1>0. Left(Parent(at[p])) \in Nodes
  BY WalkStaysInside DEF Inv, TrackerTypes, PropagateLeft
<1>1. TrackerTypes'
  BY <1>0 DEF Inv, TrackerTypes, PropagateLeft, Goto, workVars
<1>2. NeverOverReports'
  BY DEF Inv, NeverOverReports, PropagateLeft
<1>3. ASSUME NEW q \in Threads PROVE LoadedLeft(q)' /\ LoadedRight(q)'
  <2>1. CASE q = p
    BY <1>0, <2>1 DEF Inv, TrackerTypes, NeverOverReports, PropagateLeft, Goto,
                      LoadedLeft, LoadedRight
  <2>2. CASE q # p
    BY <2>2 DEF Inv, TrackerTypes, PropagateLeft, Goto, LoadedLeft, LoadedRight
  <2> QED
    BY <2>1, <2>2
<1> QED
  BY <1>1, <1>2, <1>3 DEF Inv

\* The right child may lie behind the array; its value is then any number.
LEMMA PropagateRightInv ==
  ASSUME Inv, NEW p \in Threads, PropagateRight(p)
  PROVE  Inv'
<1> DEFINE r == Right(Parent(at[p]))
<1>1. PICK v \in ChildValues(r) : rv' = [rv EXCEPT ![p] = v]
  BY DEF PropagateRight
<1>2. v \in Nat /\ (r \in Nodes => v = tree[r])
  BY <1>1, TrackerAssumption DEF ChildValues, Inv, TrackerTypes
<1>3. TrackerTypes'
  BY <1>1, <1>2 DEF Inv, TrackerTypes, PropagateRight, Goto, workVars
<1>4. NeverOverReports'
  BY DEF Inv, NeverOverReports, PropagateRight
<1>5. ASSUME NEW q \in Threads PROVE LoadedLeft(q)' /\ LoadedRight(q)'
  <2>1. CASE q = p
    <3>1. LoadedLeft(p)'
      BY DEF Inv, TrackerTypes, PropagateRight, Goto, LoadedLeft
    <3>2. LoadedRight(p)'
      BY <1>1, <1>2 DEF Inv, TrackerTypes, NeverOverReports, PropagateRight, Goto, LoadedRight
    <3> QED
      BY <2>1, <3>1, <3>2
  <2>2. CASE q # p
    BY <1>1, <2>2 DEF Inv, TrackerTypes, PropagateRight, Goto, LoadedLeft, LoadedRight
  <2> QED
    BY <2>1, <2>2
<1> QED
  BY <1>3, <1>4, <1>5 DEF Inv

\* The stored minimum is at most both loaded values, hence at most every leaf
\* below the node; no leaf is overwritten.
LEMMA PropagateStoreInv ==
  ASSUME Inv, NEW p \in Threads, PropagateStore(p)
  PROVE  Inv'
<1> DEFINE i == Parent(at[p])
           m == Smaller(lv[p], rv[p])
<1>0. /\ at[p] \in Nodes /\ at[p] > 0
      /\ lv[p] \in Nat /\ rv[p] \in Nat
  BY DEF Inv, TrackerTypes, PropagateStore
<1>1. i \in Slots /\ i \in Nodes /\ i \notin Leaves /\ Left(i) \in Nodes /\ i >= 0
  BY <1>0, WalkStaysInside
<1>2. m \in Nat /\ m <= lv[p] /\ m <= rv[p]
  BY <1>0 DEF Smaller
<1>3. tree' = [tree EXCEPT ![i] = m]
  BY DEF PropagateStore
<1>4. TrackerTypes'
  BY <1>1, <1>2, <1>3 DEF Inv, TrackerTypes, PropagateStore, Goto, workVars
<1>5. \A l \in Leaves : tree'[l] = tree[l] /\ tree[l] \in Nat
  BY <1>1, <1>3, LeafFacts DEF Inv, TrackerTypes
<1>6. \A l \in Below[i] : m <= tree[l]
  <2> TAKE l \in Below[i]
  <2>0. tree[l] \in Nat
    BY <1>1, <1>5, LeafFacts
  <2>1. CASE l \in Below[Left(i)]
    BY <1>0, <1>2, <2>0, <2>1 DEF Inv, LoadedLeft, PropagateStore
  <2>2. CASE Right(i) \in Nodes /\ l \in Below[Right(i)]
    BY <1>0, <1>2, <2>0, <2>2 DEF Inv, LoadedRight, PropagateStore
  <2> QED
    BY <1>1, <2>1, <2>2, BelowAssumption
<1>7. NeverOverReports'
  <2> SUFFICES ASSUME NEW j \in Nodes, NEW l \in Below[j]
               PROVE  tree'[j] <= tree'[l]
    BY DEF NeverOverReports
  <2>1. tree'[l] = tree[l]
    BY <1>5, LeafFacts
  <2>2. CASE j = i
    BY <1>1, <1>3, <1>6, <2>1, <2>2 DEF Inv, TrackerTypes
  <2>3. CASE j # i
    BY <1>3, <2>1, <2>3 DEF Inv, NeverOverReports, TrackerTypes
  <2> QED
    BY <2>2, <2>3
<1>8. ASSUME NEW q \in Threads PROVE LoadedLeft(q)' /\ LoadedRight(q)'
  <2>1. CASE q = p
    BY <2>1 DEF Inv, TrackerTypes, PropagateStore, Goto, LoadedLeft, LoadedRight
  <2>2. CASE q # p
    <3>1. pc'[q] = pc[q] /\ at'[q] = at[q] /\ lv'[q] = lv[q] /\ rv'[q] = rv[q]
      BY <2>2 DEF Inv, TrackerTypes, PropagateStore, Goto
    <3>2. LoadedLeft(q) /\ LoadedRight(q)
      BY DEF Inv
    <3>3. pc[q] \in {"right", "store"} => Left(Parent(at[q])) \in Nodes
      BY WalkStaysInside DEF Inv, TrackerTypes
    <3>4. LoadedLeft(q)'
      BY <1>5, <3>1, <3>2, <3>3, LeafFacts DEF LoadedLeft
    <3>5. LoadedRight(q)'
      BY <1>5, <3>1, <3>2, LeafFacts DEF LoadedRight
    <3> QED
      BY <3>4, <3>5
  <2> QED
    BY <2>1, <2>2
<1> QED
  BY <1>4, <1>7, <1>8 DEF Inv

\* A step that changes nothing.
LEMMA StutterInv == Inv /\ UNCHANGED trackerVars => Inv'
  BY DEF Inv, TrackerTypes, NeverOverReports, LoadedLeft, LoadedRight, trackerVars, workVars

\* The tracker's invariant holds in every reachable state.
THEOREM TrackerInvariant == TrackerSpec => []Inv
<1>1. Inv /\ [TrackerNext]_trackerVars => Inv'
  <2> SUFFICES ASSUME Inv, [TrackerNext]_trackerVars PROVE Inv'
    OBVIOUS
  <2>1. CASE UNCHANGED trackerVars
    BY <2>1, StutterInv
  <2>2. ASSUME NEW p \in Threads, Notify(p) PROVE Inv'
    BY <2>2, NotifySlotInv, NotifyAddInv, PropagateLeftInv, PropagateRightInv,
       PropagateStoreInv DEF Notify
  <2>3. ASSUME NEW p \in Threads, Record(p) PROVE Inv'
    BY <2>3, EnqueueInv, RecordSlotInv, RecordLoadInv, RecordStoreInv DEF Record
  <2> QED
    BY <2>1, <2>2, <2>3, EnqueueInv DEF TrackerNext
<1> QED
  BY <1>1, InitInv, PTL DEF TrackerSpec

\* Every call leaves the tracker's members within their types; in particular
\* slots and walk positions stay inside the tree.
THEOREM TrackerTypeOK == TrackerSpec => []TrackerTypes
  BY TrackerInvariant, PTL DEF Inv

\* No node exceeds a leaf below it, for any number of workers propagating at
\* once: allCompleted never answers true too early.
THEOREM TrackerNeverOverReports == TrackerSpec => []NeverOverReports
  BY TrackerInvariant, PTL DEF Inv

\* slotOf keeps the slots of two streams apart: the newcomer's slot is taken
\* away from whoever held it.
LEMMA SlotOfDistinct ==
  ASSUME TrackerTypes, SlotsDistinct, NEW p \in Threads, NEW s \in StreamIds,
         SlotOf(p, s)
  PROVE  SlotsDistinct'
<1>1. CASE slotMap[s] # Unmapped
  BY <1>1 DEF SlotOf, SlotsDistinct
<1>2. CASE slotMap[s] = Unmapped
  <2>1. nextSlot # Unmapped
    BY TrackerAssumption DEF TrackerTypes, Slots, Unmapped
  <2>2. \A u \in StreamIds :
          slotMap'[u] = IF u = s THEN nextSlot
                        ELSE IF slotMap[u] = nextSlot THEN Unmapped ELSE slotMap[u]
    BY <1>2 DEF SlotOf
  <2> QED
    BY <2>1, <2>2 DEF SlotsDistinct
<1> QED
  BY <1>1, <1>2

\* Two streams never share a slot, however many streams come and go.
THEOREM TrackerSlotsDistinct == TrackerSpec => []SlotsDistinct
<1>1. TrackerInit => SlotsDistinct
  BY DEF TrackerInit, SlotsDistinct
<1>2. TrackerTypes /\ SlotsDistinct /\ [TrackerNext]_trackerVars => SlotsDistinct'
  <2> SUFFICES ASSUME TrackerTypes, SlotsDistinct, [TrackerNext]_trackerVars PROVE SlotsDistinct'
    OBVIOUS
  <2>1. CASE UNCHANGED slotMap
    BY <2>1 DEF SlotsDistinct
  <2>2. ASSUME NEW p \in Threads, NEW s \in StreamIds, SlotOf(p, s)
        PROVE  SlotsDistinct'
    BY <2>2, SlotOfDistinct
  <2>3. ASSUME NEW p \in Threads, RecordSlot(p) PROVE SlotsDistinct'
    BY <2>2, <2>3 DEF RecordSlot, TrackerTypes
  <2> QED
    BY <2>1, <2>2, <2>3 DEF TrackerNext, Enqueue, Notify, Record, NotifySlot, NotifyAdd,
       PropagateLeft, PropagateRight, PropagateStore, RecordSubmit, RecordLoad, RecordStore,
       trackerVars
<1> QED
  BY <1>1, <1>2, TrackerTypeOK, PTL DEF TrackerSpec

-----------------------------------------------------------------------------
\* What recordEventCounter has loaded or stored is not above its leaf.
Snapshot == {NoSnap} \cup [slot : Slots, counter : Nat]

SnapInv ==
  /\ snaps \in [Events -> Snapshot]
  /\ \A e \in Events :
       snaps[e] # NoSnap => snaps[e].counter <= tree[Leaf(snaps[e].slot)]
  /\ \A p \in Threads : pc[p] = "snap" => lv[p] <= tree[Leaf(slot[p])]

\* No step lowers a leaf: propagateUp stores to inner nodes only.
LEMMA LeavesGrow ==
  ASSUME TrackerTypes, [TrackerNext]_trackerVars
  PROVE  \A k \in Slots : tree[Leaf(k)] <= tree'[Leaf(k)]
<1> SUFFICES ASSUME NEW k \in Slots PROVE tree[Leaf(k)] <= tree'[Leaf(k)]
  OBVIOUS
<1>0. Leaf(k) \in Nodes /\ Leaf(k) \in Leaves /\ tree[Leaf(k)] \in Nat
  BY LeafFacts DEF TrackerTypes
<1>1. CASE tree' = tree
  BY <1>0, <1>1
<1>2. ASSUME NEW p \in Threads, NotifyAdd(p) PROVE tree[Leaf(k)] <= tree'[Leaf(k)]
  BY <1>0, <1>2 DEF NotifyAdd, TrackerTypes
<1>3. ASSUME NEW p \in Threads, PropagateStore(p)
      PROVE  tree[Leaf(k)] <= tree'[Leaf(k)]
  <2>1. Parent(at[p]) \notin Leaves
    BY <1>3, WalkStaysInside DEF PropagateStore, TrackerTypes
  <2>2. tree'[Leaf(k)] = tree[Leaf(k)]
    BY <1>0, <1>3, <2>1 DEF PropagateStore, TrackerTypes
  <2> QED
    BY <1>0, <2>2
<1> QED
  BY <1>1, <1>2, <1>3 DEF TrackerNext, Enqueue, Notify, Record, NotifySlot, PropagateLeft,
     PropagateRight, RecordSubmit, RecordSlot, RecordLoad, RecordStore, trackerVars

\* A step that leaves the snapshots alone and puts no thread behind the load.
LEMMA SameSnap ==
  ASSUME TrackerTypes, TrackerTypes', SnapInv, [TrackerNext]_trackerVars, UNCHANGED snaps,
         \A q \in Threads : pc'[q] = "snap" =>
            pc[q] = "snap" /\ lv'[q] = lv[q] /\ slot'[q] = slot[q]
  PROVE  SnapInv'
<1>0. \A k \in Slots : /\ tree[Leaf(k)] <= tree'[Leaf(k)]
                       /\ tree[Leaf(k)] \in Nat
  BY LeavesGrow, LeafFacts DEF TrackerTypes
<1>2. ASSUME NEW e \in Events, snaps[e] # NoSnap
      PROVE  snaps[e].counter <= tree'[Leaf(snaps[e].slot)]
  <2>1. snaps[e].slot \in Slots /\ snaps[e].counter \in Nat
    BY <1>2 DEF SnapInv, Snapshot
  <2>2. tree'[Leaf(snaps[e].slot)] \in Nat
    BY <2>1, LeafFacts DEF TrackerTypes
  <2> QED
    BY <1>0, <1>2, <2>1, <2>2 DEF SnapInv
<1>3. ASSUME NEW q \in Threads, pc'[q] = "snap" PROVE lv'[q] <= tree'[Leaf(slot'[q])]
  <2>1. slot[q] \in Slots /\ lv[q] \in Nat
    BY DEF TrackerTypes
  <2>2. tree'[Leaf(slot[q])] \in Nat
    BY <2>1, LeafFacts DEF TrackerTypes
  <2> QED
    BY <1>0, <1>3, <2>1, <2>2 DEF SnapInv
<1> QED
  BY <1>2, <1>3 DEF SnapInv

\* The load: the thread's value is its leaf's.
LEMMA RecordLoadSnap ==
  ASSUME TrackerTypes, SnapInv, NEW p \in Threads, RecordLoad(p)
  PROVE  SnapInv'
<1>1. ASSUME NEW q \in Threads, pc'[q] = "snap" PROVE lv'[q] <= tree'[Leaf(slot'[q])]
  <2>1. tree[Leaf(slot[p])] \in Nat
    BY LeafFacts DEF TrackerTypes
  <2>2. CASE q = p
    BY <2>1, <2>2 DEF RecordLoad, TrackerTypes
  <2>3. CASE q # p
    BY <1>1, <2>3 DEF RecordLoad, Goto, SnapInv, TrackerTypes
  <2> QED
    BY <2>2, <2>3
<1> QED
  BY <1>1 DEF RecordLoad, SnapInv

\* The store: the snapshot is what the thread loaded.
LEMMA RecordStoreSnap ==
  ASSUME TrackerTypes, SnapInv, NEW p \in Threads, RecordStore(p)
  PROVE  SnapInv'
<1> DEFINE new == [slot |-> slot[p], counter |-> lv[p]]
<1>1. new \in Snapshot /\ new.counter <= tree[Leaf(new.slot)]
  BY DEF RecordStore, SnapInv, Snapshot, TrackerTypes
<1>2. \A e \in Events : snaps'[e] = new \/ snaps'[e] = snaps[e]
  BY DEF RecordStore, SnapInv
<1>3. snaps' \in [Events -> Snapshot]
  BY <1>1 DEF RecordStore, SnapInv
<1>4. \A e \in Events :
        snaps'[e] # NoSnap => snaps'[e].counter <= tree[Leaf(snaps'[e].slot)]
  <2> HIDE DEF new
  <2> QED
    BY <1>1, <1>2 DEF SnapInv
<1>5. \A q \in Threads : pc'[q] = "snap" => lv[q] <= tree[Leaf(slot[q])]
  BY DEF RecordStore, Goto, SnapInv, TrackerTypes
<1> QED
  BY <1>3, <1>4, <1>5 DEF RecordStore, SnapInv

\* Why SatisfiedMeansFinished fails, for every value of the constants: whatever is
\* still queued and whichever streams take over its slot, an event that was recorded
\* is satisfied.  waitEventSatisfied never makes anyone wait.
THEOREM TrackerRecordedIsSatisfied == TrackerSpec => []RecordedIsSatisfied
<1>1. TrackerInit => SnapInv
  BY DEF TrackerInit, SnapInv, Snapshot
<1>2. TrackerTypes /\ TrackerTypes' /\ SnapInv /\ [TrackerNext]_trackerVars => SnapInv'
  <2> SUFFICES ASSUME TrackerTypes, TrackerTypes', SnapInv, [TrackerNext]_trackerVars PROVE SnapInv'
    OBVIOUS
  <2>1. CASE UNCHANGED trackerVars
    BY <2>1, SameSnap DEF trackerVars
  <2>2. ASSUME NEW p \in Threads, Notify(p) PROVE SnapInv'
    <3>1. UNCHANGED snaps
      BY <2>2 DEF Notify, NotifySlot, NotifyAdd, PropagateLeft, PropagateRight,
         PropagateStore
    <3>2. \A q \in Threads : pc'[q] = "snap" =>
            pc[q] = "snap" /\ lv'[q] = lv[q] /\ slot'[q] = slot[q]
      BY <2>2 DEF Notify, NotifySlot, NotifyAdd, PropagateLeft, PropagateRight,
         PropagateStore, SlotOf, Goto, TrackerTypes
    <3> QED
      BY <3>1, <3>2, SameSnap
  <2>3. ASSUME NEW p \in Threads, \/ RecordSlot(p)
                                  \/ \E e \in Events, s \in StreamIds : RecordSubmit(p, e, s)
        PROVE  SnapInv'
    BY <2>3, SameSnap DEF RecordSubmit, RecordSlot, SlotOf, Goto, TrackerTypes
  <2>6. ASSUME NEW s \in StreamIds, Enqueue(s) PROVE SnapInv'
    BY <2>6, SameSnap DEF Enqueue
  <2>4. ASSUME NEW p \in Threads, RecordLoad(p) PROVE SnapInv'
    BY <2>4, RecordLoadSnap
  <2>5. ASSUME NEW p \in Threads, RecordStore(p) PROVE SnapInv'
    BY <2>5, RecordStoreSnap
  <2> QED
    BY <2>1, <2>2, <2>3, <2>4, <2>5, <2>6 DEF TrackerNext, Record
<1>3. TrackerTypes /\ SnapInv => RecordedIsSatisfied
  <2> SUFFICES ASSUME TrackerTypes, SnapInv, NEW e \in Events, snaps[e] # NoSnap
               PROVE  WaitEventSatisfied(e)
    BY DEF RecordedIsSatisfied
  <2>1. snaps[e].slot \in Slots /\ snaps[e].counter \in Nat
    BY DEF SnapInv, Snapshot
  <2>2. tree[Leaf(snaps[e].slot)] \in Nat
    BY <2>1, LeafFacts DEF TrackerTypes
  <2> QED
    BY <2>1, <2>2 DEF SnapInv, WaitEventSatisfied
<1> QED
  BY <1>1, <1>2, <1>3, TrackerTypeOK, PTL DEF TrackerSpec
=============================================================================
