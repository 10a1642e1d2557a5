-------------------------- MODULE StreamDepTracker --------------------------
(***************************************************************************)
(* The tracker of src/core/graph_dependency_tracker.cpp: a tree of atomic  *)
(* counters whose leaves count the tasks completed on each stream and      *)
(* whose inner nodes are meant to hold the minimum below them.  Scheduler  *)
(* workers call notifyKernelComplete, Event::record takes a snapshot, and  *)
(* waitEventSatisfied compares it (only a test asks so far).               *)
(*                                                                         *)
(* Nodes 0..2S-1 are the array tree_; the leaf of slot k is node S + k and *)
(* the parent of node i is (i - 1) / 2, so node S-1 has a second child 2S  *)
(* that is not in the array: reading it yields whatever lies behind.       *)
(***************************************************************************)
EXTENDS Integers, FiniteSets

CONSTANTS
  S,          \* kMaxTrackedStreams (1024)
  StreamIds,  \* stream handles
  Threads,    \* threads that call the tracker
  Events,     \* event keys
  Junk,       \* what the word behind tree_ may hold
  MaxTasks,   \* bound: tasks per stream
  Below       \* the leaves below each node

Slots    == 0..(S - 1)
Nodes    == 0..(2 * S - 1)
Leaf(k)  == S + k
Leaves   == {Leaf(k) : k \in Slots}
Left(i)  == 2 * i + 1
Right(i) == 2 * i + 2
Parent(i) == (i - 1) \div 2
Unmapped == -1
NoEvent  == "none"

ASSUME TrackerAssumption ==
  /\ S \in Nat \ {0}
  /\ MaxTasks \in Nat
  /\ Junk \subseteq Nat
  /\ NoEvent \notin Events

ASSUME BelowAssumption ==
  /\ Below \in [Nodes -> SUBSET Leaves]
  /\ \A l \in Leaves : Below[l] = {l}
  /\ \A i \in Slots : Below[i] = Below[Left(i)] \cup
                       (IF Right(i) \in Nodes THEN Below[Right(i)] ELSE {})

VARIABLES
  tree,       \* tree_
  slotMap,    \* slotMap_, Unmapped where a stream has no entry
  nextSlot,   \* nextSlot_ modulo S
  snaps,      \* eventSnapshots_
  pc, slot, at, lv, rv, key,   \* per thread: point in the code and locals
  own,        \* per thread in record(): the stream and (history) the tasks
              \* enqueued on it before the call
  enq, done,  \* history: tasks enqueued and completed, per stream
  recorded    \* history: own of the record() each event was last recorded by

workVars    == <<own, enq, done, recorded>>
trackerVars == <<tree, slotMap, nextSlot, snaps, pc, slot, at, lv, rv, key, workVars>>

NoSnap == [slot |-> Unmapped, counter |-> 0]
NoWork == [stream |-> "none", tasks |-> 0]

TrackerInit ==
  /\ tree = [i \in Nodes |-> 0]
  /\ slotMap = [s \in StreamIds |-> Unmapped]
  /\ nextSlot = 0
  /\ snaps = [e \in Events |-> NoSnap]
  /\ pc = [p \in Threads |-> "idle"]
  /\ slot = [p \in Threads |-> 0]
  /\ at = [p \in Threads |-> 0]
  /\ lv = [p \in Threads |-> 0]
  /\ rv = [p \in Threads |-> 0]
  /\ key = [p \in Threads |-> NoEvent]
  /\ own = [p \in Threads |-> NoWork]
  /\ enq = [s \in StreamIds |-> 0]
  /\ done = [s \in StreamIds |-> 0]
  /\ recorded = [e \in Events |-> NoWork]

Goto(p, l) == pc' = [pc EXCEPT ![p] = l]

-----------------------------------------------------------------------------
\* slotOf: the stream's slot, or the next one in turn, taken from whichever
\* stream holds it.

SlotOf(p, s) ==
  IF slotMap[s] # Unmapped
    THEN /\ slot' = [slot EXCEPT ![p] = slotMap[s]]
         /\ UNCHANGED <<slotMap, nextSlot>>
    ELSE /\ slot' = [slot EXCEPT ![p] = nextSlot]
         /\ nextSlot' = (nextSlot + 1) % S
         /\ slotMap' = [u \in StreamIds |->
                          IF u = s THEN nextSlot
                          ELSE IF slotMap[u] = nextSlot THEN Unmapped
                          ELSE slotMap[u]]

\* submitStreamTask: a kernel is queued on a stream, whose tasks run in order.
Enqueue(s) ==
  /\ enq[s] < MaxTasks
  /\ enq' = [enq EXCEPT ![s] = @ + 1]
  /\ UNCHANGED <<tree, slotMap, nextSlot, snaps, pc, slot, at, lv, rv, key, own, done,
                 recorded>>

\* notifyKernelComplete, when a task has run: find the slot, count on its
\* leaf, then propagateUp from the leaf to node 0, two loads and a store per level and no lock.
NotifySlot(p, s) ==
  /\ pc[p] = "idle"
  /\ done[s] < enq[s]
  /\ done' = [done EXCEPT ![s] = @ + 1]
  /\ SlotOf(p, s)
  /\ Goto(p, "add")
  /\ UNCHANGED <<tree, snaps, at, lv, rv, key, own, enq, recorded>>

NotifyAdd(p) ==
  /\ pc[p] = "add"
  /\ tree' = [tree EXCEPT ![Leaf(slot[p])] = @ + 1]
  /\ at' = [at EXCEPT ![p] = Leaf(slot[p])]
  /\ Goto(p, "left")
  /\ UNCHANGED <<slotMap, nextSlot, snaps, slot, lv, rv, key, workVars>>

PropagateLeft(p) ==
  /\ pc[p] = "left"
  /\ lv' = [lv EXCEPT ![p] = tree[Left(Parent(at[p]))]]
  /\ Goto(p, "right")
  /\ UNCHANGED <<tree, slotMap, nextSlot, snaps, slot, at, rv, key, workVars>>

ChildValues(i) == IF i \in Nodes THEN {tree[i]} ELSE Junk

PropagateRight(p) ==
  /\ pc[p] = "right"
  /\ \E v \in ChildValues(Right(Parent(at[p]))) : rv' = [rv EXCEPT ![p] = v]
  /\ Goto(p, "store")
  /\ UNCHANGED <<tree, slotMap, nextSlot, snaps, slot, at, lv, key, workVars>>

Smaller(x, y) == IF x <= y THEN x ELSE y

PropagateStoreRight(p) ==
  LET i == Parent(at[p])
  IN
  /\ pc[p] = "store"
  /\ tree' = [tree EXCEPT ![i] = rv[p]]
  /\ at' = [at EXCEPT ![p] = i]
  /\ Goto(p, IF i > 0 THEN "left" ELSE "idle")
  /\ UNCHANGED <<slotMap, nextSlot, snaps, slot, lv, rv, key, workVars>>

PropagateStore(p) ==
  LET i == Parent(at[p])
  IN
  /\ pc[p] = "store"
  /\ tree' = [tree EXCEPT ![i] = Smaller(lv[p], rv[p])]
  /\ at' = [at EXCEPT ![p] = i]
  /\ Goto(p, IF i > 0 THEN "left" ELSE "idle")
  /\ UNCHANGED <<slotMap, nextSlot, snaps, slot, lv, rv, key, workVars>>

\* Event::record queues a task of its own and calls recordEventCounter: find the
\* slot, load its leaf, store the snapshot.
RecordSubmit(p, e, s) ==
  /\ pc[p] = "idle"
  /\ enq[s] < MaxTasks
  /\ own' = [own EXCEPT ![p] = [stream |-> s, tasks |-> enq[s]]]
  /\ enq' = [enq EXCEPT ![s] = @ + 1]
  /\ key' = [key EXCEPT ![p] = e]
  /\ Goto(p, "slot")
  /\ UNCHANGED <<tree, slotMap, nextSlot, snaps, slot, at, lv, rv, done, recorded>>

RecordSlot(p) ==
  /\ pc[p] = "slot"
  /\ SlotOf(p, own[p].stream)
  /\ Goto(p, "load")
  /\ UNCHANGED <<tree, snaps, at, lv, rv, key, workVars>>

RecordLoad(p) ==
  /\ pc[p] = "load"
  /\ lv' = [lv EXCEPT ![p] = tree[Leaf(slot[p])]]
  /\ Goto(p, "snap")
  /\ UNCHANGED <<tree, slotMap, nextSlot, snaps, slot, at, rv, key, workVars>>

RecordStore(p) ==
  /\ pc[p] = "snap"
  /\ snaps' = [snaps EXCEPT ![key[p]] = [slot |-> slot[p], counter |-> lv[p]]]
  /\ recorded' = [recorded EXCEPT ![key[p]] = own[p]]
  /\ key' = [key EXCEPT ![p] = NoEvent]
  /\ own' = [own EXCEPT ![p] = NoWork]
  /\ Goto(p, "idle")
  /\ UNCHANGED <<tree, slotMap, nextSlot, slot, at, lv, rv, enq, done>>

Notify(p) ==
  \/ \E s \in StreamIds : NotifySlot(p, s)
  \/ NotifyAdd(p) \/ PropagateLeft(p) \/ PropagateRight(p) \/ PropagateStore(p)

Record(p) ==
  \/ \E e \in Events, s \in StreamIds : RecordSubmit(p, e, s)
  \/ RecordSlot(p) \/ RecordLoad(p) \/ RecordStore(p)

TrackerNext ==
  \/ \E s \in StreamIds : Enqueue(s)
  \/ \E p \in Threads : Notify(p) \/ Record(p)

TrackerSpec == TrackerInit /\ [][TrackerNext]_trackerVars

-----------------------------------------------------------------------------
\* The tracker's answers.

\* waitEventSatisfied
WaitEventSatisfied(e) ==
  snaps[e] # NoSnap /\ tree[Leaf(snaps[e].slot)] >= snaps[e].counter

-----------------------------------------------------------------------------
(* Properties *)

\* Types of the tracker's members and of the threads' locals.
TrackerTypes ==
  /\ tree \in [Nodes -> Nat]
  /\ slotMap \in [StreamIds -> Slots \cup {Unmapped}]
  /\ nextSlot \in Slots
  /\ pc \in [Threads -> {"idle", "add", "left", "right", "store", "slot", "load", "snap"}]
  /\ slot \in [Threads -> Slots]
  /\ at \in [Threads -> Nodes]
  /\ lv \in [Threads -> Nat]
  /\ rv \in [Threads -> Nat]
  /\ own = [p \in Threads |-> own[p]]
  /\ \A p \in Threads : /\ pc[p] \in {"left", "right", "store"} => at[p] > 0
                        /\ pc[p] = "slot" => own[p].stream \in StreamIds

\* A node never exceeds a leaf below it, however the unlocked propagations of
\* several workers overtake each other and whatever is read behind the array:
\* allCompleted(t) answers true only when every slot's counter has reached t.
NeverOverReports == \A i \in Nodes : \A l \in Below[i] : tree[i] <= tree[l]

\* Two streams never share a slot: slotOf takes a slot away from the stream
\* that held it.
SlotsDistinct ==
  \A s, u \in StreamIds :
    s # u /\ slotMap[s] # Unmapped => slotMap[s] # slotMap[u]

\* An event counts as satisfied from the moment it is recorded, and for good,
\* even when another stream takes over the slot of its snapshot: what is
\* stored is the number of tasks already completed, and leaves only grow.
RecordedIsSatisfied ==
  \A e \in Events : snaps[e] # NoSnap => WaitEventSatisfied(e)

\* What event.cpp:59-60 says the snapshot is for: waitEventSatisfied answers true
\* only when all work enqueued before the record() has finished.
SatisfiedMeansFinished ==
  \A e \in Events : WaitEventSatisfied(e) =>
    done[recorded[e].stream] >= recorded[e].tasks
=============================================================================
