---------------------------- MODULE PriorityPool ----------------------------
(***************************************************************************)
(* What the scheduler expects of queue_ and of each of numaQueues_: a pool *)
(* of work items that yields one of the highest priority, and in which an  *)
(* item's priority may change while it waits.                              *)
(***************************************************************************)
EXTENDS Integers

CONSTANTS WorkItem   \* records with fields id, stream and priority

VARIABLES
  items,   \* the items waiting
  taken    \* ids of the items handed out

poolVars == <<items, taken>>

Init ==
  /\ items = {}
  /\ taken = {}

Put(x) ==
  /\ x.id \notin taken
  /\ \A y \in items : y.id # x.id
  /\ items' = items \cup {x}
  /\ UNCHANGED taken

Take(x) ==
  /\ \A y \in items : y.priority <= x.priority
  /\ items' = items \ {x}
  /\ taken' = taken \cup {x.id}

Change(x, y) ==
  /\ y.id = x.id /\ y.stream = x.stream
  /\ items' = (items \ {x}) \cup {y}
  /\ UNCHANGED taken

Next ==
  \/ \E x \in WorkItem : Put(x)
  \/ \E x \in items : Take(x)
  \/ \E x \in items, y \in WorkItem : Change(x, y)

Spec == Init /\ [][Next]_poolVars
=============================================================================
