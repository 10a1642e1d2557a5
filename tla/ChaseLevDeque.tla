---------------------------- MODULE ChaseLevDeque ----------------------------
(***************************************************************************)
(* The work-stealing deque of include/vgre/core/scheduler.h, one per       *)
(* scheduler worker: push and pop run on the owner, steal on any other     *)
(* worker.  One action per access to a shared atomic (top_, bottom_, the   *)
(* buffer cells), interleaved sequentially consistently: the seq_cst and   *)
(* release fences of the code are there to obtain exactly that order.      *)
(*                                                                         *)
(* Poppers is the set of threads that call pop.  The class comment allows  *)
(* one, the owner; ~Scheduler adds a second (scheduler.cpp:88).            *)
(***************************************************************************)
EXTENDS Naturals, Integers, FiniteSets

CONSTANTS
  Poppers,    \* threads that call pop(); Owner is one of them
  Owner,      \* the worker the deque belongs to, the only one to push
  Thieves,    \* threads that call steal()
  Capacity,   \* size of buffer_ (1024 in the code)
  MaxPush     \* bound: how many items the owner pushes

Item    == 1..MaxPush
NoItem  == 0
Threads == Poppers \cup Thieves

ASSUME DequeAssumption ==
  /\ Owner \in Poppers
  /\ Poppers \cap Thieves = {}
  /\ Capacity \in Nat \ {0}
  /\ MaxPush \in Nat

VARIABLES
  top,      \* top_
  bottom,   \* bottom_
  buffer,   \* buffer_, indexed modulo the capacity
  pc,       \* where each thread is inside push, pop or steal
  t,        \* the local t of each thread
  b,        \* the local b of push and pop (steal compares bottom_ at once)
  item,     \* the item each thread has read and not yet returned
  pushed,   \* number of items pushed so far; item n is the n-th pushed
  takes     \* how often each item was returned to a caller

vars == <<top, bottom, buffer, pc, t, b, item, pushed, takes>>

Slot(i) == i % Capacity

Init ==
  /\ top = 0
  /\ bottom = 0
  /\ buffer = [i \in 0..(Capacity - 1) |-> NoItem]
  /\ pc = [p \in Threads |-> "idle"]
  /\ t = [p \in Threads |-> 0]
  /\ b = [p \in Threads |-> 0]
  /\ item = [p \in Threads |-> NoItem]
  /\ pushed = 0
  /\ takes = [x \in Item |-> 0]

Goto(p, l) == pc' = [pc EXCEPT ![p] = l]

\* p returns item x to its caller
Return(p, x) ==
  /\ takes' = [takes EXCEPT ![x] = @ + 1]
  /\ Goto(p, "idle")

------------------------------------------------------------------------------
\* push, owner only: load both indices, store the cell, publish bottom

PushRoom(lo, hi) == hi - lo < Capacity - 1

PushLoad ==
  /\ pc[Owner] = "idle"
  /\ pushed < MaxPush
  /\ PushRoom(top, bottom)
  /\ b' = [b EXCEPT ![Owner] = bottom]
  /\ Goto(Owner, "pushStore")
  /\ UNCHANGED <<top, bottom, buffer, t, item, pushed, takes>>

PushStore ==
  /\ pc[Owner] = "pushStore"
  /\ buffer' = [buffer EXCEPT ![Slot(b[Owner])] = pushed + 1]
  /\ Goto(Owner, "pushPublish")
  /\ UNCHANGED <<top, bottom, t, b, item, pushed, takes>>

PushPublish ==
  /\ pc[Owner] = "pushPublish"
  /\ bottom' = b[Owner] + 1
  /\ pushed' = pushed + 1
  /\ Goto(Owner, "idle")
  /\ UNCHANGED <<top, buffer, t, b, item, takes>>

------------------------------------------------------------------------------
\* pop: claim the bottom cell, look at top, race thieves for the last item

PopLoad(p) ==
  /\ pc[p] = "idle"
  /\ b' = [b EXCEPT ![p] = bottom - 1]
  /\ Goto(p, "popStore")
  /\ UNCHANGED <<top, bottom, buffer, t, item, pushed, takes>>

PopStore(p) ==
  /\ pc[p] = "popStore"
  /\ bottom' = b[p]
  /\ Goto(p, "popTop")
  /\ UNCHANGED <<top, buffer, t, b, item, pushed, takes>>

\* mutant: the last item counts as none
PopTopLeavesLast(p) ==
  /\ pc[p] = "popTop"
  /\ t' = [t EXCEPT ![p] = top]
  /\ \/ top < b[p] /\ Return(p, buffer[Slot(b[p])])
     \/ top >= b[p] /\ Goto(p, "popRestore") /\ UNCHANGED takes
  /\ UNCHANGED <<top, bottom, buffer, b, item, pushed>>

PopTop(p) ==
  /\ pc[p] = "popTop"
  /\ t' = [t EXCEPT ![p] = top]
  /\ \/ /\ top < b[p]                                    \* no race possible
        /\ Return(p, buffer[Slot(b[p])])
        /\ UNCHANGED item
     \/ /\ top = b[p]                                    \* last item
        /\ item' = [item EXCEPT ![p] = buffer[Slot(b[p])]]
        /\ Goto(p, "popCas")
        /\ UNCHANGED takes
     \/ /\ top > b[p]                                    \* empty
        /\ Goto(p, "popRestore")
        /\ UNCHANGED <<takes, item>>
  /\ UNCHANGED <<top, bottom, buffer, b, pushed>>

\* mutant: the last item is kept without racing the thieves
PopCasBlind(p) ==
  /\ pc[p] = "popCas"
  /\ top' = t[p] + 1
  /\ takes' = [takes EXCEPT ![item[p]] = @ + 1]
  /\ Goto(p, "popRestore")
  /\ UNCHANGED <<bottom, buffer, t, b, item, pushed>>

PopCas(p) ==
  /\ pc[p] = "popCas"
  /\ IF top = t[p]
       THEN /\ top' = t[p] + 1
            /\ takes' = [takes EXCEPT ![item[p]] = @ + 1]
       ELSE UNCHANGED <<top, takes>>
  /\ Goto(p, "popRestore")
  /\ UNCHANGED <<bottom, buffer, t, b, item, pushed>>

PopRestore(p) ==
  /\ pc[p] = "popRestore"
  /\ bottom' = b[p] + 1
  /\ Goto(p, "idle")
  /\ UNCHANGED <<top, buffer, t, b, item, pushed, takes>>

------------------------------------------------------------------------------
\* steal: load top, then bottom, read the cell, claim it by CAS on top

StealTop(p) ==
  /\ pc[p] = "idle"
  /\ t' = [t EXCEPT ![p] = top]
  /\ Goto(p, "stealBottom")
  /\ UNCHANGED <<top, bottom, buffer, b, item, pushed, takes>>

StealBottom(p) ==
  /\ pc[p] = "stealBottom"
  /\ Goto(p, IF t[p] < bottom THEN "stealRead" ELSE "idle")
  /\ UNCHANGED <<top, bottom, buffer, t, b, item, pushed, takes>>

StealRead(p) ==
  /\ pc[p] = "stealRead"
  /\ item' = [item EXCEPT ![p] = buffer[Slot(t[p])]]
  /\ Goto(p, "stealCas")
  /\ UNCHANGED <<top, bottom, buffer, t, b, pushed, takes>>

StealCas(p) ==
  /\ pc[p] = "stealCas"
  /\ \/ /\ top = t[p]
        /\ top' = t[p] + 1
        /\ Return(p, item[p])
     \/ /\ top # t[p]                                    \* lost the race
        /\ Goto(p, "idle")
        /\ UNCHANGED <<top, takes>>
  /\ UNCHANGED <<bottom, buffer, t, b, item, pushed>>

------------------------------------------------------------------------------
Pop(p)   == PopLoad(p) \/ PopStore(p) \/ PopTop(p) \/ PopCas(p) \/ PopRestore(p)
Steal(p) == StealTop(p) \/ StealBottom(p) \/ StealRead(p) \/ StealCas(p)
Push     == PushLoad \/ PushStore \/ PushPublish

Next ==
  \/ Push
  \/ \E p \in Poppers : Pop(p)
  \/ \E p \in Thieves : Steal(p)

Spec == Init /\ [][Next]_vars

\* The owner's thread keeps running: a push it began completes, and its worker
\* loop pops again and again (scheduler_worker.cpp:38).  Thieves owe nothing.
FairSpec == Spec /\ WF_vars(PushStore \/ PushPublish) /\ WF_vars(Pop(Owner))

------------------------------------------------------------------------------
(* Properties *)

\* The owner decrements bottom_ before it knows whether it may keep the cell,
\* so during pop the cell at bottom still counts as stored.
Claiming == pc[Owner] \in {"popTop", "popCas", "popRestore"}

Live == top..(IF Claiming THEN bottom ELSE bottom - 1)

LiveItems == {buffer[Slot(i)] : i \in Live}

\* Types of the shared words and of the threads' locals; bottom_ may be -1
\* while pop runs on an empty deque.
TypeOK ==
  /\ top \in Nat
  /\ bottom \in Int
  /\ buffer \in [0..(Capacity - 1) -> Item \cup {NoItem}]
  /\ pc \in [Threads -> {"idle", "pushStore", "pushPublish", "popStore",
                          "popTop", "popCas", "popRestore", "stealBottom",
                          "stealRead", "stealCas"}]
  /\ t \in [Threads -> Nat]
  /\ b \in [Threads -> Int]
  /\ item \in [Threads -> Item \cup {NoItem}]
  /\ pushed \in 0..MaxPush
  /\ takes \in [Item -> Nat]

\* No item is returned to two callers, whatever the interleaving of pop and
\* steal: a WorkItem* returned twice would be executed and deleted twice.
NoDoubleTake == \A x \in Item : takes[x] <= 1

\* The deque implements the work pool: a pushed item stays in a live cell
\* until exactly one pop or steal returns it; a thief that read a cell before
\* it was recycled cannot return the wrong item.
Pool == INSTANCE WorkPool WITH ready <- LiveItems, given <- takes
ImplementsWorkPool == Pool!Spec

\* Nothing is left behind: the owner's loop or a thief returns every item
\* whose push has completed (there are MaxPush, so from some point on none is left).
EventuallyTaken == <>[](\A x \in Item : pushed >= x => takes[x] = 1)
=============================================================================
