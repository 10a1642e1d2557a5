---------------------------- MODULE StreamOrder ----------------------------
(***************************************************************************)
(* What the scheduler promises about streams (include/vgre/core/scheduler.h,*)
(* "tasks in a given stream are executed sequentially"): the tasks of one  *)
(* stream run once each, in submission order; streams are independent.     *)
(***************************************************************************)
EXTENDS Naturals, Sequences

CONSTANTS Stream, Task

VARIABLES
  waiting,   \* per stream, the tasks submitted and not yet run, oldest first
  history    \* per stream, the tasks run, in order

orderVars == <<waiting, history>>

Init ==
  /\ waiting = [s \in Stream |-> <<>>]
  /\ history = [s \in Stream |-> <<>>]

Submit(s, x) ==
  /\ waiting' = [waiting EXCEPT ![s] = Append(@, x)]
  /\ UNCHANGED history

Run(s) ==
  /\ waiting[s] # <<>>
  /\ history' = [history EXCEPT ![s] = Append(@, Head(waiting[s]))]
  /\ waiting' = [waiting EXCEPT ![s] = Tail(@)]

Next == \E s \in Stream : Run(s) \/ \E x \in Task : Submit(s, x)

Spec == Init /\ [][Next]_orderVars
=============================================================================
