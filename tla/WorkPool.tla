------------------------------ MODULE WorkPool ------------------------------
(***************************************************************************)
(* What the scheduler expects of every container it hands work through     *)
(* (the per-worker Chase-Lev deque, the per-worker SPSC ring, the block    *)
(* pool's MPMC queue): an item that was put is handed to exactly one       *)
(* taker, and nothing is handed out that was not put.  Order is left open. *)
(***************************************************************************)
EXTENDS Naturals

CONSTANT Item

VARIABLES
  ready,   \* items put and not yet handed out
  given    \* how often each item has been handed out

poolVars == <<ready, given>>

Init ==
  /\ ready = {}
  /\ given = [x \in Item |-> 0]

Put(x) ==
  /\ x \notin ready
  /\ given[x] = 0
  /\ ready' = ready \cup {x}
  /\ UNCHANGED given

Take(x) ==
  /\ x \in ready
  /\ ready' = ready \ {x}
  /\ given' = [given EXCEPT ![x] = @ + 1]

Next == \E x \in Item : Put(x) \/ Take(x)

Spec == Init /\ [][Next]_poolVars
=============================================================================
