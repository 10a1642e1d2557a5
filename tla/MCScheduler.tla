---------------------------- MODULE MCScheduler ----------------------------
(***************************************************************************)
(* Instances of Scheduler.  Tasks are numbers; tasks 1..3 are stream tasks *)
(* (1 and 2 on stream 0, 3 on stream 1), 4 and 5 concurrent tasks, 6 asks  *)
(* for NUMA node 0, 7..9 go to the ring of worker 0.                       *)
(***************************************************************************)
EXTENDS Scheduler, TLC

CONSTANTS h1, h2

MCStreamOf   == [x \in 1..9 |-> IF x = 3 THEN 1 ELSE 0]
MCNodeWanted == [x \in 1..9 |-> 0]
MCOneHost    == [x \in 1..9 |-> h1]
MCTwoHosts   == [x \in 1..9 |-> IF x \in {2, 5} THEN h2 ELSE h1]
=============================================================================
