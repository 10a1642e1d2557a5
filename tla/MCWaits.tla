------------------------------ MODULE MCWaits ------------------------------
(***************************************************************************)
(* The components whose threads wait for each other and need no more than  *)
(* weak fairness, one at a time (which); they share nothing.  The barrier  *)
(* has a block of three threads, the communicator three ranks and two      *)
(* rounds, and the thread pool runs a job whose first chunk makes a nested *)
(* call.                                                                   *)
(***************************************************************************)
EXTENDS BlockBarrier, NcclCollectives, Event, CircuitBreaker, XlaThreadPool, TLC

CONSTANT x1   \* the thread outside the pool

VARIABLE which

MCCallerOf == "A" :> x1
MCParentOf == "N" :> <<"A", 0>>
MCChunks   == [j \in Jobs |-> 2]

MCInit ==
  /\ which \in {"barrier", "nccl", "event", "breaker", "pool"}
  /\ NcclInit /\ EventInit /\ BreakerInit /\ PoolInit
  /\ BarrierInit
  \* A program matters to its own component only.
  /\ which # "barrier" => \A r \in DOMAIN kernel : kernel[r] = "sync"
  /\ which # "nccl" => \A r \in DOMAIN program : program[r] = <<"AllReduce", 0>>

\* The components other than k stay as they are.
Stay(k) ==
  /\ which' = which
  /\ IF k = "barrier" THEN TRUE ELSE UNCHANGED barrierVars
  /\ IF k = "nccl"    THEN TRUE ELSE UNCHANGED ncclVars
  /\ IF k = "event"   THEN TRUE ELSE UNCHANGED eventVars
  /\ IF k = "breaker" THEN TRUE ELSE UNCHANGED breakerVars
  /\ IF k = "pool"    THEN TRUE ELSE UNCHANGED poolVars

MCNext ==
  \/ which = "barrier" /\ BarrierNext /\ Stay("barrier")
  \/ which = "nccl" /\ NcclNext /\ Stay("nccl")
  \/ which = "event" /\ EventNext /\ Stay("event")
  \/ which = "breaker" /\ BreakerNext /\ Stay("breaker")
  \/ which = "pool" /\ PoolNext /\ Stay("pool")

\* The fairness of each module, for the behaviours of its component.
MCFairness ==
  /\ \A t \in BlockThreads :
       /\ WF_barrierVars(which = "barrier" /\ Arrive(t))
       /\ WF_barrierVars(which = "barrier" /\ Leave(t))
  /\ \A r \in Ranks : WF_ncclVars(which = "nccl" /\ RankStep(r))
  /\ \A s \in EventStreams : /\ WF_eventVars(which = "event" /\ RunTask(s))
                             /\ WF_eventVars(which = "event" /\ NotifyAll(s))
  /\ \A u \in Hosts : /\ WF_eventVars(which = "event" /\ HostStep(u))
                      /\ WF_eventVars(which = "event" /\ Timeout(u))
  /\ \A k \in Clients : WF_breakerVars(which = "breaker" /\ ClientStep(k))
  /\ WF_breakerVars(which = "breaker" /\ Tick)
  /\ \A w \in PoolThreads : /\ WF_poolVars(which = "pool" /\ Busy(w))
                            /\ WF_poolVars(which = "pool" /\ stop /\ Idle(w))
  /\ \A j \in DOMAIN ParentOf : WF_poolVars(which = "pool" /\ Call(j))

MCSpec ==
  /\ MCInit
  /\ [][MCNext]_<<which, barrierVars, ncclVars, eventVars, breakerVars,
                  poolVars>>
  /\ MCFairness

=============================================================================
