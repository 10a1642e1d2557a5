------------------------------ MODULE MCQueues ------------------------------
(***************************************************************************)
(* The three queues, one at a time (which); they share nothing: the deque, *)
(* the ring and the MPMC queue.  In the configuration the deque has its    *)
(* owner and two thieves, the ring one producer, and the MPMC queue two    *)
(* producers and two consumers.                                            *)
(***************************************************************************)
EXTENDS ChaseLevDeque, SPSCRing, MPMCQueue

VARIABLE which

allVars == <<which, vars, ringVars, queueVars>>

MCInit == which \in {"deque", "ring", "mpmc"} /\ Init /\ RingInit /\ QueueInit

MCNext ==
  \/ which = "deque" /\ Next /\ UNCHANGED <<which, ringVars, queueVars>>
  \/ which = "ring" /\ RingNext /\ UNCHANGED <<which, vars, queueVars>>
  \/ which = "mpmc" /\ QueueNext /\ UNCHANGED <<which, vars, ringVars>>

\* The fairness of the three modules, each for the behaviours of its queue.
MCFairness ==
  /\ WF_vars(which = "deque" /\ (PushStore \/ PushPublish))
  /\ WF_vars(which = "deque" /\ Pop(Owner))
  /\ WF_ringVars(which = "ring" /\ RingPop)
  /\ \A p \in RingProducers :
       WF_ringVars(which = "ring" /\ (RingPushCheck(p) \/ RingPushStore(p) \/ RingPushPublish(p)))
  /\ \A p \in QueueProducers : /\ WF_queueVars(which = "mpmc" /\ QueuePush(p))
                               /\ SF_queueVars(which = "mpmc" /\ QueuePushCas(p))
  /\ \A c \in QueueConsumers : /\ WF_queueVars(which = "mpmc" /\ QueuePop(c))
                               /\ SF_queueVars(which = "mpmc" /\ QueuePopCas(c))

MCSpec == MCInit /\ [][MCNext]_allVars /\ MCFairness

-----------------------------------------------------------------------------
\* The ring and the MPMC queue are bounded FIFOs: no item is lost, duplicated,
\* overwritten before it was read or read before it was written, when several
\* threads go for one cell and when the indices wrap.
ImplementsFifo == RingImplementsFifo /\ QueueImplementsFifo

\* Every item whose push was accepted is popped, by the ring's worker and by the
\* consumers of the MPMC queue.
EventuallyPopped == RingEventuallyPopped /\ QueueEventuallyPopped
=============================================================================
