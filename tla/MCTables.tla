------------------------------ MODULE MCTables ------------------------------
(***************************************************************************)
(* The components that keep tables under locks, in files or as a tree of   *)
(* counters, one at a time (which); they share nothing.  The heap gets     *)
(* three levels, the MIG device is the code's, and the thread pool runs    *)
(* two jobs of two chunks from two callers (MCWaits has a nested one).     *)
(***************************************************************************)
EXTENDS IndexedHeap, AuditLog, SecretStore, MigManager, RateLimiter, XlaThreadPool,
        ClusterDispatch, StreamDepTracker, TLC

CONSTANTS q1, q2, x1, x2

VARIABLE which

MCSeeds    == {<<>>, <<4, 3, 1>>}
MCCallerOf == ("A" :> x1) @@ ("B" :> x2)
MCParentOf == [j \in {} |-> <<>>]
MCChunks   == [j \in Jobs |-> 2]
MCArity    == ("ka" :> 1) @@ ("kb" :> 2)
MCBelow ==
  LET below[i \in Nodes] ==
        IF i >= S THEN {i}
        ELSE below[2 * i + 1] \cup (IF 2 * i + 2 < 2 * S THEN below[2 * i + 2] ELSE {})
  IN below

MCInit ==
  /\ which \in {"heap", "audit", "secrets", "mig", "limiter", "pool", "cluster", "tracker"}
  /\ HeapInit /\ AuditInit /\ StoreInit /\ MigInit /\ LimiterInit /\ PoolInit
  /\ ClusterInit /\ TrackerInit

\* The components other than k stay as they are.
Stay(k) ==
  /\ which' = which
  /\ IF k = "heap"    THEN TRUE ELSE UNCHANGED heapVars
  /\ IF k = "audit"   THEN TRUE ELSE UNCHANGED auditVars
  /\ IF k = "secrets" THEN TRUE ELSE UNCHANGED storeVars
  /\ IF k = "mig"     THEN TRUE ELSE UNCHANGED migVars
  /\ IF k = "limiter" THEN TRUE ELSE UNCHANGED limiterVars
  /\ IF k = "pool"    THEN TRUE ELSE UNCHANGED poolVars
  /\ IF k = "cluster" THEN TRUE ELSE UNCHANGED clusterVars
  /\ IF k = "tracker" THEN TRUE ELSE UNCHANGED trackerVars

MCNext ==
  \/ which = "heap" /\ HeapNext /\ Stay("heap")
  \/ which = "audit" /\ AuditNext /\ Stay("audit")
  \/ which = "secrets" /\ StoreNext /\ Stay("secrets")
  \/ which = "mig" /\ MigNext /\ Stay("mig")
  \/ which = "limiter" /\ LimiterNext /\ Stay("limiter")
  \/ which = "pool" /\ PoolNext /\ Stay("pool")
  \/ which = "cluster" /\ ClusterNext /\ Stay("cluster")
  \/ which = "tracker" /\ TrackerNext /\ Stay("tracker")

MCSpec ==
  MCInit /\ [][MCNext]_<<which, heapVars, auditVars, storeVars, migVars, limiterVars,
                         poolVars, clusterVars, trackerVars>>
=============================================================================
