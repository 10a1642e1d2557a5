-------------------------- MODULE ContinuousBatch --------------------------
(***************************************************************************)
(* The continuous-batching scheduler over the paged KV cache               *)
(* (ContinuousBatchScheduler in src/core/kv_cache.cpp).  Requests wait in  *)
(* one queue per number of blocks they need; a prefix-min tree over the    *)
(* queues finds the oldest one that fits.  step() retires, admits and      *)
(* decodes, and runs the caller's token executor for every token.          *)
(*                                                                         *)
(* Neither class is thread-safe, but the executor runs in the middle of    *)
(* step() and may call back: phase is "out" between steps and "prefill" or *)
(* "decode" while the executor runs.  Only then do the caller's other      *)
(* operations interleave; the rest of step() is in "retire", "admit" and   *)
(* "next".                                                                 *)
(***************************************************************************)
EXTENDS KVCache

CONSTANTS
  MaxBatch,     \* maxBatch_
  Shapes,       \* <<promptLen, maxNewTokens>> of the requests
  MaxRequests,  \* bound: requests accepted
  MaxFaults,    \* bound: executor failures and clearings
  MaxRaw        \* bound: blocks the caller allocates for itself

ASSUME BatchAssumption ==
  /\ MaxBatch \in Nat \ {0}
  /\ Shapes \subseteq Nat \X Nat
  /\ MaxRequests \in Nat

VARIABLES
  buckets,      \* waitingByBlocks_: entries [id, shape, order]
  tree,         \* waitingTree_
  nextOrder,    \* nextWaitingOrder_
  running,      \* running_: [id, shape, generated]
  executor,     \* tokenExecutor_ is set
  phase,        \* where step() is
  request,      \* the request being admitted
  position,     \* prefill position, or index of the request being decoded
  orderLimit,   \* admissionOrderLimit
  lastError,    \* lastError_
  outside,      \* ids whose sequence the caller itself created
  faults, raws  \* used up bounds

schedVars == <<buckets, tree, nextOrder, running, executor, phase, request, position,
               orderLimit, lastError, outside, faults, raws>>
batchVars == <<kv, schedVars>>

NoBucket == TotalBlocks + 1
BucketIds == 0..TotalBlocks
\* leafCount, doubled until there is a leaf for every bucket.
Leaves[i \in 0..TotalBlocks] ==
  IF i = 0 THEN 1 ELSE IF Leaves[i - 1] < NoBucket THEN 2 * Leaves[i - 1] ELSE Leaves[i - 1]
TreeBase == Leaves[TotalBlocks]
NoRequest == [id |-> 0, shape |-> <<0, 0>>, order |-> 0]
Capacity(r) == r.shape[1] + r.shape[2]

BatchInit ==
  /\ KVInit
  /\ buckets = [b \in BucketIds |-> <<>>]
  /\ tree = [i \in 0..(2 * TreeBase - 1) |-> NoBucket]
  /\ nextOrder = 0
  /\ running = <<>>
  /\ executor = FALSE
  /\ phase = "out" /\ request = NoRequest /\ position = 0
  /\ orderLimit = 0
  /\ lastError = "NONE"
  /\ outside = {}
  /\ faults = 0 /\ raws = 0

-----------------------------------------------------------------------------
(* The waiting index. *)
Older(bs, l, r) ==
  IF l = NoBucket THEN r ELSE IF r = NoBucket THEN l
  ELSE IF Head(bs[l]).order <= Head(bs[r]).order THEN l ELSE r

\* Mutant: the nodes above the leaf stay as they are.
UpdatedLeaf(t, bs, b) ==
  [t EXCEPT ![TreeBase + b] = IF bs[b] = <<>> THEN NoBucket ELSE b]

\* updateWaitingBucket: the leaf, then node after node on the way up to the root.
Climb(t, bs, b) ==
  LET leaf == TreeBase + b
      up[i \in 0..leaf] ==
        IF i = 0
        THEN [node |-> leaf, tree |-> [t EXCEPT ![leaf] = IF bs[b] = <<>> THEN NoBucket ELSE b]]
        ELSE LET n == up[i - 1].node \div 2
                 u == up[i - 1].tree
             IN IF up[i - 1].node <= 1 THEN up[i - 1]
                ELSE [node |-> n, tree |-> [u EXCEPT ![n] = Older(bs, u[2 * n], u[2 * n + 1])]]
  IN up
Updated(t, bs, b) == Climb(t, bs, b)[TreeBase + b].tree

\* One round of the prefix query on [l, r): the ends that are not left children
\* of a node further up are taken in.
QueryRound(q) ==
  IF q.l >= q.r THEN q
  ELSE LET ol == IF q.l % 2 = 1 THEN Older(buckets, q.ol, tree[q.l]) ELSE q.ol
           or == IF q.r % 2 = 1 THEN Older(buckets, tree[q.r - 1], q.or) ELSE q.or
       IN [l |-> (q.l + (q.l % 2)) \div 2, r |-> (q.r - (q.r % 2)) \div 2, ol |-> ol, or |-> or]
Query(last) ==
  LET round[i \in 0..NoBucket] ==
        IF i = 0
        THEN [l |-> TreeBase, r |-> TreeBase + last + 1, ol |-> NoBucket, or |-> NoBucket]
        ELSE QueryRound(round[i - 1])
  IN round[NoBucket]

\* oldestEligibleWaitingBucket
OldestEligible(available, beforeOrder) ==
  LET last == IF available < TotalBlocks THEN available ELSE TotalBlocks
      b    == Older(buckets, Query(last).ol, Query(last).or)
  IN IF b # NoBucket /\ Head(buckets[b]).order >= beforeOrder THEN NoBucket ELSE b

Waiting   == UNION {ToSet(buckets[b]) : b \in BucketIds}
ActiveIds == {r.id : r \in Waiting} \union {r.id : r \in ToSet(running)}

-----------------------------------------------------------------------------
(* What the caller may do between steps and inside the executor. *)
InCallback == phase \in {"prefill", "decode"}

AddRequest(id, shape) ==
  LET r  == [id |-> id, shape |-> shape, order |-> nextOrder]
      b  == BlocksFor(Capacity(r))
      bs == [buckets EXCEPT ![b] = Append(@, r)]
  IN /\ phase = "out" \/ InCallback
     /\ nextOrder < MaxRequests
     /\ b <= TotalBlocks /\ ~HasSequence(id) /\ id \notin ActiveIds
     /\ buckets' = bs /\ tree' = Updated(tree, bs, b)
     /\ nextOrder' = nextOrder + 1
     /\ UNCHANGED <<kv, running, executor, phase, request, position, orderLimit,
                    lastError, outside, faults, raws>>

\* cancelRequest returns false inside step(), and for a request that is done.
CancelWaiting(id) ==
  \E b \in BucketIds : \E i \in DOMAIN buckets[b] :
    LET bs == [buckets EXCEPT ![b] = RemoveAt(@, i)]
    IN /\ phase = "out" /\ buckets[b][i].id = id
       /\ buckets' = bs /\ tree' = Updated(tree, bs, b)
       /\ UNCHANGED <<kv, nextOrder, running, executor, phase, request, position,
                      orderLimit, lastError, outside, faults, raws>>

CancelRunning(id) ==
  \E i \in DOMAIN running :
    /\ phase = "out" /\ running[i].id = id /\ running[i].generated < running[i].shape[2]
    /\ kv' = Freed(kv, id)
    /\ running' = RemoveAt(running, i)
    /\ UNCHANGED <<buckets, tree, nextOrder, executor, phase, request, position,
                   orderLimit, lastError, outside, faults, raws>>

\* Clearing the executor again counts as a fault.  The executor may do it itself: the
\* token it is computing still counts, the next one has no executor.
SetTokenExecutor ==
  /\ phase = "out" \/ InCallback
  /\ executor' = ~executor
  /\ faults' = IF executor THEN faults + 1 ELSE faults
  /\ faults' <= MaxFaults
  /\ UNCHANGED <<kv, buckets, tree, nextOrder, running, phase, request, position,
                 orderLimit, lastError, outside, raws>>

\* The caller uses the cache it shares with the scheduler.
AllocateBlock ==
  /\ phase = "out" \/ InCallback
  /\ raws < MaxRaw /\ FreeBlocks(kv) > 0
  /\ kv' = Allocated(kv) /\ raws' = raws + 1
  /\ UNCHANGED <<buckets, tree, nextOrder, running, executor, phase, request, position,
                 orderLimit, lastError, outside, faults>>

\* freeBlock of any block, its own or not, twice or not.
FreeBlock(b) ==
  /\ phase = "out" \/ InCallback
  /\ kv' = Released(kv, b, "raw")
  /\ UNCHANGED schedVars

\* A sequence of the caller's own, under an id the scheduler may be waiting on.
OutsideAppend(id) ==
  /\ phase = "out" \/ InCallback
  /\ raws < MaxRaw /\ ~HasSequence(id)
  /\ kv' = Appended(kv, id) /\ raws' = raws + 1
  /\ outside' = outside \union {id}
  /\ UNCHANGED <<buckets, tree, nextOrder, running, executor, phase, request, position,
                 orderLimit, lastError, faults>>

OutsideFree(id) ==
  /\ phase = "out" \/ InCallback
  /\ id \in outside
  /\ kv' = Freed(kv, id) /\ outside' = outside \ {id}
  /\ UNCHANGED <<buckets, tree, nextOrder, running, executor, phase, request, position,
                 orderLimit, lastError, faults, raws>>
-----------------------------------------------------------------------------
(* step() *)
Unfinished(r) == r.generated < r.shape[2]

\* step() returns; its locals are gone.
EndStep ==
  /\ phase' = "out"
  /\ request' = NoRequest /\ position' = 0 /\ orderLimit' = 0

Fail(e) == lastError' = e /\ EndStep

\* A step called from the executor fails, but overwrites lastError_.
ReentrantStep ==
  /\ InCallback
  /\ lastError' = "REENTRANT_STEP"
  /\ UNCHANGED <<kv, buckets, tree, nextOrder, running, executor, phase, request,
                 position, orderLimit, outside, faults, raws>>

\* Without an executor only requests without tokens can be stepped.
StepWithoutExecutor ==
  /\ phase = "out" /\ ~executor
  /\ \/ \E i \in DOMAIN running : Unfinished(running[i])
     \/ \E r \in Waiting : r.shape # <<0, 0>>
  /\ Fail("MISSING_EXECUTOR")
  /\ UNCHANGED <<kv, buckets, tree, nextOrder, running, executor, outside,
                 faults, raws>>

\* The start of a step.
StepBegin ==
  /\ phase = "out"
  /\ executor \/ (/\ \A i \in DOMAIN running : ~Unfinished(running[i])
                 /\ \A r \in Waiting : r.shape = <<0, 0>>)
  /\ lastError' = "NONE" /\ phase' = "retire"
  /\ orderLimit' = nextOrder
  /\ UNCHANGED <<kv, buckets, tree, nextOrder, running, executor, request, position,
                 outside, faults, raws>>

\* The next finished request is retired, until none is left.
Retire ==
  LET done == {i \in DOMAIN running : ~Unfinished(running[i])}
  IN /\ phase = "retire"
     /\ IF done = {} THEN phase' = "admit" /\ UNCHANGED <<kv, running>>
        ELSE /\ kv' = Freed(kv, running[Min(done)].id)
             /\ running' = RemoveAt(running, Min(done))
             /\ UNCHANGED phase
     /\ UNCHANGED <<buckets, tree, nextOrder, executor, request, position, orderLimit,
                    lastError, outside, faults, raws>>

\* Mutant: the order limit is one too low.
CandidateBefore == IF Len(running) < MaxBatch /\ orderLimit > 0
                   THEN OldestEligible(FreeBlocks(kv), orderLimit - 1) ELSE NoBucket

\* The oldest waiting request that fits, while the batch has room.
Candidate == IF Len(running) < MaxBatch THEN OldestEligible(FreeBlocks(kv), orderLimit)
                                        ELSE NoBucket

\* The admitted request leaves the head of its bucket for the batch.
Admitted(r) ==
  LET b  == BlocksFor(Capacity(r))
      bs == [buckets EXCEPT ![b] = Tail(@)]
  IN /\ buckets' = bs /\ tree' = Updated(tree, bs, b)
     /\ running' = Append(running, [id |-> r.id, shape |-> r.shape, generated |-> 0])
     /\ phase' = "admit"

\* executeAndAppend without an executor: the step fails before the token.
NoExecutor == ~executor /\ Fail("MISSING_EXECUTOR")

\* The reservation of the oldest request that fits; a request without a prompt is
\* admitted at once, the others run their first prompt token.  Without an executor the
\* reservation is given back.
Admit ==
  LET r == Head(buckets[Candidate])
  IN /\ phase = "admit" /\ Candidate # NoBucket
     /\ IF HasSequence(r.id) \/ ~CanReserve(kv, r.id, Capacity(r))
        THEN Fail("CACHE_RESERVATION_FAILURE") /\ UNCHANGED <<kv, buckets, tree, running>>
        ELSE \/ /\ r.shape[1] > 0
                /\ NoExecutor
                /\ UNCHANGED <<kv, buckets, tree, running>>
             \/ /\ r.shape[1] = 0 \/ executor
                /\ kv' = Reserved(kv, r.id, Capacity(r))
                /\ request' = r /\ position' = 0
                /\ IF r.shape[1] = 0 THEN Admitted(r)
                   ELSE phase' = "prefill" /\ UNCHANGED <<buckets, tree, running>>
                /\ UNCHANGED <<lastError, orderLimit>>
     /\ UNCHANGED <<nextOrder, executor, outside, faults, raws>>

\* Nothing more to admit: decode from the first running request on.
AdmitDone ==
  /\ phase = "admit" /\ Candidate = NoBucket
  /\ phase' = "next" /\ position' = 1 /\ request' = NoRequest
  /\ UNCHANGED <<kv, buckets, tree, nextOrder, running, executor, orderLimit,
                 lastError, outside, faults, raws>>

\* The executor filled a prompt token; after the last one the request is admitted.
PrefillToken ==
  /\ phase = "prefill"
  /\ IF CanAppend(kv, request.id)
     THEN \/ /\ position + 1 < request.shape[1]
             /\ NoExecutor
             /\ kv' = Freed(kv, request.id)
             /\ UNCHANGED <<buckets, tree, running>>
          \/ /\ position + 1 = request.shape[1] \/ executor
             /\ kv' = Appended(kv, request.id)
             /\ position' = position + 1
             /\ IF position + 1 = request.shape[1] THEN Admitted(request)
                ELSE UNCHANGED <<buckets, tree, running, phase>>
             /\ UNCHANGED <<lastError, request, orderLimit>>
     ELSE /\ kv' = Freed(kv, request.id)
          /\ Fail("CACHE_APPEND_FAILURE")
          /\ UNCHANGED <<buckets, tree, running>>
  /\ UNCHANGED <<nextOrder, executor, outside, faults, raws>>

\* The next running request that is not finished, or the end of the step.
NextDecode ==
  LET left == {i \in DOMAIN running : i >= position /\ Unfinished(running[i])}
  IN /\ phase = "next"
     /\ IF left = {} THEN EndStep /\ UNCHANGED lastError
        ELSE \/ NoExecutor
             \/ /\ executor
                /\ phase' = "decode" /\ position' = Min(left)
                /\ UNCHANGED <<request, orderLimit, lastError>>
     /\ UNCHANGED <<kv, buckets, tree, nextOrder, running, executor, outside, faults, raws>>

\* The executor filled a generated token.
DecodeToken ==
  /\ phase = "decode"
  /\ IF CanAppend(kv, running[position].id)
     THEN /\ kv' = Appended(kv, running[position].id)
          /\ running' = [running EXCEPT ![position].generated = @ + 1]
          /\ position' = position + 1 /\ phase' = "next"
          /\ UNCHANGED <<lastError, request, orderLimit>>
     ELSE Fail("CACHE_APPEND_FAILURE") /\ UNCHANGED <<kv, running>>
  /\ UNCHANGED <<buckets, tree, nextOrder, executor, outside, faults, raws>>

\* Mutant: the prompt is not undone.
ExecutorFailsKeeping ==
  /\ InCallback /\ faults < MaxFaults
  /\ Fail("EXECUTOR_FAILURE")
  /\ faults' = faults + 1
  /\ UNCHANGED <<kv, buckets, tree, nextOrder, running, executor, outside, raws>>

\* The executor throws or returns a malformed token: a prompt is undone, a
\* decode leaves the requests before it a token ahead.
ExecutorFails ==
  /\ InCallback /\ faults < MaxFaults
  /\ kv' = IF phase = "prefill" THEN Freed(kv, request.id) ELSE kv
  /\ Fail("EXECUTOR_FAILURE")
  /\ faults' = faults + 1
  /\ UNCHANGED <<buckets, tree, nextOrder, running, executor, outside, raws>>

Step == \/ StepWithoutExecutor \/ StepBegin \/ Retire \/ Admit \/ AdmitDone
        \/ PrefillToken \/ NextDecode \/ DecodeToken

CallerStep ==
  \/ \E id \in SeqIds : \/ \E shape \in Shapes : AddRequest(id, shape)
                         \/ CancelWaiting(id) \/ CancelRunning(id)
                         \/ OutsideAppend(id) \/ OutsideFree(id)
  \/ SetTokenExecutor
  \/ AllocateBlock
  \/ \E b \in Blocks : FreeBlock(b)
  \/ ReentrantStep
  \/ ExecutorFails

BatchNext == Step \/ CallerStep

\* When a step can do something: a step without an executor only sets the error.
StepEnabled == \/ phase # "out" \/ executor
               \/ lastError # "MISSING_EXECUTOR"

\* The caller keeps stepping and the executor returns; between its steps the caller
\* installs an executor and gives back what it took from the cache.  The first and
\* the last conjunct are weak and strong fairness with ENABLED spelled out.
BatchFairness ==
  /\ []<>~StepEnabled \/ []<><<Step>>_batchVars
  /\ SF_batchVars(SetTokenExecutor /\ ~executor)
  /\ SF_batchVars(\E b \in Blocks : FreeBlock(b))
  /\ <>[](outside = {}) \/ []<><<\E id \in outside : OutsideFree(id)>>_batchVars

BatchSpec == BatchInit /\ [][BatchNext]_batchVars /\ BatchFairness

-----------------------------------------------------------------------------
\* The query over the tree finds what a scan of all waiting requests would: the
\* oldest one that fits the blocks available and was there before the limit,
\* whatever was added, cancelled, admitted or put back in between.
OldestEligibleRight ==
  \A a \in BucketIds, limit \in 0..MaxRequests :
    LET fits == {r \in Waiting : BlocksFor(Capacity(r)) <= a}
        old  == {r \in fits : \A q \in fits : r.order <= q.order}
        b    == OldestEligible(a, limit)
    IN IF \E r \in old : r.order < limit
       THEN b # NoBucket /\ Head(buckets[b]) \in old
       ELSE b = NoBucket

\* An admitted request owns every block it can ever need, and its sequence holds
\* exactly its prompt and what it has generated: a token is never computed twice,
\* skipped or refused for lack of a block, however steps fail and are retried.
AdmittedHasRoom ==
  /\ lastError # "CACHE_APPEND_FAILURE"
  /\ \A i \in DOMAIN running :
       LET r == running[i]
       IN /\ HasSequence(r.id)
          /\ kv.seqs[r.id].length = r.shape[1] + r.generated
          /\ Len(kv.seqs[r.id].table) = BlocksFor(Capacity(r))
  /\ phase = "prefill" => kv.seqs[request.id].length = position
  /\ \A id \in DOMAIN kv.seqs :
       id \in {running[i].id : i \in DOMAIN running} \union outside
              \union (IF phase = "prefill" THEN {request.id} ELSE {})

\* When requests stop arriving (MaxRequests have been accepted), every one is finished
\* or cancelled: the batch limit, an older or a larger request, a failed step or a
\* missing executor keeps none waiting for ever, and allDone() comes true and stays
\* so.  With arrivals that never stop this is false: a step admits the oldest request
\* that fits, so small ones can pass a large one for ever.
RequestsEnd == []<>(Waiting = {} /\ running = <<>>)
=============================================================================
