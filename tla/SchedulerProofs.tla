-------------------------- MODULE SchedulerProofs --------------------------
(***************************************************************************)
(* The scheduler for every number of workers, hosts, tasks, streams and    *)
(* NUMA nodes and every capacity of deques and rings.                      *)
(***************************************************************************)
EXTENDS Scheduler, FiniteSetTheorems, TLAPS

(***************************************************************************)
(* Where items are.  An item is in queue_ (spot 0), in a node's queue, in  *)
(* a worker's deque or ring, or in the hand of a runner, from the moment   *)
(* it takes the item until it has accounted for it.                        *)
(***************************************************************************)
Kinds == {"queue", "node", "deque", "ring", "hand"}
Spots == Runners \cup Nodes

In(q, e) == \E i \in DOMAIN q : q[i] = e
Inj(q)   == \A i, j \in DOMAIN q : q[i] = q[j] => i = j

Holds(k, n, it) ==
  \/ k = "queue" /\ n = 0 /\ it \in queue
  \/ k = "node"  /\ n \in Nodes /\ it \in numaQ[n]
  \/ k = "deque" /\ n \in Workers /\ In(deque[n], it)
  \/ k = "ring"  /\ n \in Workers /\ In(ring[n], it)
  \/ k = "hand"  /\ n \in Runners /\ cur[n] = it

Running      == {"run", "finish", "spill", "account"}
WorkerPoints == Running \cup {"start", "seek", "steal", "lock", "block", "blocked", "exited"}
DtorPoints   == Running \cup {"alive", "drain", "join", "dead"}
HostPoints   == Submitting \cup {"idle", "waitAll", "waitStream", "notProcessing", "waited"}

SchedTypes ==
  /\ pend \in [Streams -> Seq(StreamTasks)]
  /\ busy \in [Streams -> BOOLEAN]
  /\ queue \subseteq Items
  /\ numaQ \in [Nodes -> SUBSET Items]
  /\ nodeOf \in [Workers -> Nodes \cup {NoNode}]
  /\ myNode \in [Workers -> Nodes \cup {NoNode}]
  /\ deque \in [Workers -> Seq(Items)]
  /\ ring \in [Workers -> Seq(Items)]
  /\ DOMAIN pc = Runners \cup Hosts
  /\ \A w \in Workers : pc[w] \in WorkerPoints
  /\ pc[Dtor] \in DtorPoints
  /\ \A h \in Hosts : pc[h] \in HostPoints
  /\ cur \in [Runners -> Items \cup {NoItem}]
  /\ left \in [Workers -> SUBSET Workers]
  /\ DOMAIN todo = Hosts
  /\ owed \in [Hosts -> SUBSET Tasks]
  /\ stage \in 0..(2 * NumThreads)
  /\ accepted \subseteq Tasks
  /\ emptied \subseteq RingTasks \cap accepted
  /\ log \in [Streams -> Seq(StreamTasks)]
  /\ runs \in [Tasks -> {0, 1}]

\* A runner has an item in hand while it runs one.
HandInv ==
  \A r \in Runners :
    /\ cur[r] # NoItem <=> pc[r] \in Running
    /\ pc[r] \in {"finish", "spill"} => cur[r].kind = "stream"

\* What a host submits or waits for.
HostInv ==
  \A h \in Hosts :
    /\ pc[h] \in Submitting => todo[h] \in Tasks /\ HostOf[todo[h]] = h
    /\ pc[h] = "streamPush" => todo[h] \in StreamTasks \ accepted
    /\ pc[h] = "streamEnqueue" => todo[h] \in StreamTasks \cap accepted
    /\ pc[h] \in {"count", "ringFull", "countOne"} => todo[h] \in accepted
    /\ pc[h] = "ringFull" => todo[h] \in RingTasks
    /\ pc[h] \in {"waitStream", "notProcessing"} => todo[h] \in Streams

KindInv ==
  \A k \in Kinds, n \in Spots, it \in Items : Holds(k, n, it) =>
    /\ it.task \in accepted
    /\ it.kind = "stream" <=> it.task \in StreamTasks
    /\ it.kind = "empty" <=> it.task \in emptied
    /\ k = "node" => it.task \in NumaTasks

\* A task has at most one item, in one place.
UniqueInv ==
  /\ \A k, l \in Kinds, m, n \in Spots, it, jt \in Items :
       Holds(k, m, it) /\ Holds(l, n, jt) /\ it.task = jt.task
         => k = l /\ m = n /\ it = jt
  /\ \A w \in Workers : Inj(deque[w]) /\ Inj(ring[w])

\* A host that found the ring full has the item in hand.
Full(x) == \E h \in Hosts : pc[h] = "ringFull" /\ todo[h] = x
Held(x) == \E k \in Kinds, n \in Spots, it \in Items : Holds(k, n, it) /\ it.task = x

Ran(k, n) == k = "hand" /\ pc[n] # "run"

RunInv ==
  /\ \A x \in Tasks : x \notin accepted => runs[x] = 0
  /\ \A x \in Tasks : x \in emptied \/ Full(x) => runs[x] = 0
  /\ \A x \in Tasks : Full(x) => ~Held(x) /\ x \notin emptied
  /\ \A k \in Kinds, n \in Spots, it \in Items :
       Holds(k, n, it) /\ it.kind # "empty" => (runs[it.task] = 1 <=> Ran(k, n))
  /\ \A x \in accepted \ (StreamTasks \cup emptied) : runs[x] = 1 \/ Held(x) \/ Full(x)
  /\ \A x \in accepted \cap StreamTasks : runs[x] = 1 \/ In(pend[StreamOf[x]], x)

\* Stream s is being served by an item, or by the host that is about to enqueue one.
Of(it, s) == it.kind = "stream" /\ StreamOf[it.task] = s
Serves(k, n, it, s) == Holds(k, n, it) /\ Of(it, s) /\ ~(k = "hand" /\ pc[n] = "account")
Starts(h, s) == pc[h] = "streamEnqueue" /\ StreamOf[todo[h]] = s

Spilling(k, n) == k = "hand" /\ pc[n] = "spill"

\* isProcessing is handed on without a gap and without a second holder, and the
\* holder has the stream's front task, unless it has just retired it.
StreamInv ==
  \A s \in Streams :
    /\ busy[s] <=> pend[s] # <<>>
    /\ busy[s] <=> \/ \E h \in Hosts : Starts(h, s)
                   \/ \E k \in Kinds, n \in Spots, it \in Items : Serves(k, n, it, s)
    /\ \A g, h \in Hosts : Starts(g, s) /\ Starts(h, s) => g = h
    /\ \A h \in Hosts, k \in Kinds, n \in Spots, it \in Items :
         ~(Starts(h, s) /\ Serves(k, n, it, s))
    /\ \A k, l \in Kinds, m, n \in Spots, it, jt \in Items :
         Serves(k, m, it, s) /\ Serves(l, n, jt, s) => k = l /\ m = n /\ it = jt
    /\ \A k \in Kinds, n \in Spots, it \in Items : Serves(k, n, it, s) =>
         IF Spilling(k, n) THEN ~In(pend[s], it.task) ELSE it.task = pend[s][1]

\* The tasks of a stream's queue: submitted, each once, and only the first may have
\* been run.
PendInv ==
  \A s \in Streams :
    /\ Inj(pend[s])
    /\ \A i \in DOMAIN pend[s] :
         /\ pend[s][i] \in accepted /\ StreamOf[pend[s][i]] = s
         /\ runs[pend[s][i]] = 1 =>
              i = 1 /\ \E r \in Runners : cur[r].task = pend[s][i] /\ pc[r] = "finish"
    /\ \A r \in Runners : pc[r] = "account" => ~In(pend[s], cur[r].task)

\* ~Scheduler: no host is left, what it has drained stays empty but for what a worker
\* puts in its own deque, and a worker leaves only with its deque and queue_ empty.
DtorInv ==
  /\ pc[Dtor] # "alive" => \A h \in Hosts : pc[h] = "idle"
  /\ pc[Dtor] = "alive" => stage = 0
  /\ \A w \in Workers :
       /\ stage > 2 * w /\ deque[w] # <<>> => pc[w] \in Running \cup {"seek"}
       /\ stage > 2 * w + 1 => ring[w] = <<>>
  /\ pc[Dtor] \in {"join", "dead"} =>
       /\ stage = 2 * NumThreads
       /\ (\A w \in Workers : pc[w] = "exited") => queue = {}
  /\ pc[Dtor] = "dead" => \A w \in Workers : pc[w] = "exited"

SchedInv ==
  /\ SchedTypes /\ HandInv /\ HostInv /\ KindInv /\ UniqueInv
  /\ RunInv /\ StreamInv /\ PendInv /\ DtorInv

-----------------------------------------------------------------------------
(* Sequences without repetitions *)

LEMMA InAppend ==
  ASSUME NEW S, NEW q \in Seq(S), NEW e \in S
  PROVE  /\ Append(q, e) \in Seq(S)
         /\ \A y : In(Append(q, e), y) <=> In(q, y) \/ y = e
         /\ Inj(q) /\ ~In(q, e) => Inj(Append(q, e))
<1>1. /\ Append(q, e) \in Seq(S) /\ Len(q) \in Nat /\ DOMAIN q = 1..Len(q)
      /\ DOMAIN Append(q, e) = 1..(Len(q) + 1)
      /\ Append(q, e)[Len(q) + 1] = e
      /\ \A i \in 1..Len(q) : Append(q, e)[i] = q[i]
  OBVIOUS
<1> DEFINE p == Append(q, e)
<1> HIDE DEF p
<1>2. PICK n \in Nat : n = Len(q)
  BY <1>1
<1>3. /\ DOMAIN q = 1..n /\ DOMAIN p = 1..(n + 1) /\ p[n + 1] = e
      /\ \A i \in 1..n : p[i] = q[i]
  BY <1>1, <1>2 DEF p
<1>4. \A i \in 1..(n + 1) : i \in 1..n \/ i = n + 1
  OBVIOUS
<1>5. \A i \in 1..n : i \in 1..(n + 1)
  OBVIOUS
<1>8. n + 1 \in 1..(n + 1)
  OBVIOUS
<1>6. \A y : In(p, y) <=> In(q, y) \/ y = e
  BY <1>3, <1>4, <1>5, <1>8 DEF In
<1>7. Inj(q) /\ ~In(q, e) => Inj(p)
  BY <1>3, <1>4, <1>5 DEF In, Inj
<1> QED BY <1>1, <1>6, <1>7 DEF p

LEMMA AppendFacts ==
  ASSUME NEW S, NEW q \in Seq(S), NEW e \in S
  PROVE  /\ Append(q, e) # <<>>
         /\ q # <<>> => Append(q, e)[1] = q[1]
         /\ q = <<>> => Append(q, e)[1] = e
         /\ \A i \in DOMAIN Append(q, e) :
              (i \in DOMAIN q /\ Append(q, e)[i] = q[i]) \/ Append(q, e)[i] = e
<1>1. /\ Append(q, e) \in Seq(S) /\ Len(q) \in Nat /\ DOMAIN q = 1..Len(q)
      /\ DOMAIN Append(q, e) = 1..(Len(q) + 1)
      /\ Append(q, e)[Len(q) + 1] = e
      /\ \A i \in 1..Len(q) : Append(q, e)[i] = q[i]
  OBVIOUS
<1>3. q # <<>> => Len(q) > 0
  OBVIOUS
<1>4. q = <<>> => Len(q) = 0
  OBVIOUS
<1>5. Append(q, e) # <<>>
  <2>1. Len(q) + 1 \in DOMAIN Append(q, e)
    BY <1>1
  <2>2. \A p : p = <<>> => \A i : i \notin DOMAIN p
    OBVIOUS
  <2> QED BY <2>1, <2>2
<1>2. \A i \in 1..(Len(q) + 1) : i \in 1..Len(q) \/ i = Len(q) + 1
  BY <1>1
<1> QED BY <1>1, <1>2, <1>3, <1>4, <1>5

LEMMA InTail ==
  ASSUME NEW S, NEW q \in Seq(S), q # <<>>
  PROVE  /\ Tail(q) \in Seq(S) /\ Head(q) \in S /\ Head(q) = q[1] /\ In(q, Head(q))
         /\ Inj(q) => /\ \A y : In(Tail(q), y) <=> In(q, y) /\ y # Head(q)
                      /\ Inj(Tail(q))
<1>1. /\ Tail(q) \in Seq(S) /\ Len(q) \in Nat \ {0} /\ DOMAIN q = 1..Len(q)
      /\ DOMAIN Tail(q) = 1..(Len(q) - 1) /\ Head(q) = q[1]
      /\ \A i \in 1..(Len(q) - 1) : Tail(q)[i] = q[i + 1]
      /\ Head(q) \in S
  OBVIOUS
<1> DEFINE p == Tail(q)
<1> HIDE DEF p
<1>2. PICK n \in Nat \ {0} : n = Len(q)
  BY <1>1
<1>3. /\ DOMAIN q = 1..n /\ DOMAIN p = 1..(n - 1) /\ Head(q) = q[1]
      /\ \A i \in 1..(n - 1) : p[i] = q[i + 1]
  BY <1>1, <1>2 DEF p
<1>4. \A i \in 1..n : i = 1 \/ (i - 1 \in 1..(n - 1) /\ i = (i - 1) + 1)
  OBVIOUS
<1>5. \A i \in 1..(n - 1) : i + 1 \in 1..n /\ i + 1 # 1
  OBVIOUS
<1>6. 1 \in 1..n
  OBVIOUS
<1>7. In(q, Head(q))
  BY <1>3, <1>6 DEF In
<1>8. ASSUME Inj(q) PROVE \A y : In(p, y) <=> In(q, y) /\ y # Head(q)
  <2>1. ASSUME NEW y, In(p, y) PROVE In(q, y) /\ y # Head(q)
    BY <1>3, <1>5, <1>6, <1>8, <2>1 DEF In, Inj
  <2>2. ASSUME NEW y, In(q, y), y # Head(q) PROVE In(p, y)
    <3>1. PICK i \in 1..n : q[i] = y
      BY <1>3, <2>2 DEF In
    <3>2. i - 1 \in 1..(n - 1) /\ i = (i - 1) + 1
      BY <1>3, <1>4, <2>2, <3>1
    <3>3. p[i - 1] = q[i]
      BY <1>3, <3>2
    <3> QED BY <1>3, <3>1, <3>2, <3>3 DEF In
  <2> QED BY <2>1, <2>2
<1>9. ASSUME Inj(q) PROVE Inj(p)
  <2> SUFFICES ASSUME NEW i \in 1..(n - 1), NEW j \in 1..(n - 1), p[i] = p[j] PROVE i = j
    BY <1>3 DEF Inj
  <2>1. q[i + 1] = q[j + 1] /\ i + 1 \in 1..n /\ j + 1 \in 1..n
    BY <1>3, <1>5
  <2>2. i + 1 = j + 1
    BY <1>3, <1>9, <2>1 DEF Inj
  <2> QED BY <2>2
<1> QED BY <1>1, <1>7, <1>8, <1>9 DEF p

LEMMA InFront ==
  ASSUME NEW S, NEW q \in Seq(S), q # <<>>
  PROVE  /\ SubSeq(q, 1, Len(q) - 1) \in Seq(S) /\ q[Len(q)] \in S /\ In(q, q[Len(q)])
         /\ Inj(q) => /\ \A y : In(SubSeq(q, 1, Len(q) - 1), y) <=> In(q, y) /\ y # q[Len(q)]
                      /\ Inj(SubSeq(q, 1, Len(q) - 1))
<1>0. Len(q) \in Nat \ {0} /\ DOMAIN q = 1..Len(q) /\ \A i \in 1..Len(q) : q[i] \in S
  OBVIOUS
<1>2. PICK n \in Nat \ {0} : n = Len(q)
  BY <1>0
<1>a. \A i \in 1..(n - 1) : i \in 1..n
  OBVIOUS
<1>b. SubSeq(q, 1, n - 1) = [i \in 1..(n - 1) |-> q[i]]
  BY <1>0, <1>2
<1> DEFINE p == SubSeq(q, 1, Len(q) - 1)
<1>1. p \in Seq(S)
  <2>1. \A i \in 1..(n - 1) : q[i] \in S
    BY <1>0, <1>2, <1>a
  <2>2. [i \in 1..(n - 1) |-> q[i]] \in Seq(S)
    BY <2>1
  <2> QED BY <1>2, <1>b, <2>2
<1>3. /\ DOMAIN q = 1..n /\ DOMAIN p = 1..(n - 1)
      /\ \A i \in 1..(n - 1) : p[i] = q[i]
  BY <1>0, <1>2, <1>b
<1> HIDE DEF p
<1>4. \A i \in 1..n : i = n \/ i \in 1..(n - 1)
  OBVIOUS
<1>5. \A i \in 1..(n - 1) : i \in 1..n /\ i # n
  OBVIOUS
<1>6. n \in 1..n
  OBVIOUS
<1>7. In(q, q[n]) /\ q[n] \in S
  BY <1>0, <1>2, <1>3, <1>6 DEF In
<1>8. ASSUME Inj(q) PROVE \A y : In(p, y) <=> In(q, y) /\ y # q[n]
  <2>1. ASSUME NEW y, In(p, y) PROVE In(q, y) /\ y # q[n]
    BY <1>3, <1>5, <1>6, <1>8, <2>1 DEF In, Inj
  <2>2. ASSUME NEW y, In(q, y), y # q[n] PROVE In(p, y)
    BY <1>3, <1>4, <2>2 DEF In
  <2> QED BY <2>1, <2>2
<1>9. ASSUME Inj(q) PROVE Inj(p)
  BY <1>3, <1>5, <1>9 DEF Inj
<1> QED BY <1>1, <1>2, <1>7, <1>8, <1>9 DEF p

-----------------------------------------------------------------------------
(* What a step does to where the items are *)

NoRepeats == \A w \in Workers : Inj(deque[w]) /\ Inj(ring[w])

Same ==
  \A k \in Kinds, n \in Spots, it \in Items : Holds(k, n, it)' <=> Holds(k, n, it)

Added(e, l, m) ==
  \A k \in Kinds, n \in Spots, it \in Items :
    Holds(k, n, it)' <=> Holds(k, n, it) \/ (k = l /\ n = m /\ it = e)

Moved(e, r) ==
  \A k \in Kinds, n \in Spots, it \in Items :
    Holds(k, n, it)' <=> IF it = e THEN k = "hand" /\ n = r ELSE Holds(k, n, it)

Dropped(r) ==
  \A k \in Kinds, n \in Spots, it \in Items :
    Holds(k, n, it)' <=> Holds(k, n, it) /\ ~(k = "hand" /\ n = r)

containers == <<queue, numaQ, deque, ring, cur>>

LEMMA SpotFacts ==
  /\ Workers \subseteq Runners /\ Runners \subseteq Spots /\ Nodes \subseteq Spots
  /\ Dtor \in Runners /\ Dtor \notin Workers /\ 0 \in Workers /\ 0 \in Spots
  /\ NoItem \notin Items /\ Hosts \cap Runners = {}
BY SchedulerAssumption DEF Workers, Runners, Spots, Nodes, Dtor, NoItem, Item, Items

LEMMA NothingMoves ==
  ASSUME NoRepeats, UNCHANGED containers
  PROVE  Same /\ NoRepeats'
BY DEF NoRepeats, Same, Holds, containers

LEMMA QueueGets ==
  ASSUME NoRepeats, NEW e \in Items, queue' = queue \cup {e},
         UNCHANGED <<numaQ, deque, ring, cur>>
  PROVE  Added(e, "queue", 0) /\ NoRepeats'
BY DEF NoRepeats, Added, Holds

LEMMA NodeGets ==
  ASSUME SchedTypes, NoRepeats, NEW e \in Items, NEW m \in Nodes,
         numaQ' = [numaQ EXCEPT ![m] = @ \cup {e}],
         UNCHANGED <<queue, deque, ring, cur>>
  PROVE  Added(e, "node", m) /\ NoRepeats'
<1>1. \A n \in Nodes : numaQ'[n] = IF n = m THEN numaQ[n] \cup {e} ELSE numaQ[n]
  BY DEF SchedTypes
<1> QED BY <1>1 DEF NoRepeats, Added, Holds

LEMMA DequeGets ==
  ASSUME SchedTypes, NoRepeats, NEW e \in Items, NEW v \in Workers,
         deque' = [deque EXCEPT ![v] = Append(@, e)], ~Holds("deque", v, e),
         UNCHANGED <<queue, numaQ, ring, cur>>
  PROVE  Added(e, "deque", v) /\ NoRepeats'
<1>1. \A w \in Workers : deque'[w] = IF w = v THEN Append(deque[w], e) ELSE deque[w]
  BY DEF SchedTypes
<1>2. deque[v] \in Seq(Items) /\ ~In(deque[v], e) /\ Inj(deque[v])
  BY DEF SchedTypes, Holds, NoRepeats
<1>3. /\ \A y : In(deque'[v], y) <=> In(deque[v], y) \/ y = e
      /\ Inj(deque'[v])
  BY <1>1, <1>2, InAppend
<1>4. NoRepeats'
  BY <1>1, <1>3 DEF NoRepeats
<1>5. Added(e, "deque", v)
  BY <1>1, <1>3 DEF Added, Holds
<1> QED BY <1>4, <1>5

LEMMA RingGets ==
  ASSUME SchedTypes, NoRepeats, NEW e \in Items, NEW v \in Workers,
         ring' = [ring EXCEPT ![v] = Append(@, e)], ~Holds("ring", v, e),
         UNCHANGED <<queue, numaQ, deque, cur>>
  PROVE  Added(e, "ring", v) /\ NoRepeats'
<1>1. \A w \in Workers : ring'[w] = IF w = v THEN Append(ring[w], e) ELSE ring[w]
  BY DEF SchedTypes
<1>2. ring[v] \in Seq(Items) /\ ~In(ring[v], e) /\ Inj(ring[v])
  BY DEF SchedTypes, Holds, NoRepeats
<1>3. /\ \A y : In(ring'[v], y) <=> In(ring[v], y) \/ y = e
      /\ Inj(ring'[v])
  BY <1>1, <1>2, InAppend
<1>4. NoRepeats'
  BY <1>1, <1>3 DEF NoRepeats
<1>5. Added(e, "ring", v)
  BY <1>1, <1>3 DEF Added, Holds
<1> QED BY <1>4, <1>5

\* A runner takes an item: once it is out of its container, it is nowhere else.
LEMMA Takes ==
  ASSUME SchedTypes, UniqueInv, NEW r \in Runners, cur[r] = NoItem,
         NEW l \in Kinds \ {"hand"}, NEW m \in Spots, NEW e \in Items, Holds(l, m, e),
         cur' = [cur EXCEPT ![r] = e],
         \A k \in Kinds \ {"hand"}, n \in Spots, it \in Items :
           Holds(k, n, it)' <=> Holds(k, n, it) /\ ~(k = l /\ n = m /\ it = e)
  PROVE  Moved(e, r)
<1>1. \A n \in Runners : cur'[n] = IF n = r THEN e ELSE cur[n]
  BY DEF SchedTypes
<1>2. \A n \in Spots, it \in Items : Holds("hand", n, it)' <=> n \in Runners /\ cur'[n] = it
  BY DEF Holds
<1>3. \A n \in Spots, it \in Items : Holds("hand", n, it) <=> n \in Runners /\ cur[n] = it
  BY DEF Holds
<1>4. \A k \in Kinds, n \in Spots : Holds(k, n, e) => k = l /\ n = m
  BY DEF UniqueInv
<1>5. "hand" \in Kinds
  BY DEF Kinds
<1>6. ASSUME NEW n \in Spots, NEW it \in Items
      PROVE  Holds("hand", n, it)'
               <=> IF it = e THEN n = r ELSE Holds("hand", n, it)
  BY <1>1, <1>2, <1>3, <1>4, <1>5, SpotFacts
<1>7. ASSUME NEW k \in Kinds \ {"hand"}, NEW n \in Spots, NEW it \in Items
      PROVE  Holds(k, n, it)' <=> IF it = e THEN FALSE ELSE Holds(k, n, it)
  BY <1>4
<1> QED BY <1>6, <1>7 DEF Moved

LEMMA QueueGives ==
  ASSUME SchedTypes, UniqueInv, NEW r \in Runners, cur[r] = NoItem, NEW e \in queue,
         cur' = [cur EXCEPT ![r] = e], queue' = queue \ {e}, UNCHANGED <<numaQ, deque, ring>>
  PROVE  Moved(e, r) /\ NoRepeats' /\ Holds("queue", 0, e) /\ e \in Items
<1>1. e \in Items /\ Holds("queue", 0, e)
  BY DEF SchedTypes, Holds
<1>2. \A k \in Kinds \ {"hand"}, n \in Spots, it \in Items :
        Holds(k, n, it)' <=> Holds(k, n, it) /\ ~(k = "queue" /\ n = 0 /\ it = e)
  BY DEF Holds
<1>3. "queue" \in Kinds \ {"hand"}
  BY DEF Kinds
<1> QED BY <1>1, <1>2, <1>3, Takes, SpotFacts DEF UniqueInv, NoRepeats

LEMMA NodeGives ==
  ASSUME SchedTypes, UniqueInv, NEW r \in Runners, cur[r] = NoItem, NEW m \in Nodes,
         NEW e \in numaQ[m], cur' = [cur EXCEPT ![r] = e],
         numaQ' = [numaQ EXCEPT ![m] = @ \ {e}], UNCHANGED <<queue, deque, ring>>
  PROVE  Moved(e, r) /\ NoRepeats' /\ Holds("node", m, e) /\ e \in Items
<1>1. e \in Items /\ Holds("node", m, e)
  BY DEF SchedTypes, Holds
<1>2. \A n \in Nodes : numaQ'[n] = IF n = m THEN numaQ[n] \ {e} ELSE numaQ[n]
  BY DEF SchedTypes
<1>3. \A k \in Kinds \ {"hand"}, n \in Spots, it \in Items :
        Holds(k, n, it)' <=> Holds(k, n, it) /\ ~(k = "node" /\ n = m /\ it = e)
  BY <1>2 DEF Holds
<1>4. "node" \in Kinds \ {"hand"} /\ m \in Spots
  BY SpotFacts DEF Kinds
<1> QED BY <1>1, <1>3, <1>4, Takes DEF UniqueInv, NoRepeats

\* A deque gives its last item to its owner and its first one to a thief.
LEMMA DequeGives ==
  ASSUME SchedTypes, UniqueInv, NEW r \in Runners, cur[r] = NoItem, NEW v \in Workers,
         deque[v] # <<>>, NEW e, NEW rest, cur' = [cur EXCEPT ![r] = e],
         deque' = [deque EXCEPT ![v] = rest], UNCHANGED <<queue, numaQ, ring>>,
         \/ e = Head(deque[v]) /\ rest = Tail(deque[v])
         \/ e = deque[v][Len(deque[v])] /\ rest = SubSeq(deque[v], 1, Len(deque[v]) - 1)
  PROVE  /\ Moved(e, r) /\ NoRepeats' /\ Holds("deque", v, e) /\ e \in Items
         /\ rest \in Seq(Items)
<1>1. deque[v] \in Seq(Items) /\ Inj(deque[v])
  BY DEF SchedTypes, UniqueInv
<1>2. /\ e \in Items /\ rest \in Seq(Items) /\ In(deque[v], e) /\ Inj(rest)
      /\ \A y : In(rest, y) <=> In(deque[v], y) /\ y # e
  <2>1. CASE e = Head(deque[v]) /\ rest = Tail(deque[v])
    BY <1>1, <2>1, InTail
  <2>2. CASE /\ e = deque[v][Len(deque[v])]
             /\ rest = SubSeq(deque[v], 1, Len(deque[v]) - 1)
    BY <1>1, <2>2, InFront
  <2> QED BY <2>1, <2>2
<1>3. Holds("deque", v, e)
  BY <1>2 DEF Holds
<1>4. \A w \in Workers : deque'[w] = IF w = v THEN rest ELSE deque[w]
  BY DEF SchedTypes
<1>5. NoRepeats'
  BY <1>2, <1>4 DEF UniqueInv, NoRepeats
<1>6. \A k \in Kinds \ {"hand"}, n \in Spots, it \in Items :
        Holds(k, n, it)' <=> Holds(k, n, it) /\ ~(k = "deque" /\ n = v /\ it = e)
  BY <1>2, <1>4 DEF Holds
<1>7. "deque" \in Kinds \ {"hand"} /\ v \in Spots
  BY SpotFacts DEF Kinds
<1> QED BY <1>2, <1>3, <1>5, <1>6, <1>7, Takes

LEMMA RingGives ==
  ASSUME SchedTypes, UniqueInv, NEW r \in Runners, cur[r] = NoItem, NEW v \in Workers,
         ring[v] # <<>>, cur' = [cur EXCEPT ![r] = Head(ring[v])],
         ring' = [ring EXCEPT ![v] = Tail(@)], UNCHANGED <<queue, numaQ, deque>>
  PROVE  /\ Moved(Head(ring[v]), r) /\ NoRepeats' /\ Holds("ring", v, Head(ring[v]))
         /\ Head(ring[v]) \in Items /\ Tail(ring[v]) \in Seq(Items)
<1> DEFINE e == Head(ring[v])
<1>1. ring[v] \in Seq(Items) /\ Inj(ring[v])
  BY DEF SchedTypes, UniqueInv
<1>2. /\ e \in Items /\ Tail(ring[v]) \in Seq(Items) /\ In(ring[v], e) /\ Inj(Tail(ring[v]))
      /\ \A y : In(Tail(ring[v]), y) <=> In(ring[v], y) /\ y # e
  BY <1>1, InTail
<1>3. Holds("ring", v, e)
  BY <1>2 DEF Holds
<1>4. \A w \in Workers : ring'[w] = IF w = v THEN Tail(ring[v]) ELSE ring[w]
  BY DEF SchedTypes
<1>5. NoRepeats'
  BY <1>2, <1>4 DEF UniqueInv, NoRepeats
<1>8. cur' = [cur EXCEPT ![r] = e]
  OBVIOUS
<1> HIDE DEF e
<1>6. \A k \in Kinds \ {"hand"}, n \in Spots, it \in Items :
        Holds(k, n, it)' <=> Holds(k, n, it) /\ ~(k = "ring" /\ n = v /\ it = e)
  BY <1>2, <1>4 DEF Holds
<1>7. "ring" \in Kinds \ {"hand"} /\ v \in Spots
  BY SpotFacts DEF Kinds
<1>9. Moved(e, r)
  BY <1>2, <1>3, <1>6, <1>7, <1>8, Takes
<1> QED BY <1>2, <1>3, <1>5, <1>9 DEF e

LEMMA HandDrops ==
  ASSUME SchedTypes, NoRepeats, NEW r \in Runners,
         cur' = [cur EXCEPT ![r] = NoItem], UNCHANGED <<queue, numaQ, deque, ring>>
  PROVE  Dropped(r) /\ NoRepeats'
<1>1. \A n \in Runners : cur'[n] = IF n = r THEN NoItem ELSE cur[n]
  BY DEF SchedTypes
<1> QED BY <1>1, SpotFacts DEF NoRepeats, Dropped, Holds

-----------------------------------------------------------------------------
(* The invariants about work, step by step *)

\* What a step leaves alone: the runners that have an item in hand, and the hosts
\* that are about to enqueue one.
PhasesStay ==
  /\ \A r \in Runners : pc[r] \in Running \/ pc'[r] \in Running => pc'[r] = pc[r]
  /\ cur' = cur
HostsStay ==
  \A h \in Hosts, p \in {"streamEnqueue", "ringFull"} :
    /\ pc'[h] = p <=> pc[h] = p
    /\ pc[h] = p => todo'[h] = todo[h]

WorkInv == KindInv /\ UniqueInv /\ RunInv /\ StreamInv /\ PendInv

workVars == <<pend, busy, runs, accepted, emptied>>

LEMMA HostsStayFacts ==
  ASSUME HostsStay
  PROVE  /\ \A x : Full(x)' <=> Full(x)
         /\ \A h \in Hosts, s \in Streams : Starts(h, s)' <=> Starts(h, s)
BY DEF HostsStay, Full, Starts

\* A step that only moves control.
LEMMA QuietStep ==
  ASSUME SchedTypes, HandInv, WorkInv, Same, NoRepeats', PhasesStay, HostsStay,
         UNCHANGED workVars
  PROVE  WorkInv'
<1> USE DEF workVars
<1>1. \A x : Held(x)' <=> Held(x)
  BY DEF Held, Same
<1>2. \A n \in Runners : cur[n] # NoItem => pc[n] \in Running /\ pc'[n] = pc[n]
  BY DEF HandInv, PhasesStay
<1>3. \A k \in Kinds, n \in Spots, it \in Items :
        Holds(k, n, it) /\ k = "hand" => n \in Runners /\ cur[n] # NoItem
  BY SpotFacts DEF Holds
<1>4. KindInv'
  BY DEF WorkInv, KindInv, Same
<1>5. UniqueInv'
  BY DEF WorkInv, UniqueInv, Same, NoRepeats
<1>6. \A k \in Kinds, n \in Spots, it \in Items : Holds(k, n, it) =>
        /\ Ran(k, n)' <=> Ran(k, n)
        /\ Spilling(k, n)' <=> Spilling(k, n)
        /\ (k = "hand" /\ pc[n] = "account")' <=> (k = "hand" /\ pc[n] = "account")
  BY <1>2, <1>3 DEF Ran, Spilling
<1>7. RunInv'
  <2>1. \A k \in Kinds, n \in Spots, it \in Items :
          Holds(k, n, it)' /\ it.kind # "empty" => (runs'[it.task] = 1 <=> Ran(k, n)')
    BY <1>6 DEF WorkInv, RunInv, Same
  <2> QED BY <1>1, <2>1, HostsStayFacts DEF WorkInv, RunInv
<1>8. \A k \in Kinds, n \in Spots, it \in Items, s \in Streams :
      Serves(k, n, it, s)' <=> Serves(k, n, it, s)
  BY <1>6 DEF Serves, Of, Same
<1>9. StreamInv'
  <2> SUFFICES ASSUME NEW s \in Streams
      PROVE /\ busy[s] <=> pend[s] # <<>>
            /\ busy[s] <=> \/ \E h \in Hosts : Starts(h, s)'
                           \/ \E k \in Kinds, n \in Spots, it \in Items : Serves(k, n, it, s)'
            /\ \A g, h \in Hosts : Starts(g, s)' /\ Starts(h, s)' => g = h
            /\ \A h \in Hosts, k \in Kinds, n \in Spots, it \in Items :
                 ~(Starts(h, s)' /\ Serves(k, n, it, s)')
            /\ \A k, l \in Kinds, m, n \in Spots, it, jt \in Items :
                 Serves(k, m, it, s)' /\ Serves(l, n, jt, s)' => k = l /\ m = n /\ it = jt
            /\ \A k \in Kinds, n \in Spots, it \in Items : Serves(k, n, it, s)' =>
                 IF Spilling(k, n)' THEN ~In(pend[s], it.task) ELSE it.task = pend[s][1]
    BY DEF StreamInv
  <2>1. \A k \in Kinds, n \in Spots, it \in Items : Serves(k, n, it, s) => Holds(k, n, it)
    BY DEF Serves
  <2> QED BY <1>6, <1>8, <2>1, HostsStayFacts DEF WorkInv, StreamInv
<1>10. PendInv'
  <2>1. \A r \in Runners : (pc'[r] = "finish" <=> pc[r] = "finish") /\ cur'[r] = cur[r]
                           /\ (pc'[r] = "account" <=> pc[r] = "account")
    BY DEF PhasesStay, Running
  <2> QED BY <2>1 DEF WorkInv, PendInv
<1> QED BY <1>4, <1>5, <1>7, <1>9, <1>10 DEF WorkInv

\* A runner takes an item out of a container.
LEMMA TakeStep ==
  ASSUME SchedTypes, HandInv, WorkInv, NEW r \in Runners, cur[r] = NoItem,
         NEW l \in Kinds \ {"hand"}, NEW m \in Spots, NEW e \in Items, Holds(l, m, e),
         Moved(e, r), NoRepeats', cur' = [cur EXCEPT ![r] = e],
         pc' = [pc EXCEPT ![r] = "run"], UNCHANGED <<workVars, todo>>
  PROVE  WorkInv'
<1> USE DEF workVars
<1>1. \A n \in Runners : /\ cur'[n] = IF n = r THEN e ELSE cur[n]
                         /\ pc'[n] = IF n = r THEN "run" ELSE pc[n]
  BY SpotFacts DEF SchedTypes
<1>2. HostsStay
  BY SpotFacts DEF HostsStay, SchedTypes
<1>3. "hand" \in Kinds /\ r \in Spots /\ l \in Kinds /\ l # "hand"
  BY SpotFacts DEF Kinds
<1>4. \A k \in Kinds, n \in Spots, it \in Items :
        Holds(k, n, it) /\ k = "hand" => n \in Runners /\ n # r
  BY SpotFacts DEF Holds
<1>5. \A k \in Kinds, n \in Spots, it \in Items : it # e =>
        (Holds(k, n, it)' <=> Holds(k, n, it))
  BY DEF Moved
<1>6. \A k \in Kinds, n \in Spots : Holds(k, n, e)' <=> k = "hand" /\ n = r
  BY DEF Moved
<1>7. \A k \in Kinds, n \in Spots, it \in Items : Holds(k, n, it) =>
        /\ Ran(k, n)' <=> Ran(k, n)
        /\ Spilling(k, n)' <=> Spilling(k, n)
        /\ (k = "hand" /\ pc[n] = "account")' <=> (k = "hand" /\ pc[n] = "account")
  BY <1>1, <1>4 DEF Ran, Spilling
<1>8. \A x : Held(x)' <=> Held(x)
  BY <1>3, <1>5, <1>6 DEF Held
<1>9. /\ ~Ran("hand", r)' /\ ~Spilling("hand", r)' /\ pc'[r] # "account"
      /\ ~Ran(l, m) /\ ~Spilling(l, m)
  BY <1>1, <1>3 DEF Ran, Spilling
<1>10. KindInv'
  <2>1. \A k \in Kinds, n \in Spots, it \in Items : Holds(k, n, it)' =>
          /\ it.task \in accepted
          /\ it.kind = "stream" <=> it.task \in StreamTasks
          /\ it.kind = "empty" <=> it.task \in emptied
          /\ k = "node" => it.task \in NumaTasks
    BY <1>3, <1>5, <1>6 DEF WorkInv, KindInv
  <2> QED BY <2>1 DEF KindInv
<1>11. UniqueInv'
  <2>1. ASSUME NEW k \in Kinds, NEW j \in Kinds, NEW n \in Spots, NEW o \in Spots,
               NEW it \in Items, NEW jt \in Items,
               Holds(k, n, it)', Holds(j, o, jt)', it.task = jt.task
        PROVE  k = j /\ n = o /\ it = jt
    BY <1>3, <1>5, <1>6, <2>1 DEF WorkInv, UniqueInv
  <2> QED BY <2>1 DEF UniqueInv, NoRepeats
<1>12. RunInv'
  <2>1. \A k \in Kinds, n \in Spots, it \in Items :
          Holds(k, n, it)' /\ it.kind # "empty" => (runs'[it.task] = 1 <=> Ran(k, n)')
    BY <1>3, <1>5, <1>6, <1>7, <1>9 DEF WorkInv, RunInv
  <2> QED BY <1>2, <1>8, <2>1, HostsStayFacts DEF WorkInv, RunInv
<1>13. \A k \in Kinds, n \in Spots, it \in Items, s \in Streams : it # e =>
         (Serves(k, n, it, s)' <=> Serves(k, n, it, s))
  BY <1>5, <1>7 DEF Serves, Of
<1>14. \A k \in Kinds, n \in Spots, s \in Streams :
         /\ Serves(k, n, e, s)' <=> k = "hand" /\ n = r /\ Of(e, s)
         /\ Of(e, s) => Serves(l, m, e, s)
  BY <1>3, <1>6, <1>9 DEF Serves, Of
<1>15. StreamInv'
  <2> SUFFICES ASSUME NEW s \in Streams
      PROVE /\ busy[s] <=> pend[s] # <<>>
            /\ busy[s] <=> \/ \E h \in Hosts : Starts(h, s)'
                           \/ \E k \in Kinds, n \in Spots, it \in Items : Serves(k, n, it, s)'
            /\ \A g, h \in Hosts : Starts(g, s)' /\ Starts(h, s)' => g = h
            /\ \A h \in Hosts, k \in Kinds, n \in Spots, it \in Items :
                 ~(Starts(h, s)' /\ Serves(k, n, it, s)')
            /\ \A k, j \in Kinds, n, o \in Spots, it, jt \in Items :
                 Serves(k, n, it, s)' /\ Serves(j, o, jt, s)' => k = j /\ n = o /\ it = jt
            /\ \A k \in Kinds, n \in Spots, it \in Items : Serves(k, n, it, s)' =>
                 IF Spilling(k, n)' THEN ~In(pend[s], it.task) ELSE it.task = pend[s][1]
    BY DEF StreamInv
  <2>0. \A k \in Kinds, n \in Spots, it \in Items : Serves(k, n, it, s) => Holds(k, n, it) /\ Of(it, s)
    BY DEF Serves
  <2>1. (\E k \in Kinds, n \in Spots, it \in Items : Serves(k, n, it, s)')
          <=> (\E k \in Kinds, n \in Spots, it \in Items : Serves(k, n, it, s))
    BY <1>3, <1>13, <1>14, <2>0
  <2>2. \A k, j \in Kinds, n, o \in Spots, it, jt \in Items :
          Serves(k, n, it, s)' /\ Serves(j, o, jt, s)' => k = j /\ n = o /\ it = jt
    BY <1>3, <1>13, <1>14 DEF WorkInv, StreamInv
  <2>3. \A k \in Kinds, n \in Spots, it \in Items : Serves(k, n, it, s)' =>
          IF Spilling(k, n)' THEN ~In(pend[s], it.task) ELSE it.task = pend[s][1]
    BY <1>3, <1>7, <1>9, <1>13, <1>14, <2>0 DEF WorkInv, StreamInv
  <2>4. \A h \in Hosts, k \in Kinds, n \in Spots, it \in Items :
          ~(Starts(h, s)' /\ Serves(k, n, it, s)')
    BY <1>2, <1>3, <1>13, <1>14, HostsStayFacts DEF WorkInv, StreamInv
  <2> QED BY <1>2, <2>1, <2>2, <2>3, <2>4, HostsStayFacts DEF WorkInv, StreamInv
<1>16. PendInv'
  <2>1. \A n \in Runners : /\ pc'[n] = "account" => pc[n] = "account" /\ cur'[n] = cur[n]
                           /\ pc[n] = "finish" => pc'[n] = "finish" /\ cur'[n] = cur[n]
    BY <1>1 DEF HandInv, Running
  <2> QED BY <2>1 DEF WorkInv, PendInv
<1> QED BY <1>10, <1>11, <1>12, <1>15, <1>16 DEF WorkInv

\* A submit call other than submitStreamTask accepts task x and puts its item in
\* a container.
LEMMA AcceptStep ==
  ASSUME SchedTypes, HandInv, WorkInv, HostInv, NEW x \in Tasks \ StreamTasks, x \notin accepted,
         NEW l \in Kinds \ {"hand"}, NEW m \in Spots, l = "node" => x \in NumaTasks,
         Added(Item("solo", x), l, m), NoRepeats', PhasesStay, HostsStay,
         accepted' = accepted \cup {x}, UNCHANGED <<pend, busy, runs, emptied>>
  PROVE  WorkInv'
<1> DEFINE e == Item("solo", x)
<1>1. e \in Items /\ e.task = x /\ e.kind = "solo"
  BY DEF Item, Items
<1>2. \A k \in Kinds, n \in Spots, it \in Items :
        Holds(k, n, it)' <=> Holds(k, n, it) \/ (k = l /\ n = m /\ it = e)
  BY DEF Added
<1> HIDE DEF e
<1>3. \A k \in Kinds, n \in Spots, it \in Items : Holds(k, n, it) => it.task # x
  BY DEF WorkInv, KindInv
<1>4. \A n \in Runners : cur[n] # NoItem => pc[n] \in Running /\ pc'[n] = pc[n]
  BY DEF HandInv, PhasesStay
<1>5. \A k \in Kinds, n \in Spots, it \in Items :
        Holds(k, n, it) /\ k = "hand" => n \in Runners /\ cur[n] # NoItem
  BY SpotFacts DEF Holds
<1>6. \A k \in Kinds, n \in Spots, it \in Items : Holds(k, n, it) =>
        /\ Ran(k, n)' <=> Ran(k, n)
        /\ Spilling(k, n)' <=> Spilling(k, n)
        /\ (k = "hand" /\ pc[n] = "account")' <=> (k = "hand" /\ pc[n] = "account")
  BY <1>4, <1>5 DEF Ran, Spilling
<1>7. \A y : Held(y)' <=> Held(y) \/ y = x
  BY <1>1, <1>2 DEF Held
<1>0. ~Full(x) /\ x \notin emptied
  BY DEF HostInv, Full, SchedTypes, WorkInv, RunInv
<1>8. KindInv'
  <2>1. \A k \in Kinds, n \in Spots, it \in Items : Holds(k, n, it)' =>
          /\ it.task \in accepted'
          /\ it.kind = "stream" <=> it.task \in StreamTasks
          /\ it.kind = "empty" <=> it.task \in emptied'
          /\ k = "node" => it.task \in NumaTasks
    BY <1>0, <1>1, <1>2 DEF WorkInv, KindInv
  <2> QED BY <2>1 DEF KindInv
<1>9. UniqueInv'
  <2>1. ASSUME NEW k \in Kinds, NEW j \in Kinds, NEW n \in Spots, NEW o \in Spots,
               NEW it \in Items, NEW jt \in Items,
               Holds(k, n, it)', Holds(j, o, jt)', it.task = jt.task
        PROVE  k = j /\ n = o /\ it = jt
    BY <1>1, <1>2, <1>3, <2>1 DEF WorkInv, UniqueInv
  <2> QED BY <2>1 DEF UniqueInv, NoRepeats
<1>11. RunInv'
  <2>1. ~Ran(l, m)' /\ runs[x] = 0
    BY DEF Ran, WorkInv, RunInv
  <2>2. \A k \in Kinds, n \in Spots, it \in Items :
          Holds(k, n, it)' /\ it.kind # "empty" => (runs'[it.task] = 1 <=> Ran(k, n)')
    BY <1>1, <1>2, <1>6, <2>1 DEF WorkInv, RunInv
  <2> QED BY <1>7, <1>0, <2>2, HostsStayFacts DEF WorkInv, RunInv
<1>12. \A k \in Kinds, n \in Spots, it \in Items, s \in Streams :
      Serves(k, n, it, s)' <=> Serves(k, n, it, s)
  BY <1>1, <1>2, <1>6 DEF Serves, Of
<1>13. StreamInv'
  <2> SUFFICES ASSUME NEW s \in Streams
      PROVE /\ busy[s] <=> pend[s] # <<>>
            /\ busy[s] <=> \/ \E h \in Hosts : Starts(h, s)'
                           \/ \E k \in Kinds, n \in Spots, it \in Items : Serves(k, n, it, s)'
            /\ \A g, h \in Hosts : Starts(g, s)' /\ Starts(h, s)' => g = h
            /\ \A h \in Hosts, k \in Kinds, n \in Spots, it \in Items :
                 ~(Starts(h, s)' /\ Serves(k, n, it, s)')
            /\ \A k, j \in Kinds, n, o \in Spots, it, jt \in Items :
                 Serves(k, n, it, s)' /\ Serves(j, o, jt, s)' => k = j /\ n = o /\ it = jt
            /\ \A k \in Kinds, n \in Spots, it \in Items : Serves(k, n, it, s)' =>
                 IF Spilling(k, n)' THEN ~In(pend[s], it.task) ELSE it.task = pend[s][1]
    BY DEF StreamInv
  <2>1. \A k \in Kinds, n \in Spots, it \in Items : Serves(k, n, it, s) => Holds(k, n, it)
    BY DEF Serves
  <2> QED BY <1>6, <1>12, <2>1, HostsStayFacts DEF WorkInv, StreamInv
<1>14. PendInv'
  <2>1. \A r \in Runners : (pc'[r] = "finish" <=> pc[r] = "finish") /\ cur'[r] = cur[r]
                           /\ (pc'[r] = "account" <=> pc[r] = "account")
    BY DEF PhasesStay, Running
  <2> QED BY <2>1 DEF WorkInv, PendInv
<1> QED BY <1>8, <1>9, <1>11, <1>13, <1>14 DEF WorkInv

\* enqueueToStream found the ring full: the task is accepted and the host has its
\* item.
LEMMA FullStep ==
  ASSUME SchedTypes, HandInv, WorkInv, HostInv, NEW h \in Hosts, NEW x \in RingTasks,
         x \notin accepted, UNCHANGED containers, PhasesStay,
         pc' = [pc EXCEPT ![h] = "ringFull"], todo' = [todo EXCEPT ![h] = x],
         pc[h] = "idle", accepted' = accepted \cup {x},
         UNCHANGED <<pend, busy, runs, emptied>>
  PROVE  WorkInv'
<1>1. \A g \in Hosts : /\ pc'[g] = IF g = h THEN "ringFull" ELSE pc[g]
                       /\ todo'[g] = IF g = h THEN x ELSE todo[g]
  BY DEF SchedTypes
<1>2. Same /\ NoRepeats'
  BY NothingMoves DEF WorkInv, UniqueInv, NoRepeats
<1>3. \A y : Held(y)' <=> Held(y)
  BY <1>2 DEF Held, Same
<1>4. \A y : Full(y)' <=> Full(y) \/ y = x
  BY <1>1 DEF Full
<1>5. \A g \in Hosts, s \in Streams : Starts(g, s)' <=> Starts(g, s)
  BY <1>1 DEF Starts
<1>6. \A n \in Runners : cur[n] # NoItem => pc[n] \in Running /\ pc'[n] = pc[n]
  BY DEF HandInv, PhasesStay
<1>7. \A k \in Kinds, n \in Spots, it \in Items :
        Holds(k, n, it) /\ k = "hand" => n \in Runners /\ cur[n] # NoItem
  BY SpotFacts DEF Holds
<1>8. \A k \in Kinds, n \in Spots, it \in Items : Holds(k, n, it) =>
        /\ Ran(k, n)' <=> Ran(k, n)
        /\ Spilling(k, n)' <=> Spilling(k, n)
        /\ (k = "hand" /\ pc[n] = "account")' <=> (k = "hand" /\ pc[n] = "account")
  BY <1>6, <1>7 DEF Ran, Spilling
<1>9. x \in Tasks /\ x \notin StreamTasks /\ ~Held(x) /\ x \notin emptied /\ runs[x] = 0
  BY SchedulerAssumption DEF WorkInv, KindInv, Held, SchedTypes, Tasks, RunInv
<1>10. KindInv'
  BY <1>2 DEF WorkInv, KindInv, Same
<1>11. UniqueInv'
  BY <1>2 DEF WorkInv, UniqueInv, Same, NoRepeats
<1>12. RunInv'
  <2>1. \A k \in Kinds, n \in Spots, it \in Items :
          Holds(k, n, it)' /\ it.kind # "empty" => (runs'[it.task] = 1 <=> Ran(k, n)')
    BY <1>2, <1>8 DEF WorkInv, RunInv, Same
  <2>2. \A y \in accepted' \cap StreamTasks : runs'[y] = 1 \/ In(pend'[StreamOf[y]], y)
    BY <1>9 DEF WorkInv, RunInv
  <2> QED BY <1>3, <1>4, <1>9, <2>1, <2>2 DEF WorkInv, RunInv
<1>13. \A k \in Kinds, n \in Spots, it \in Items, s \in Streams :
      Serves(k, n, it, s)' <=> Serves(k, n, it, s)
  BY <1>2, <1>8 DEF Serves, Of, Same
<1>14. StreamInv'
  <2> SUFFICES ASSUME NEW s \in Streams
      PROVE /\ busy[s] <=> pend[s] # <<>>
            /\ busy[s] <=> \/ \E g \in Hosts : Starts(g, s)'
                           \/ \E k \in Kinds, n \in Spots, it \in Items : Serves(k, n, it, s)'
            /\ \A f, g \in Hosts : Starts(f, s)' /\ Starts(g, s)' => f = g
            /\ \A g \in Hosts, k \in Kinds, n \in Spots, it \in Items :
                 ~(Starts(g, s)' /\ Serves(k, n, it, s)')
            /\ \A k, j \in Kinds, n, o \in Spots, it, jt \in Items :
                 Serves(k, n, it, s)' /\ Serves(j, o, jt, s)' => k = j /\ n = o /\ it = jt
            /\ \A k \in Kinds, n \in Spots, it \in Items : Serves(k, n, it, s)' =>
                 IF Spilling(k, n)' THEN ~In(pend[s], it.task) ELSE it.task = pend[s][1]
    BY DEF StreamInv
  <2>1. \A k \in Kinds, n \in Spots, it \in Items : Serves(k, n, it, s) => Holds(k, n, it)
    BY DEF Serves
  <2> QED BY <1>5, <1>8, <1>13, <2>1 DEF WorkInv, StreamInv
<1>15. PendInv'
  <2>1. \A r \in Runners : (pc'[r] = "finish" <=> pc[r] = "finish") /\ cur'[r] = cur[r]
                           /\ (pc'[r] = "account" <=> pc[r] = "account")
    BY DEF PhasesStay, Running
  <2> QED BY <2>1 DEF WorkInv, PendInv
<1> QED BY <1>10, <1>11, <1>12, <1>14, <1>15 DEF WorkInv

\* The item moved from by the full ring goes to a deque or to queue_.
LEMMA EmptyStep ==
  ASSUME SchedTypes, HandInv, WorkInv, HostInv, NEW h \in Hosts, pc[h] = "ringFull",
         NEW l \in Kinds \ {"hand", "node"}, NEW m \in Spots,
         Added(Item("empty", todo[h]), l, m), NoRepeats', PhasesStay,
         pc' = [pc EXCEPT ![h] = "countOne"], emptied' = emptied \cup {todo[h]},
         UNCHANGED <<pend, busy, runs, accepted, todo>>
  PROVE  WorkInv'
<1>0. PICK x \in RingTasks : x = todo[h] /\ x \in accepted
  BY DEF HostInv, Submitting
<1> DEFINE e == Item("empty", x)
<1>1. x \in Tasks /\ x \notin StreamTasks /\ e \in Items /\ e.task = x /\ e.kind = "empty"
  BY SchedulerAssumption DEF Item, Items, Tasks
<1>2. \A k \in Kinds, n \in Spots, it \in Items :
        Holds(k, n, it)' <=> Holds(k, n, it) \/ (k = l /\ n = m /\ it = e)
  BY <1>0 DEF Added
<1> HIDE DEF e
<1>p. \A g \in Hosts : pc'[g] = IF g = h THEN "countOne" ELSE pc[g]
  BY DEF SchedTypes
<1>q. Full(x) /\ runs[x] = 0 /\ ~Held(x)
  BY <1>0, <1>1 DEF Full, WorkInv, RunInv
<1>3. \A k \in Kinds, n \in Spots, it \in Items : Holds(k, n, it) => it.task # x
  BY <1>q DEF Held
<1>r. \A y : Full(y)' <=> Full(y) /\ y # x
  <2>1. \A g \in Hosts : pc[g] = "ringFull" /\ todo[g] = x => g = h
    BY <1>0 DEF HostInv, Submitting
  <2> QED BY <1>0, <1>p, <2>1 DEF Full
<1>4. \A n \in Runners : cur[n] # NoItem => pc[n] \in Running /\ pc'[n] = pc[n]
  BY DEF HandInv, PhasesStay
<1>5. \A k \in Kinds, n \in Spots, it \in Items :
        Holds(k, n, it) /\ k = "hand" => n \in Runners /\ cur[n] # NoItem
  BY SpotFacts DEF Holds
<1>6. \A k \in Kinds, n \in Spots, it \in Items : Holds(k, n, it) =>
        /\ Ran(k, n)' <=> Ran(k, n)
        /\ Spilling(k, n)' <=> Spilling(k, n)
        /\ (k = "hand" /\ pc[n] = "account")' <=> (k = "hand" /\ pc[n] = "account")
  BY <1>4, <1>5 DEF Ran, Spilling
<1>7. \A y : Held(y)' <=> Held(y) \/ y = x
  BY <1>1, <1>2 DEF Held
<1>s. emptied' = emptied \cup {x}
  BY <1>0
<1>8. KindInv'
  <2>1. \A k \in Kinds, n \in Spots, it \in Items : Holds(k, n, it)' =>
          /\ it.task \in accepted'
          /\ it.kind = "stream" <=> it.task \in StreamTasks
          /\ it.kind = "empty" <=> it.task \in emptied'
          /\ k = "node" => it.task \in NumaTasks
    BY <1>0, <1>1, <1>2, <1>3, <1>s DEF WorkInv, KindInv
  <2> QED BY <2>1 DEF KindInv
<1>9. UniqueInv'
  <2>1. ASSUME NEW k \in Kinds, NEW j \in Kinds, NEW n \in Spots, NEW o \in Spots,
               NEW it \in Items, NEW jt \in Items,
               Holds(k, n, it)', Holds(j, o, jt)', it.task = jt.task
        PROVE  k = j /\ n = o /\ it = jt
    BY <1>1, <1>2, <1>3, <2>1 DEF WorkInv, UniqueInv
  <2> QED BY <2>1 DEF UniqueInv, NoRepeats
<1>11. RunInv'
  <2>2. \A k \in Kinds, n \in Spots, it \in Items :
          Holds(k, n, it)' /\ it.kind # "empty" => (runs'[it.task] = 1 <=> Ran(k, n)')
    BY <1>1, <1>2, <1>6 DEF WorkInv, RunInv
  <2> QED BY <1>7, <1>q, <1>r, <1>s, <2>2 DEF WorkInv, RunInv
<1>12. \A k \in Kinds, n \in Spots, it \in Items, s \in Streams :
      Serves(k, n, it, s)' <=> Serves(k, n, it, s)
  BY <1>1, <1>2, <1>6 DEF Serves, Of
<1>t. \A g \in Hosts, s \in Streams : Starts(g, s)' <=> Starts(g, s)
  BY <1>p DEF Starts
<1>13. StreamInv'
  <2> SUFFICES ASSUME NEW s \in Streams
      PROVE /\ busy[s] <=> pend[s] # <<>>
            /\ busy[s] <=> \/ \E g \in Hosts : Starts(g, s)'
                           \/ \E k \in Kinds, n \in Spots, it \in Items : Serves(k, n, it, s)'
            /\ \A f, g \in Hosts : Starts(f, s)' /\ Starts(g, s)' => f = g
            /\ \A g \in Hosts, k \in Kinds, n \in Spots, it \in Items :
                 ~(Starts(g, s)' /\ Serves(k, n, it, s)')
            /\ \A k, j \in Kinds, n, o \in Spots, it, jt \in Items :
                 Serves(k, n, it, s)' /\ Serves(j, o, jt, s)' => k = j /\ n = o /\ it = jt
            /\ \A k \in Kinds, n \in Spots, it \in Items : Serves(k, n, it, s)' =>
                 IF Spilling(k, n)' THEN ~In(pend[s], it.task) ELSE it.task = pend[s][1]
    BY DEF StreamInv
  <2>1. \A k \in Kinds, n \in Spots, it \in Items : Serves(k, n, it, s) => Holds(k, n, it)
    BY DEF Serves
  <2> QED BY <1>6, <1>12, <1>t, <2>1 DEF WorkInv, StreamInv
<1>14. PendInv'
  <2>1. \A r \in Runners : (pc'[r] = "finish" <=> pc[r] = "finish") /\ cur'[r] = cur[r]
                           /\ (pc'[r] = "account" <=> pc[r] = "account")
    BY DEF PhasesStay, Running
  <2> QED BY <2>1 DEF WorkInv, PendInv
<1> QED BY <1>8, <1>9, <1>11, <1>13, <1>14 DEF WorkInv

\* submitStreamTask puts task x at the end of its stream's queue; if the stream is
\* not being processed, it becomes so and the host will enqueue its first item.
LEMMA PushStep ==
  ASSUME SchedTypes, HandInv, WorkInv, HostInv, NEW h \in Hosts, StreamPush(h), PhasesStay
  PROVE  WorkInv'
<1>1. PICK x \in StreamTasks : x = todo[h] /\ x \notin accepted
  BY DEF StreamPush, HostInv
<1>2. PICK z \in Streams : z = StreamOf[x]
  BY DEF Streams
<1>3. /\ pc[h] = "streamPush" /\ accepted' = accepted \cup {x}
      /\ pend' = [pend EXCEPT ![z] = Append(@, x)]
      /\ UNCHANGED <<containers, runs, emptied>>
      /\ x \in Tasks
  BY <1>1, <1>2 DEF StreamPush, containers, PhasesStay, Tasks, numaVars
<1>4. \A s \in Streams : pend'[s] = IF s = z THEN Append(pend[s], x) ELSE pend[s]
  BY <1>3 DEF SchedTypes
<1>5. \A s \in Streams : busy'[s] <=> IF s = z THEN TRUE ELSE busy[s]
  BY <1>1, <1>2 DEF StreamPush, SchedTypes
<1>6. \A g \in Hosts : g # h => pc'[g] = pc[g] /\ todo'[g] = todo[g]
  BY DEF StreamPush, Goto, SchedTypes
<1>7. /\ pc'[h] \in {"idle", "streamEnqueue"}
      /\ pc'[h] = "streamEnqueue" <=> ~busy[z]
      /\ pc'[h] = "streamEnqueue" => todo'[h] = x
  BY <1>1, <1>2 DEF StreamPush, Goto, SchedTypes
<1>8. Same /\ NoRepeats'
  BY <1>3, NothingMoves DEF WorkInv, UniqueInv, NoRepeats
<1>9. \A y : (Held(y)' <=> Held(y)) /\ (Full(y)' <=> Full(y))
  BY <1>3, <1>6, <1>7, <1>8 DEF Held, Full, Same
<1>10. \A g \in Hosts, s \in Streams :
      Starts(g, s)' <=> IF g = h THEN ~busy[z] /\ s = z ELSE Starts(g, s)
  BY <1>2, <1>6, <1>7 DEF Starts
<1>11. \A s : ~Starts(h, s)
  BY <1>3 DEF Starts
<1>12. /\ pend[z] \in Seq(StreamTasks) /\ ~In(pend[z], x) /\ Inj(pend[z])
       /\ runs[x] = 0 /\ ~Held(x)
  BY <1>1, <1>3 DEF SchedTypes, WorkInv, PendInv, In, RunInv, KindInv, Held
<1>13. /\ Inj(pend'[z]) /\ \A y : In(pend'[z], y) <=> In(pend[z], y) \/ y = x
  BY <1>4, <1>12, InAppend
<1>14. /\ pend'[z] # <<>>
       /\ pend[z] # <<>> => pend'[z][1] = pend[z][1]
       /\ pend[z] = <<>> => pend'[z][1] = x
       /\ \A i \in DOMAIN pend'[z] :
            (i \in DOMAIN pend[z] /\ pend'[z][i] = pend[z][i]) \/ pend'[z][i] = x
  <2>1. pend'[z] = Append(pend[z], x)
    BY <1>4
  <2> QED BY <1>12, <2>1, AppendFacts
<1>15. \A n \in Runners : cur[n] # NoItem => pc[n] \in Running /\ pc'[n] = pc[n]
  BY DEF HandInv, PhasesStay
<1>16. \A k \in Kinds, n \in Spots, it \in Items :
         Holds(k, n, it) => (k = "hand" => n \in Runners /\ cur[n] # NoItem) /\ it.task # x
  BY <1>12, SpotFacts DEF Holds, Held
<1>17. \A k \in Kinds, n \in Spots, it \in Items : Holds(k, n, it) =>
         /\ Ran(k, n)' <=> Ran(k, n)
         /\ Spilling(k, n)' <=> Spilling(k, n)
         /\ (k = "hand" /\ pc[n] = "account")' <=> (k = "hand" /\ pc[n] = "account")
  BY <1>15, <1>16 DEF Ran, Spilling
<1>18. KindInv'
  BY <1>3, <1>8 DEF WorkInv, KindInv, Same
<1>19. UniqueInv'
  BY <1>8 DEF WorkInv, UniqueInv, Same, NoRepeats
<1>20. RunInv'
  <2>1. \A k \in Kinds, n \in Spots, it \in Items :
          Holds(k, n, it)' /\ it.kind # "empty" => (runs'[it.task] = 1 <=> Ran(k, n)')
    BY <1>3, <1>8, <1>17 DEF WorkInv, RunInv, Same
  <2>2. \A y \in accepted' \cap StreamTasks : runs'[y] = 1 \/ In(pend'[StreamOf[y]], y)
    <3>1. \A y \in StreamTasks : StreamOf[y] \in Streams
      BY DEF Streams
    <3> QED BY <1>2, <1>3, <1>4, <1>13, <3>1 DEF WorkInv, RunInv
  <2>3. \A y \in accepted' \ (StreamTasks \cup emptied') : runs'[y] = 1 \/ Held(y)' \/ Full(y)'
    BY <1>3, <1>9 DEF WorkInv, RunInv
  <2>4. /\ \A y \in Tasks : y \notin accepted' => runs'[y] = 0
        /\ \A y \in Tasks : y \in emptied' \/ Full(y)' => runs'[y] = 0
        /\ \A y \in Tasks : Full(y)' => ~Held(y)' /\ y \notin emptied'
    BY <1>3, <1>9 DEF WorkInv, RunInv
  <2> QED BY <2>1, <2>2, <2>3, <2>4 DEF RunInv
<1>21. \A k \in Kinds, n \in Spots, it \in Items, s \in Streams :
      Serves(k, n, it, s)' <=> Serves(k, n, it, s)
  BY <1>8, <1>17 DEF Serves, Of, Same
<1>22. StreamInv'
  <2> SUFFICES ASSUME NEW s \in Streams
      PROVE /\ busy'[s] <=> pend'[s] # <<>>
            /\ busy'[s] <=> \/ \E g \in Hosts : Starts(g, s)'
                            \/ \E k \in Kinds, n \in Spots, it \in Items : Serves(k, n, it, s)'
            /\ \A f, g \in Hosts : Starts(f, s)' /\ Starts(g, s)' => f = g
            /\ \A g \in Hosts, k \in Kinds, n \in Spots, it \in Items :
                 ~(Starts(g, s)' /\ Serves(k, n, it, s)')
            /\ \A k, j \in Kinds, n, o \in Spots, it, jt \in Items :
                 Serves(k, n, it, s)' /\ Serves(j, o, jt, s)' => k = j /\ n = o /\ it = jt
            /\ \A k \in Kinds, n \in Spots, it \in Items : Serves(k, n, it, s)' =>
                 IF Spilling(k, n)' THEN ~In(pend'[s], it.task) ELSE it.task = pend'[s][1]
    BY DEF StreamInv
  <2>1. \A k \in Kinds, n \in Spots, it \in Items : Serves(k, n, it, s) => Holds(k, n, it)
    BY DEF Serves
  <2>2. CASE s # z
    BY <1>4, <1>5, <1>10, <1>11, <1>17, <1>21, <2>1, <2>2 DEF WorkInv, StreamInv
  <2>3. CASE s = z /\ busy[z]
    <3>1. \A g \in Hosts : Starts(g, z)' <=> Starts(g, z)
      BY <1>10, <1>11, <2>3
    <3>2. pend[z] # <<>>
      BY <2>3 DEF WorkInv, StreamInv
    <3>3. \A k \in Kinds, n \in Spots, it \in Items : Serves(k, n, it, s)' =>
            IF Spilling(k, n)' THEN ~In(pend'[s], it.task) ELSE it.task = pend'[s][1]
      BY <1>13, <1>14, <1>16, <1>17, <1>21, <2>1, <2>3, <3>2 DEF WorkInv, StreamInv
    <3> QED BY <1>5, <1>14, <1>21, <2>3, <3>1, <3>3 DEF WorkInv, StreamInv
  <2>4. CASE s = z /\ ~busy[z]
    <3>1. \A g \in Hosts : Starts(g, z)' <=> g = h
      BY <1>10, <2>4 DEF WorkInv, StreamInv
    <3>2. \A k \in Kinds, n \in Spots, it \in Items : ~Serves(k, n, it, z)'
      BY <1>21, <2>4 DEF WorkInv, StreamInv
    <3> QED BY <1>5, <1>14, <2>4, <3>1, <3>2
  <2> QED BY <2>2, <2>3, <2>4
<1>23. PendInv'
  <2>1. \A r \in Runners : (pc'[r] = "finish" <=> pc[r] = "finish") /\ cur'[r] = cur[r]
                           /\ (pc'[r] = "account" <=> pc[r] = "account")
    BY DEF PhasesStay, Running
  <2>2. \A r \in Runners : pc[r] = "account" => cur[r].task # x
    <3> SUFFICES ASSUME NEW r \in Runners, pc[r] = "account" PROVE cur[r].task # x
      OBVIOUS
    <3>1. cur[r] \in Items /\ Holds("hand", r, cur[r]) /\ "hand" \in Kinds /\ r \in Spots
      BY SpotFacts DEF HandInv, Running, SchedTypes, Holds, Kinds
    <3> QED BY <1>16, <3>1
  <2> SUFFICES ASSUME NEW s \in Streams
      PROVE /\ Inj(pend'[s])
            /\ \A i \in DOMAIN pend'[s] :
                 /\ pend'[s][i] \in accepted' /\ StreamOf[pend'[s][i]] = s
                 /\ runs'[pend'[s][i]] = 1 =>
                      i = 1 /\ \E r \in Runners : cur'[r].task = pend'[s][i] /\ pc'[r] = "finish"
            /\ \A r \in Runners : pc'[r] = "account" => ~In(pend'[s], cur'[r].task)
    BY DEF PendInv
  <2>3. CASE s # z
    BY <1>3, <1>4, <2>1, <2>3 DEF WorkInv, PendInv
  <2>4. CASE s = z
    <3>1. \A i \in DOMAIN pend'[s] :
            /\ pend'[s][i] \in accepted' /\ StreamOf[pend'[s][i]] = s
            /\ runs'[pend'[s][i]] = 1 =>
                 i = 1 /\ \E r \in Runners : cur'[r].task = pend'[s][i] /\ pc'[r] = "finish"
      BY <1>2, <1>3, <1>12, <1>14, <2>1, <2>4 DEF WorkInv, PendInv
    <3> QED BY <1>13, <2>1, <2>2, <2>4, <3>1 DEF WorkInv, PendInv
  <2> QED BY <2>3, <2>4
<1> QED BY <1>18, <1>19, <1>20, <1>22, <1>23 DEF WorkInv

\* What is at hand when the front item of stream z is about to be enqueued: the
\* task has no item yet and has not run.
LEMMA FrontFacts ==
  ASSUME SchedTypes, HandInv, WorkInv, NEW z \in Streams, NEW y \in StreamTasks, In(pend[z], y),
         \A k \in Kinds, n \in Spots, it \in Items : Serves(k, n, it, z) => it.task # y
  PROVE  /\ y \in accepted /\ StreamOf[y] = z /\ y \in Tasks /\ ~Held(y) /\ runs[y] = 0
         /\ y \notin emptied
         /\ Item("stream", y) \in Items
         /\ Item("stream", y).task = y /\ Item("stream", y).kind = "stream"
<1>1. y \in accepted /\ StreamOf[y] = z /\ y \in Tasks
  BY DEF WorkInv, PendInv, In, Tasks
<1>2. ~Held(y)
  <2> SUFFICES ASSUME NEW k \in Kinds, NEW n \in Spots, NEW it \in Items, Holds(k, n, it),
                      it.task = y
               PROVE  FALSE
    BY DEF Held
  <2>1. Of(it, z)
    BY <1>1 DEF WorkInv, KindInv, Of
  <2>2. ~(k = "hand" /\ pc[n] = "account")
    <3> SUFFICES ASSUME k = "hand", pc[n] = "account" PROVE FALSE
      OBVIOUS
    <3>1. n \in Runners /\ cur[n] = it
      BY DEF Holds
    <3> QED BY <3>1 DEF WorkInv, PendInv
  <2> QED BY <2>1, <2>2 DEF Serves
<1>3. runs[y] = 0
  <2> SUFFICES ASSUME runs[y] # 0 PROVE FALSE
    OBVIOUS
  <2>1. runs[y] = 1
    BY <1>1 DEF SchedTypes
  <2>2. PICK r \in Runners : cur[r].task = y /\ pc[r] = "finish"
    BY <2>1 DEF WorkInv, PendInv, In
  <2>3. cur[r] \in Items /\ Holds("hand", r, cur[r]) /\ "hand" \in Kinds /\ r \in Spots
    BY <2>2, SpotFacts DEF HandInv, Running, SchedTypes, Holds, Kinds
  <2> QED BY <1>2, <2>2, <2>3 DEF Held
<1>4. y \notin emptied
  BY SchedulerAssumption DEF SchedTypes
<1> QED BY <1>1, <1>2, <1>3, <1>4 DEF Item, Items

\* The server of stream z hands it on to the item of task y: before the step one
\* host or one runner serves the stream, after it the new item does.  The runner r,
\* if any, has nothing more to do for its own task than to account for it.
Handing(z, y, l, m) ==
  /\ Added(Item("stream", y), l, m) /\ NoRepeats' /\ cur' = cur
  /\ UNCHANGED <<runs, accepted, emptied>>
  /\ In(pend[z], y)
  /\ \A k \in Kinds, n \in Spots, it \in Items : Serves(k, n, it, z) => it.task # y
  /\ \A s \in Streams : s # z => pend'[s] = pend[s] /\ (busy'[s] <=> busy[s])
  /\ busy'[z] /\ pend'[z] # <<>> /\ pend'[z][1] = y /\ Inj(pend'[z])
  /\ \A i \in DOMAIN pend'[z] : In(pend[z], pend'[z][i]) /\ ~(runs[pend'[z][i]] = 1)
  /\ \A x \in accepted : In(pend[z], x) => In(pend'[z], x) \/ runs[x] = 1
  /\ \A x : Full(x)' <=> Full(x)
  /\ \A h \in Hosts, s \in Streams : Starts(h, s)' <=> Starts(h, s) /\ s # z
  /\ \A k \in Kinds, n \in Spots, it \in Items : Serves(k, n, it, z) =>
       /\ k = "hand" /\ pc[n] \in {"finish", "spill"} /\ pc'[n] = "account"
       /\ ~In(pend'[z], it.task)
  /\ \A n \in Runners : \/ pc'[n] = pc[n]
                        \/ /\ pc[n] \in {"finish", "spill"} /\ pc'[n] = "account"
                           /\ StreamOf[cur[n].task] = z

LEMMA HandOn ==
  ASSUME SchedTypes, HandInv, WorkInv, HostInv, NEW z \in Streams, NEW y \in StreamTasks,
         NEW l \in {"queue", "deque"}, NEW m \in Spots, Handing(z, y, l, m)
  PROVE  WorkInv'
<1> USE DEF Handing
<1> DEFINE e == Item("stream", y)
<1>1. /\ y \in accepted /\ StreamOf[y] = z /\ y \in Tasks /\ ~Held(y) /\ runs[y] = 0
      /\ e \in Items /\ e.task = y /\ e.kind = "stream" /\ y \notin emptied
  BY FrontFacts
<1>2. \A k \in Kinds, n \in Spots, it \in Items :
        Holds(k, n, it)' <=> Holds(k, n, it) \/ (k = l /\ n = m /\ it = e)
  BY DEF Added
<1> HIDE DEF e
<1>3. \A k \in Kinds, n \in Spots, it \in Items : Holds(k, n, it) => it.task # y
  BY <1>1 DEF Held
<1>4. \A k \in Kinds, n \in Spots, it \in Items :
        Holds(k, n, it) /\ k = "hand" => n \in Runners /\ cur[n] = it /\ pc[n] \in Running
  BY SpotFacts DEF Holds, HandInv
<1>5. l \in Kinds /\ l # "hand" /\ l # "node"
  BY DEF Kinds
<1>6. \A k \in Kinds, n \in Spots, it \in Items : Holds(k, n, it) => (Ran(k, n)' <=> Ran(k, n))
  BY <1>4 DEF Ran
<1>7. \A x : Held(x)' <=> Held(x) \/ x = y
  BY <1>1, <1>2, <1>5 DEF Held
<1>8. KindInv'
  <2>1. \A k \in Kinds, n \in Spots, it \in Items : Holds(k, n, it)' =>
          /\ it.task \in accepted'
          /\ it.kind = "stream" <=> it.task \in StreamTasks
          /\ it.kind = "empty" <=> it.task \in emptied'
          /\ k = "node" => it.task \in NumaTasks
    BY <1>1, <1>2, <1>5 DEF WorkInv, KindInv
  <2> QED BY <2>1 DEF KindInv
<1>9. UniqueInv'
  <2>1. ASSUME NEW k \in Kinds, NEW j \in Kinds, NEW n \in Spots, NEW o \in Spots,
               NEW it \in Items, NEW jt \in Items,
               Holds(k, n, it)', Holds(j, o, jt)', it.task = jt.task
        PROVE  k = j /\ n = o /\ it = jt
    BY <1>1, <1>2, <1>3, <2>1 DEF WorkInv, UniqueInv
  <2> QED BY <2>1 DEF UniqueInv, NoRepeats
<1>10. RunInv'
  <2>1. \A k \in Kinds, n \in Spots, it \in Items :
          Holds(k, n, it)' /\ it.kind # "empty" => (runs'[it.task] = 1 <=> Ran(k, n)')
    <3>1. ~Ran(l, m)'
      BY <1>5 DEF Ran
    <3> QED BY <1>1, <1>2, <1>6, <3>1 DEF WorkInv, RunInv
  <2>2. \A x \in accepted' \cap StreamTasks : runs'[x] = 1 \/ In(pend'[StreamOf[x]], x)
    <3>1. \A x \in StreamTasks : StreamOf[x] \in Streams
      BY DEF Streams
    <3> QED BY <3>1 DEF WorkInv, RunInv
  <2>3. \A x \in accepted' \ (StreamTasks \cup emptied') : runs'[x] = 1 \/ Held(x)' \/ Full(x)'
    BY <1>7 DEF WorkInv, RunInv
  <2>4. /\ \A x \in Tasks : x \notin accepted' => runs'[x] = 0
        /\ \A x \in Tasks : x \in emptied' \/ Full(x)' => runs'[x] = 0
    BY DEF WorkInv, RunInv
  <2>5. \A x \in Tasks : Full(x)' => ~Held(x)' /\ x \notin emptied'
    <3>1. ~Full(y)
      BY SchedulerAssumption DEF Full, HostInv
    <3> QED BY <1>7, <3>1 DEF WorkInv, RunInv
  <2> QED BY <2>1, <2>2, <2>3, <2>4, <2>5 DEF RunInv
<1>11. \A k \in Kinds, n \in Spots, it \in Items : Serves(k, n, it, z)' <=> k = l /\ n = m /\ it = e
  <2>1. \A k \in Kinds, n \in Spots, it \in Items : Holds(k, n, it) => ~Serves(k, n, it, z)'
    BY <1>1, <1>3, <1>4 DEF Serves, Of, WorkInv, KindInv
  <2>2. Serves(l, m, e, z)'
    BY <1>1, <1>2, <1>5 DEF Serves, Of
  <2> QED BY <1>2, <2>1, <2>2 DEF Serves
<1>12. \A k \in Kinds, n \in Spots, it \in Items, s \in Streams : s # z =>
         (Serves(k, n, it, s)' <=> Serves(k, n, it, s))
  <2>1. \A k \in Kinds, n \in Spots, it \in Items, s \in Streams :
          Holds(k, n, it) /\ s # z /\ Of(it, s) /\ k = "hand" => pc'[n] = pc[n]
    BY <1>4 DEF Of
  <2> QED BY <1>1, <1>2, <2>1 DEF Serves, Of
<1>13. StreamInv'
  <2> SUFFICES ASSUME NEW s \in Streams
      PROVE /\ busy'[s] <=> pend'[s] # <<>>
            /\ busy'[s] <=> \/ \E g \in Hosts : Starts(g, s)'
                            \/ \E k \in Kinds, n \in Spots, it \in Items : Serves(k, n, it, s)'
            /\ \A f, g \in Hosts : Starts(f, s)' /\ Starts(g, s)' => f = g
            /\ \A g \in Hosts, k \in Kinds, n \in Spots, it \in Items :
                 ~(Starts(g, s)' /\ Serves(k, n, it, s)')
            /\ \A k, j \in Kinds, n, o \in Spots, it, jt \in Items :
                 Serves(k, n, it, s)' /\ Serves(j, o, jt, s)' => k = j /\ n = o /\ it = jt
            /\ \A k \in Kinds, n \in Spots, it \in Items : Serves(k, n, it, s)' =>
                 IF Spilling(k, n)' THEN ~In(pend'[s], it.task) ELSE it.task = pend'[s][1]
    BY DEF StreamInv
  <2>1. CASE s = z
    <3>1. ~Spilling(l, m)'
      BY <1>5 DEF Spilling
    <3>2. \A g \in Hosts : ~Starts(g, z)'
      OBVIOUS
    <3> QED BY <1>1, <1>5, <1>11, <2>1, <3>1, <3>2
  <2>2. CASE s # z
    <3>1. \A g \in Hosts : Starts(g, s)' <=> Starts(g, s)
      BY <2>2
    <3>2. \A k \in Kinds, n \in Spots, it \in Items :
            Serves(k, n, it, s)' <=> Serves(k, n, it, s)
      BY <1>12, <2>2
    <3>3. \A k \in Kinds, n \in Spots, it \in Items :
            Serves(k, n, it, s) => (Spilling(k, n)' <=> Spilling(k, n))
      BY <1>4, <2>2 DEF Serves, Of, Spilling
    <3> QED BY <2>2, <3>1, <3>2, <3>3 DEF WorkInv, StreamInv
  <2> QED BY <2>1, <2>2
<1>14. PendInv'
  <2>1. \A r \in Runners : pc'[r] = "account" /\ pc[r] # "account" =>
          ~In(pend'[z], cur[r].task) /\ StreamOf[cur[r].task] = z
    <3> SUFFICES ASSUME NEW r \in Runners, pc'[r] = "account", pc[r] # "account"
                 PROVE  ~In(pend'[z], cur[r].task) /\ StreamOf[cur[r].task] = z
      OBVIOUS
    <3>1. /\ cur[r] \in Items /\ Holds("hand", r, cur[r]) /\ "hand" \in Kinds /\ r \in Spots
          /\ cur[r].kind = "stream" /\ StreamOf[cur[r].task] = z
      BY SpotFacts DEF HandInv, Running, SchedTypes, Holds, Kinds
    <3>2. Serves("hand", r, cur[r], z)
      BY <3>1 DEF Serves, Of
    <3> QED BY <3>1, <3>2
  <2> SUFFICES ASSUME NEW s \in Streams
      PROVE /\ Inj(pend'[s])
            /\ \A i \in DOMAIN pend'[s] :
                 /\ pend'[s][i] \in accepted' /\ StreamOf[pend'[s][i]] = s
                 /\ runs'[pend'[s][i]] = 1 =>
                      i = 1 /\ \E r \in Runners : cur'[r].task = pend'[s][i] /\ pc'[r] = "finish"
            /\ \A r \in Runners : pc'[r] = "account" => ~In(pend'[s], cur'[r].task)
    BY DEF PendInv
  <2>2. \A x : In(pend'[z], x) => In(pend[z], x)
    BY DEF In
  <2>3. CASE s = z
    <3>1. \A i \in DOMAIN pend'[z] :
            /\ pend'[z][i] \in accepted' /\ StreamOf[pend'[z][i]] = z
            /\ ~(runs'[pend'[z][i]] = 1)
      BY DEF WorkInv, PendInv, In
    <3>2. \A r \in Runners : pc'[r] = "account" => ~In(pend'[z], cur'[r].task)
      BY <2>1, <2>2 DEF WorkInv, PendInv
    <3> QED BY <2>3, <3>1, <3>2
  <2>4. CASE s # z
    <3>1. \A i \in DOMAIN pend[s] :
            /\ pend[s][i] \in accepted /\ StreamOf[pend[s][i]] = s
            /\ runs[pend[s][i]] = 1 =>
                 i = 1 /\ \E r \in Runners : cur[r].task = pend[s][i] /\ pc[r] = "finish"
      BY DEF WorkInv, PendInv
    <3>2. \A i \in DOMAIN pend[s], r \in Runners :
            cur[r].task = pend[s][i] /\ pc[r] = "finish" => pc'[r] = "finish"
      BY <2>4, <3>1
    <3>3. \A r \in Runners : pc'[r] = "account" => ~In(pend[s], cur[r].task)
      <4>1. \A r \in Runners : StreamOf[cur[r].task] = z => ~In(pend[s], cur[r].task)
        BY <2>4, <3>1 DEF In
      <4> QED BY <2>1, <4>1 DEF WorkInv, PendInv
    <3>4. pend'[s] = pend[s] /\ Inj(pend[s])
      BY <2>4 DEF WorkInv, PendInv
    <3> QED BY <3>1, <3>2, <3>3, <3>4
  <2> QED BY <2>3, <2>4
<1> QED BY <1>8, <1>9, <1>10, <1>13, <1>14 DEF WorkInv

\* A stream's queue that is not empty.
LEMMA FirstPending ==
  ASSUME SchedTypes, WorkInv, NEW z \in Streams, pend[z] # <<>>
  PROVE  /\ pend[z] \in Seq(StreamTasks) /\ Inj(pend[z])
         /\ Head(pend[z]) = pend[z][1] /\ pend[z][1] \in StreamTasks
         /\ In(pend[z], pend[z][1]) /\ 1 \in DOMAIN pend[z]
<1>1. pend[z] \in Seq(StreamTasks) /\ Inj(pend[z])
  BY DEF SchedTypes, WorkInv, PendInv
<1>2. 1 \in DOMAIN pend[z]
  BY <1>1
<1> QED BY <1>1, <1>2, InTail DEF In

\* A runner at the end of a stream's item serves that stream.
LEMMA RunnerServes ==
  ASSUME SchedTypes, HandInv, WorkInv, NEW r \in Runners, pc[r] \in {"finish", "spill"}
  PROVE  /\ cur[r] \in Items /\ cur[r].kind = "stream" /\ cur[r].task \in StreamTasks
         /\ StreamOf[cur[r].task] \in Streams /\ r \in Spots /\ "hand" \in Kinds
         /\ Holds("hand", r, cur[r])
         /\ Serves("hand", r, cur[r], StreamOf[cur[r].task])
<1>1. /\ cur[r] \in Items /\ cur[r].kind = "stream" /\ r \in Spots /\ "hand" \in Kinds
      /\ Holds("hand", r, cur[r])
  BY SpotFacts DEF HandInv, Running, SchedTypes, Holds, Kinds
<1>2. cur[r].task \in StreamTasks
  BY <1>1 DEF WorkInv, KindInv
<1> QED BY <1>1, <1>2 DEF Serves, Of, Streams

\* tryProcessStream on a host.
LEMMA EnqueueStep ==
  ASSUME SchedTypes, HandInv, WorkInv, HostInv, NEW h \in Hosts, StreamEnqueue(h)
  PROVE  WorkInv'
<1>1. PICK x \in StreamTasks : x = todo[h]
  BY DEF StreamEnqueue, HostInv
<1>2. PICK z \in Streams : z = StreamOf[x]
  BY DEF Streams
<1>3. Starts(h, z)
  BY <1>1, <1>2 DEF StreamEnqueue, Starts
<1>4. /\ \A k \in Kinds, n \in Spots, it \in Items : ~Serves(k, n, it, z)
      /\ \A g \in Hosts : Starts(g, z) => g = h
      /\ busy[z] /\ pend[z] # <<>>
  BY <1>3 DEF WorkInv, StreamInv
<1>5. PICK y \in StreamTasks : y = pend[z][1]
  BY <1>4, FirstPending
<1>6. In(pend[z], y) /\ Inj(pend[z]) /\ FrontItem(z) = Item("stream", y)
  BY <1>4, <1>5, FirstPending DEF FrontItem
<1>7. /\ queue' = queue \cup {Item("stream", y)}
      /\ UNCHANGED <<numaQ, deque, ring, cur, pend, busy, runs, accepted, emptied>>
      /\ pc' = [pc EXCEPT ![h] = "idle"] /\ todo' = [todo EXCEPT ![h] = Idle]
  BY <1>1, <1>2, <1>6 DEF StreamEnqueue, numaVars, ghosts, Goto
<1>8. Item("stream", y) \in Items
  BY DEF Item, Items, Tasks
<1>9. Added(Item("stream", y), "queue", 0) /\ NoRepeats'
  BY <1>7, <1>8, QueueGets DEF WorkInv, UniqueInv, NoRepeats
<1>10. \A i \in DOMAIN pend[z] : In(pend[z], pend[z][i]) /\ ~(runs[pend[z][i]] = 1)
  <2> SUFFICES ASSUME NEW i \in DOMAIN pend[z], runs[pend[z][i]] = 1 PROVE FALSE
    BY DEF In
  <2>1. PICK r \in Runners : cur[r].task = pend[z][i] /\ pc[r] = "finish"
    BY DEF WorkInv, PendInv
  <2>2. StreamOf[pend[z][i]] = z
    BY DEF WorkInv, PendInv
  <2> QED BY <1>4, <2>1, <2>2, RunnerServes
<1>11. \A g \in Hosts : /\ pc'[g] = IF g = h THEN "idle" ELSE pc[g]
                        /\ todo'[g] = IF g = h THEN Idle ELSE todo[g]
  BY <1>7 DEF SchedTypes
<1>12. \A n \in Runners : pc'[n] = pc[n]
  BY <1>7, SpotFacts DEF SchedTypes
<1>13. \A g \in Hosts, s \in Streams : Starts(g, s)' <=> Starts(g, s) /\ s # z
  BY <1>1, <1>2, <1>4, <1>11 DEF Starts
<1>14. \A v : Full(v)' <=> Full(v)
  BY <1>11 DEF Full, StreamEnqueue
<1>15. Handing(z, y, "queue", 0)
  BY <1>4, <1>5, <1>6, <1>7, <1>9, <1>10, <1>12, <1>13, <1>14 DEF Handing
<1> QED BY <1>5, <1>15, HandOn, SpotFacts

\* tryProcessStream on a runner whose deque is full, or that has none.
LEMMA SpillStep ==
  ASSUME SchedTypes, HandInv, WorkInv, HostInv, NEW r \in Runners, Spill(r)
  PROVE  WorkInv'
<1>1. pc[r] = "spill"
  BY DEF Spill
<1>2. PICK z \in Streams : z = StreamOf[cur[r].task]
  BY <1>1, RunnerServes
<1>3. Serves("hand", r, cur[r], z) /\ cur[r] \in Items /\ r \in Spots /\ "hand" \in Kinds
  BY <1>1, <1>2, RunnerServes
<1>4. /\ \A k \in Kinds, n \in Spots, it \in Items : Serves(k, n, it, z) =>
           k = "hand" /\ n = r /\ it = cur[r]
      /\ \A g \in Hosts : ~Starts(g, z)
      /\ busy[z] /\ pend[z] # <<>> /\ ~In(pend[z], cur[r].task)
  <2>1. Spilling("hand", r)
    BY <1>1 DEF Spilling
  <2> QED BY <1>3, <2>1 DEF WorkInv, StreamInv
<1>5. PICK y \in StreamTasks : y = pend[z][1]
  BY <1>4, FirstPending
<1>6. In(pend[z], y) /\ Inj(pend[z]) /\ FrontItem(z) = Item("stream", y)
  BY <1>4, <1>5, FirstPending DEF FrontItem
<1>7. /\ queue' = queue \cup {Item("stream", y)}
      /\ UNCHANGED <<numaQ, deque, ring, cur, pend, busy, runs, accepted, emptied, todo>>
      /\ pc' = [pc EXCEPT ![r] = "account"]
  BY <1>2, <1>6 DEF Spill, numaVars, ghosts, Goto
<1>8. Item("stream", y) \in Items
  BY DEF Item, Items, Tasks
<1>9. Added(Item("stream", y), "queue", 0) /\ NoRepeats'
  BY <1>7, <1>8, QueueGets DEF WorkInv, UniqueInv, NoRepeats
<1>10. \A i \in DOMAIN pend[z] : In(pend[z], pend[z][i]) /\ ~(runs[pend[z][i]] = 1)
  <2> SUFFICES ASSUME NEW i \in DOMAIN pend[z], runs[pend[z][i]] = 1 PROVE FALSE
    BY DEF In
  <2>1. PICK q \in Runners : cur[q].task = pend[z][i] /\ pc[q] = "finish"
    BY DEF WorkInv, PendInv
  <2>2. StreamOf[pend[z][i]] = z
    BY DEF WorkInv, PendInv
  <2>3. Serves("hand", q, cur[q], z) /\ cur[q] \in Items /\ q \in Spots
    BY <2>1, <2>2, RunnerServes
  <2>4. q = r
    BY <1>3, <1>4, <2>3
  <2> QED BY <1>1, <2>1, <2>4
<1>11. /\ \A g \in Hosts : pc'[g] = pc[g]
       /\ \A n \in Runners : pc'[n] = IF n = r THEN "account" ELSE pc[n]
  BY <1>7, SpotFacts DEF SchedTypes
<1>12. \A g \in Hosts, s \in Streams : Starts(g, s)' <=> Starts(g, s) /\ s # z
  BY <1>4, <1>7, <1>11 DEF Starts
<1>13. \A v : Full(v)' <=> Full(v)
  BY <1>7, <1>11 DEF Full
<1>14. \A k \in Kinds, n \in Spots, it \in Items : Serves(k, n, it, z) =>
         /\ k = "hand" /\ pc[n] \in {"finish", "spill"} /\ pc'[n] = "account"
         /\ ~In(pend'[z], it.task)
         /\ it.task # y
  BY <1>1, <1>4, <1>6, <1>7, <1>11
<1>15. \A n \in Runners : \/ pc'[n] = pc[n]
                          \/ /\ pc[n] \in {"finish", "spill"} /\ pc'[n] = "account"
                             /\ StreamOf[cur[n].task] = z
  BY <1>1, <1>2, <1>11
<1>16. Handing(z, y, "queue", 0)
  BY <1>4, <1>5, <1>6, <1>7, <1>9, <1>10, <1>12, <1>13, <1>14, <1>15 DEF Handing
<1> QED BY <1>5, <1>16, HandOn, SpotFacts

\* The runner r runs its item.
LEMMA InHand ==
  ASSUME SchedTypes, HandInv, WorkInv, NEW r \in Runners, pc[r] \in Running
  PROVE  /\ cur[r] \in Items /\ r \in Spots /\ "hand" \in Kinds
         /\ Holds("hand", r, cur[r]) /\ cur[r].task \in Tasks /\ cur[r].task \in accepted
         /\ \A k \in Kinds, n \in Spots, it \in Items :
              Holds(k, n, it) /\ it.task = cur[r].task => k = "hand" /\ n = r /\ it = cur[r]
<1>1. /\ cur[r] \in Items /\ r \in Spots /\ "hand" \in Kinds
      /\ Holds("hand", r, cur[r])
  BY SpotFacts DEF HandInv, SchedTypes, Holds, Kinds
<1>2. cur[r].task \in Tasks
  BY <1>1 DEF Items
<1>3. cur[r].task \in accepted
  BY <1>1 DEF WorkInv, KindInv
<1> QED BY <1>1, <1>2, <1>3 DEF WorkInv, UniqueInv

LEMMA RunItemStep ==
  ASSUME SchedTypes, HandInv, WorkInv, NEW r \in Runners, RunItem(r)
  PROVE  WorkInv'
<1>1. pc[r] = "run" /\ pc[r] \in Running
  BY DEF RunItem, Running
<1>2. PICK e \in Items : e = cur[r]
  BY <1>1, InHand
<1>3. PICK x \in Tasks : x = e.task
  BY <1>1, <1>2, InHand
<1>4. /\ r \in Spots /\ "hand" \in Kinds /\ Holds("hand", r, e) /\ x \in accepted
      /\ \A k \in Kinds, n \in Spots, it \in Items :
           Holds(k, n, it) /\ it.task = x => k = "hand" /\ n = r /\ it = e
  BY <1>1, <1>2, <1>3, InHand
<1>5. /\ UNCHANGED <<containers, pend, busy, accepted, emptied, todo, cur>>
      /\ pc' = [pc EXCEPT ![r] = IF e.kind = "stream" THEN "finish" ELSE "account"]
      /\ runs' = IF e.kind = "empty" THEN runs ELSE [runs EXCEPT ![x] = @ + 1]
  BY <1>2, <1>3 DEF RunItem, Goto, containers, numaVars, streamVars
<1>6. \A n \in Runners : pc'[n] = IF n = r THEN IF e.kind = "stream" THEN "finish" ELSE "account"
                                  ELSE pc[n]
  BY <1>5 DEF SchedTypes
<1>7. \A h \in Hosts : pc'[h] = pc[h]
  BY <1>5, SpotFacts DEF SchedTypes
<1>8. e.kind # "empty" => runs[x] = 0
  <2>1. ~Ran("hand", r)
    BY <1>1 DEF Ran
  <2> QED BY <1>3, <1>4, <2>1 DEF WorkInv, RunInv, SchedTypes
<1>9. \A y \in Tasks : runs'[y] = IF y = x /\ e.kind # "empty" THEN 1 ELSE runs[y]
  BY <1>5, <1>8 DEF SchedTypes
<1>10. Same /\ NoRepeats'
  BY <1>5, NothingMoves DEF WorkInv, UniqueInv, NoRepeats
<1>11. \A y : (Held(y)' <=> Held(y)) /\ (Full(y)' <=> Full(y))
  BY <1>5, <1>7, <1>10 DEF Held, Full, Same
<1>12. \A h \in Hosts, s \in Streams : Starts(h, s)' <=> Starts(h, s)
  BY <1>5, <1>7 DEF Starts
<1>13. \A k \in Kinds, n \in Spots, it \in Items :
         Holds(k, n, it) /\ k = "hand" => n \in Runners /\ (n = r => it = e)
  BY <1>2, SpotFacts DEF Holds
<1>14. KindInv'
  BY <1>5, <1>10 DEF WorkInv, KindInv, Same
<1>15. UniqueInv'
  BY <1>10 DEF WorkInv, UniqueInv, Same, NoRepeats
<1>16. x \in StreamTasks <=> e.kind = "stream"
  BY <1>3, <1>4 DEF WorkInv, KindInv
<1>17. RunInv'
  <2>1. \A k \in Kinds, n \in Spots, it \in Items :
          Holds(k, n, it)' /\ it.kind # "empty" => (runs'[it.task] = 1 <=> Ran(k, n)')
    <3> SUFFICES ASSUME NEW k \in Kinds, NEW n \in Spots, NEW it \in Items, Holds(k, n, it),
                        it.kind # "empty"
                 PROVE  runs'[it.task] = 1 <=> Ran(k, n)'
      BY <1>10 DEF Same
    <3>0. it.task \in Tasks
      BY DEF Items
    <3>1. CASE it = e
      BY <1>1, <1>3, <1>4, <1>6, <1>9, <3>1 DEF Ran
    <3>2. CASE it # e
      <4>1. it.task # x /\ runs'[it.task] = runs[it.task]
        BY <1>4, <1>9, <3>0, <3>2
      <4>2. Ran(k, n)' <=> Ran(k, n)
        BY <1>6, <1>13, <3>2 DEF Ran
      <4> QED BY <4>1, <4>2 DEF WorkInv, RunInv
    <3> QED BY <3>1, <3>2
  <2>2. e.kind # "empty" => x \notin emptied /\ ~Full(x)
    <3>1. Held(x)
      BY <1>3, <1>4 DEF Held
    <3> QED BY <1>3, <1>4, <3>1 DEF WorkInv, KindInv, RunInv
  <2>3. /\ \A y \in Tasks : y \notin accepted' => runs'[y] = 0
        /\ \A y \in Tasks : y \in emptied' \/ Full(y)' => runs'[y] = 0
    BY <1>4, <1>5, <1>9, <1>11, <2>2 DEF WorkInv, RunInv
  <2>4. \A y \in Tasks : Full(y)' => ~Held(y)' /\ y \notin emptied'
    BY <1>5, <1>11 DEF WorkInv, RunInv
  <2>5. \A y \in accepted' \ (StreamTasks \cup emptied') : runs'[y] = 1 \/ Held(y)' \/ Full(y)'
    BY <1>5, <1>9, <1>11 DEF WorkInv, RunInv, SchedTypes
  <2>6. \A y \in accepted' \cap StreamTasks : runs'[y] = 1 \/ In(pend'[StreamOf[y]], y)
    BY <1>5, <1>9 DEF WorkInv, RunInv, SchedTypes
  <2> QED BY <2>1, <2>3, <2>4, <2>5, <2>6 DEF RunInv
<1>18. \A k \in Kinds, n \in Spots, it \in Items :
         Holds(k, n, it) => (Spilling(k, n)' <=> Spilling(k, n))
  BY <1>1, <1>6, <1>13 DEF Spilling
<1>19. \A k \in Kinds, n \in Spots, it \in Items, s \in Streams :
      Serves(k, n, it, s)' <=> Serves(k, n, it, s)
  BY <1>1, <1>6, <1>10, <1>13 DEF Serves, Of, Same
<1>20. StreamInv'
  <2> SUFFICES ASSUME NEW s \in Streams
      PROVE /\ busy[s] <=> pend[s] # <<>>
            /\ busy[s] <=> \/ \E g \in Hosts : Starts(g, s)'
                           \/ \E k \in Kinds, n \in Spots, it \in Items : Serves(k, n, it, s)'
            /\ \A f, g \in Hosts : Starts(f, s)' /\ Starts(g, s)' => f = g
            /\ \A g \in Hosts, k \in Kinds, n \in Spots, it \in Items :
                 ~(Starts(g, s)' /\ Serves(k, n, it, s)')
            /\ \A k, j \in Kinds, n, o \in Spots, it, jt \in Items :
                 Serves(k, n, it, s)' /\ Serves(j, o, jt, s)' => k = j /\ n = o /\ it = jt
            /\ \A k \in Kinds, n \in Spots, it \in Items : Serves(k, n, it, s)' =>
                 IF Spilling(k, n)' THEN ~In(pend[s], it.task) ELSE it.task = pend[s][1]
    BY <1>5 DEF StreamInv
  <2>1. \A k \in Kinds, n \in Spots, it \in Items : Serves(k, n, it, s) => Holds(k, n, it)
    BY DEF Serves
  <2> QED BY <1>12, <1>18, <1>19, <2>1 DEF WorkInv, StreamInv
<1>21. PendInv'
  <2> SUFFICES ASSUME NEW s \in Streams
      PROVE /\ Inj(pend[s])
            /\ \A i \in DOMAIN pend[s] :
                 /\ pend[s][i] \in accepted /\ StreamOf[pend[s][i]] = s
                 /\ runs'[pend[s][i]] = 1 =>
                      i = 1 /\ \E q \in Runners : cur[q].task = pend[s][i] /\ pc'[q] = "finish"
            /\ \A q \in Runners : pc'[q] = "account" => ~In(pend[s], cur[q].task)
    BY <1>5 DEF PendInv
  <2>0. pend[s] \in Seq(StreamTasks) /\ \A i \in DOMAIN pend[s] : pend[s][i] \in StreamTasks
    BY DEF SchedTypes
  <2>1. \A q \in Runners : pc'[q] = "account" => ~In(pend[s], cur[q].task)
    <3>1. ~(e.kind = "stream") => ~In(pend[s], x)
      BY <1>16, <2>0 DEF In
    <3> QED BY <1>2, <1>3, <1>6, <3>1 DEF WorkInv, PendInv
  <2>2. ASSUME NEW i \in DOMAIN pend[s], runs'[pend[s][i]] = 1
        PROVE  i = 1 /\ \E q \in Runners : cur[q].task = pend[s][i] /\ pc'[q] = "finish"
    <3>0. pend[s][i] \in StreamTasks /\ pend[s][i] \in Tasks
      BY <2>0 DEF Tasks
    <3>1. CASE pend[s][i] = x /\ e.kind = "stream"
      <4>1. StreamOf[x] = s
        BY <3>1 DEF WorkInv, PendInv
      <4>2. Serves("hand", r, e, s) /\ ~Spilling("hand", r)
        BY <1>1, <1>3, <1>4, <3>1, <4>1 DEF Serves, Of, Spilling
      <4>3. x = pend[s][1]
        BY <1>3, <1>4, <4>2 DEF WorkInv, StreamInv
      <4>4. 1 \in DOMAIN pend[s]
        BY <2>0
      <4>5. i = 1
        BY <3>1, <4>3, <4>4 DEF WorkInv, PendInv, Inj
      <4> QED BY <1>2, <1>3, <1>6, <3>1, <4>5
    <3>2. CASE ~(pend[s][i] = x /\ e.kind = "stream")
      <4>1. runs[pend[s][i]] = 1
        BY <1>9, <1>16, <2>2, <3>0, <3>2
      <4>2. i = 1 /\ \E q \in Runners : cur[q].task = pend[s][i] /\ pc[q] = "finish"
        BY <4>1 DEF WorkInv, PendInv
      <4> QED BY <1>1, <1>6, <4>2
    <3> QED BY <3>1, <3>2
  <2> QED BY <2>1, <2>2 DEF WorkInv, PendInv
<1> QED BY <1>14, <1>15, <1>17, <1>20, <1>21 DEF WorkInv

LEMMA AccountStep ==
  ASSUME SchedTypes, HandInv, WorkInv, NEW r \in Runners, Account(r)
  PROVE  WorkInv'
<1>1. pc[r] = "account" /\ pc[r] \in Running
  BY DEF Account, Running
<1>2. /\ UNCHANGED <<queue, numaQ, deque, ring, pend, busy, runs, accepted, emptied, todo>>
      /\ pc' = [pc EXCEPT ![r] = IF r = Dtor THEN "drain" ELSE "seek"]
      /\ cur' = [cur EXCEPT ![r] = NoItem]
  BY DEF Account, Goto, numaVars, streamVars, ghosts
<1>3. Dropped(r) /\ NoRepeats'
  BY <1>2, HandDrops DEF WorkInv, UniqueInv, NoRepeats
<1>4. \A n \in Runners : /\ pc'[n] = IF n = r THEN IF r = Dtor THEN "drain" ELSE "seek" ELSE pc[n]
                         /\ cur'[n] = IF n = r THEN NoItem ELSE cur[n]
  BY <1>2 DEF SchedTypes
<1>5. HostsStay
  BY <1>2, SpotFacts DEF HostsStay, SchedTypes
<1>6. \A k \in Kinds, n \in Spots, it \in Items :
        Holds(k, n, it)' <=> Holds(k, n, it) /\ ~(k = "hand" /\ n = r)
  BY <1>3 DEF Dropped
<1>7. \A k \in Kinds, n \in Spots, it \in Items :
        Holds(k, n, it) /\ k = "hand" => n \in Runners /\ cur[n] = it
  BY SpotFacts DEF Holds
<1>8. \A k \in Kinds, n \in Spots, it \in Items : Holds(k, n, it) /\ ~(k = "hand" /\ n = r) =>
        /\ Ran(k, n)' <=> Ran(k, n)
        /\ Spilling(k, n)' <=> Spilling(k, n)
        /\ (k = "hand" /\ pc[n] = "account")' <=> (k = "hand" /\ pc[n] = "account")
  BY <1>4, <1>7 DEF Ran, Spilling
<1>9. KindInv'
  BY <1>2, <1>6 DEF WorkInv, KindInv
<1>10. UniqueInv'
  <2>1. ASSUME NEW k \in Kinds, NEW j \in Kinds, NEW n \in Spots, NEW o \in Spots,
               NEW it \in Items, NEW jt \in Items,
               Holds(k, n, it)', Holds(j, o, jt)', it.task = jt.task
        PROVE  k = j /\ n = o /\ it = jt
    BY <1>6, <2>1 DEF WorkInv, UniqueInv
  <2> QED BY <1>3, <2>1 DEF UniqueInv, NoRepeats
<1>11. RunInv'
  <2>1. \A k \in Kinds, n \in Spots, it \in Items :
          Holds(k, n, it)' /\ it.kind # "empty" => (runs'[it.task] = 1 <=> Ran(k, n)')
    BY <1>2, <1>6, <1>8 DEF WorkInv, RunInv
  <2>2. \A y : Held(y)' => Held(y)
    BY <1>6 DEF Held
  <2>3. \A y : Held(y) => Held(y)' \/ y = cur[r].task
    BY <1>6, <1>7 DEF Held
  <2>4. cur[r].task \in emptied \/ runs[cur[r].task] = 1
    <3>1. cur[r] \in Items /\ r \in Spots /\ "hand" \in Kinds /\ Holds("hand", r, cur[r])
      BY <1>1, InHand
    <3>2. Ran("hand", r)
      BY <1>1 DEF Ran
    <3> QED BY <3>1, <3>2 DEF WorkInv, KindInv, RunInv
  <2>5. \A y \in accepted' \ (StreamTasks \cup emptied') : runs'[y] = 1 \/ Held(y)' \/ Full(y)'
    BY <1>2, <1>5, <2>3, <2>4, HostsStayFacts DEF WorkInv, RunInv
  <2> QED BY <1>2, <1>5, <2>1, <2>2, <2>5, HostsStayFacts DEF WorkInv, RunInv
<1>12. \A k \in Kinds, n \in Spots, it \in Items, s \in Streams :
      Serves(k, n, it, s)' <=> Serves(k, n, it, s)
  BY <1>1, <1>6, <1>8 DEF Serves, Of
<1>13. StreamInv'
  <2> SUFFICES ASSUME NEW s \in Streams
      PROVE /\ busy[s] <=> pend[s] # <<>>
            /\ busy[s] <=> \/ \E g \in Hosts : Starts(g, s)'
                           \/ \E k \in Kinds, n \in Spots, it \in Items : Serves(k, n, it, s)'
            /\ \A f, g \in Hosts : Starts(f, s)' /\ Starts(g, s)' => f = g
            /\ \A g \in Hosts, k \in Kinds, n \in Spots, it \in Items :
                 ~(Starts(g, s)' /\ Serves(k, n, it, s)')
            /\ \A k, j \in Kinds, n, o \in Spots, it, jt \in Items :
                 Serves(k, n, it, s)' /\ Serves(j, o, jt, s)' => k = j /\ n = o /\ it = jt
            /\ \A k \in Kinds, n \in Spots, it \in Items : Serves(k, n, it, s)' =>
                 IF Spilling(k, n)' THEN ~In(pend[s], it.task) ELSE it.task = pend[s][1]
    BY <1>2 DEF StreamInv
  <2>1. \A k \in Kinds, n \in Spots, it \in Items :
          Serves(k, n, it, s) => Holds(k, n, it) /\ ~(k = "hand" /\ n = r)
    BY <1>1 DEF Serves
  <2> QED BY <1>5, <1>8, <1>12, <2>1, HostsStayFacts DEF WorkInv, StreamInv
<1>14. PendInv'
  <2>1. \A n \in Runners : /\ pc'[n] = "account" => pc[n] = "account" /\ cur'[n] = cur[n]
                           /\ pc[n] = "finish" => pc'[n] = "finish" /\ cur'[n] = cur[n]
    BY <1>1, <1>4
  <2> QED BY <1>2, <2>1 DEF WorkInv, PendInv
<1> QED BY <1>9, <1>10, <1>11, <1>13, <1>14 DEF WorkInv

\* A runner at the end of the front task of stream z: it alone serves the stream,
\* its task has run and none behind it has.
Retiring(r, z) ==
  /\ z \in Streams /\ cur[r] \in Items /\ r \in Spots /\ "hand" \in Kinds
  /\ Serves("hand", r, cur[r], z) /\ cur[r].task = pend[z][1]
  /\ \A k \in Kinds, n \in Spots, it \in Items : Serves(k, n, it, z) =>
       k = "hand" /\ n = r /\ it = cur[r]
  /\ \A g \in Hosts : ~Starts(g, z)
  /\ busy[z] /\ pend[z] # <<>> /\ pend[z] \in Seq(StreamTasks) /\ Inj(pend[z])
  /\ Tail(pend[z]) \in Seq(StreamTasks) /\ Inj(Tail(pend[z]))
  /\ \A y : In(Tail(pend[z]), y) <=> In(pend[z], y) /\ y # cur[r].task
  /\ runs[cur[r].task] = 1
  /\ \A y : In(Tail(pend[z]), y) => runs[y] # 1

LEMMA FinishFacts ==
  ASSUME SchedTypes, HandInv, WorkInv, NEW r \in Runners, pc[r] = "finish"
  PROVE  Retiring(r, StreamOf[cur[r].task])
<1>0. PICK z : z = StreamOf[cur[r].task]
  OBVIOUS
<1>1. /\ z \in Streams /\ cur[r] \in Items /\ r \in Spots /\ "hand" \in Kinds
      /\ Serves("hand", r, cur[r], z) /\ Holds("hand", r, cur[r]) /\ cur[r].kind = "stream"
  BY <1>0, RunnerServes
<1>2. ~Spilling("hand", r) /\ Ran("hand", r)
  BY DEF Spilling, Ran
<1>3. /\ cur[r].task = pend[z][1]
      /\ \A k \in Kinds, n \in Spots, it \in Items : Serves(k, n, it, z) =>
           k = "hand" /\ n = r /\ it = cur[r]
      /\ \A g \in Hosts : ~Starts(g, z)
      /\ busy[z] /\ pend[z] # <<>>
  BY <1>1, <1>2 DEF WorkInv, StreamInv
<1>4. /\ pend[z] \in Seq(StreamTasks) /\ Inj(pend[z]) /\ Head(pend[z]) = pend[z][1]
      /\ 1 \in DOMAIN pend[z]
  BY <1>1, <1>3, FirstPending
<1>5. /\ Tail(pend[z]) \in Seq(StreamTasks) /\ Inj(Tail(pend[z]))
      /\ \A y : In(Tail(pend[z]), y) <=> In(pend[z], y) /\ y # cur[r].task
  <2>1. Head(pend[z]) = cur[r].task
    BY <1>3, <1>4
  <2>2. /\ Tail(pend[z]) \in Seq(StreamTasks) /\ Inj(Tail(pend[z]))
        /\ \A y : In(Tail(pend[z]), y) <=> In(pend[z], y) /\ y # Head(pend[z])
    BY <1>3, <1>4, InTail
  <2> QED BY <2>1, <2>2
<1>6. runs[cur[r].task] = 1
  BY <1>1, <1>2 DEF WorkInv, RunInv
<1>7. \A y : In(Tail(pend[z]), y) => runs[y] # 1
  <2> SUFFICES ASSUME NEW y, In(pend[z], y), y # cur[r].task, runs[y] = 1 PROVE FALSE
    BY <1>5
  <2>1. PICK i \in DOMAIN pend[z] : pend[z][i] = y
    BY DEF In
  <2>2. i = 1
    BY <1>1, <2>1 DEF WorkInv, PendInv
  <2> QED BY <1>3, <2>1, <2>2
<1> QED BY <1>0, <1>1, <1>3, <1>4, <1>5, <1>6, <1>7 DEF Retiring

\* The last task of a stream's queue is retired.
LEMMA FinishLast ==
  ASSUME SchedTypes, HandInv, WorkInv, NEW r \in Runners, pc[r] = "finish",
         NEW z \in Streams, z = StreamOf[cur[r].task], Tail(pend[z]) = <<>>,
         pend' = [pend EXCEPT ![z] = <<>>], busy' = [busy EXCEPT ![z] = FALSE],
         pc' = [pc EXCEPT ![r] = "account"],
         UNCHANGED <<containers, runs, accepted, emptied, todo>>
  PROVE  WorkInv'
<1>r. Retiring(r, z)
  BY SpotFacts, FinishFacts
<1>1. /\ cur[r] \in Items /\ r \in Spots /\ "hand" \in Kinds
      /\ Serves("hand", r, cur[r], z)
      /\ \A k \in Kinds, n \in Spots, it \in Items : Serves(k, n, it, z) =>
           k = "hand" /\ n = r /\ it = cur[r]
      /\ \A g \in Hosts : ~Starts(g, z)
      /\ runs[cur[r].task] = 1
      /\ \A y : In(Tail(pend[z]), y) <=> In(pend[z], y) /\ y # cur[r].task
  BY <1>r DEF Retiring
<1>0. /\ \A y : ~In(<<>>, y)
      /\ Inj(<<>>)
  BY DEF In, Inj
<1>2. /\ \A s \in Streams : /\ pend'[s] = IF s = z THEN <<>> ELSE pend[s]
                            /\ busy'[s] <=> IF s = z THEN FALSE ELSE busy[s]
      /\ \A n \in Runners : pc'[n] = IF n = r THEN "account" ELSE pc[n]
      /\ \A h \in Hosts : pc'[h] = pc[h]
  BY SpotFacts DEF SchedTypes
<1>3. Same /\ NoRepeats'
  BY NothingMoves DEF WorkInv, UniqueInv, NoRepeats
<1>4. \A y : (Held(y)' <=> Held(y)) /\ (Full(y)' <=> Full(y))
  BY <1>2, <1>3 DEF Held, Full, Same
<1>5. \A h \in Hosts, s \in Streams : Starts(h, s)' <=> Starts(h, s)
  BY <1>2 DEF Starts
<1>6. \A k \in Kinds, n \in Spots, it \in Items :
        Holds(k, n, it) /\ k = "hand" => n \in Runners /\ cur[n] = it
  BY SpotFacts DEF Holds
<1>7. \A k \in Kinds, n \in Spots, it \in Items : Holds(k, n, it) =>
        (Ran(k, n)' <=> Ran(k, n)) /\ (Spilling(k, n)' <=> Spilling(k, n))
  BY <1>2, <1>6 DEF Ran, Spilling
<1>8. KindInv' /\ UniqueInv'
  <2>1. KindInv'
    BY <1>3 DEF WorkInv, KindInv, Same
  <2>2. UniqueInv'
    BY <1>3 DEF WorkInv, UniqueInv, Same, NoRepeats
  <2> QED BY <2>1, <2>2
<1>9. RunInv'
  <2>1. \A k \in Kinds, n \in Spots, it \in Items :
          Holds(k, n, it)' /\ it.kind # "empty" => (runs'[it.task] = 1 <=> Ran(k, n)')
    BY <1>3, <1>7 DEF WorkInv, RunInv, Same
  <2>2. \A y \in accepted' \cap StreamTasks : runs'[y] = 1 \/ In(pend'[StreamOf[y]], y)
    <3>1. \A y \in StreamTasks : StreamOf[y] \in Streams
      BY DEF Streams
    <3>2. \A y : In(pend[z], y) => y = cur[r].task
      <4>1. \A y : ~In(Tail(pend[z]), y)
        BY <1>0
      <4> QED BY <1>1, <4>1
    <3>3. \A y \in accepted \cap StreamTasks : runs[y] = 1 \/ In(pend[StreamOf[y]], y)
      BY DEF WorkInv, RunInv
    <3> QED BY <1>1, <1>2, <3>1, <3>2, <3>3
  <2>3. /\ \A y \in Tasks : y \notin accepted' => runs'[y] = 0
        /\ \A y \in Tasks : y \in emptied' \/ Full(y)' => runs'[y] = 0
        /\ \A y \in Tasks : Full(y)' => ~Held(y)' /\ y \notin emptied'
        /\ \A y \in accepted' \ (StreamTasks \cup emptied') : runs'[y] = 1 \/ Held(y)' \/ Full(y)'
    BY <1>4 DEF WorkInv, RunInv
  <2> QED BY <2>1, <2>2, <2>3 DEF RunInv
<1>10. \A k \in Kinds, n \in Spots, it \in Items : ~Serves(k, n, it, z)'
  <2> SUFFICES ASSUME NEW k \in Kinds, NEW n \in Spots, NEW it \in Items, Serves(k, n, it, z)'
               PROVE  FALSE
    OBVIOUS
  <2>1. Holds(k, n, it) /\ Of(it, z) /\ ~(k = "hand" /\ pc'[n] = "account")
    BY <1>3 DEF Serves, Same, Of
  <2>2. ~(k = "hand" /\ pc[n] = "account")
    BY <1>2, <1>6, <2>1
  <2>3. Serves(k, n, it, z)
    BY <2>1, <2>2 DEF Serves
  <2> QED BY <1>1, <1>2, <2>1, <2>3
<1>11. \A k \in Kinds, n \in Spots, it \in Items, s \in Streams : s # z =>
         (Serves(k, n, it, s)' <=> Serves(k, n, it, s))
  <2>1. \A k \in Kinds, n \in Spots, it \in Items, s \in Streams :
          Holds(k, n, it) /\ s # z /\ Of(it, s) /\ k = "hand" => pc'[n] = pc[n]
    BY <1>2, <1>6 DEF Of
  <2> QED BY <1>3, <2>1 DEF Serves, Of, Same
<1>12. StreamInv'
  <2> SUFFICES ASSUME NEW s \in Streams
      PROVE /\ busy'[s] <=> pend'[s] # <<>>
            /\ busy'[s] <=> \/ \E g \in Hosts : Starts(g, s)'
                            \/ \E k \in Kinds, n \in Spots, it \in Items : Serves(k, n, it, s)'
            /\ \A f, g \in Hosts : Starts(f, s)' /\ Starts(g, s)' => f = g
            /\ \A g \in Hosts, k \in Kinds, n \in Spots, it \in Items :
                 ~(Starts(g, s)' /\ Serves(k, n, it, s)')
            /\ \A k, j \in Kinds, n, o \in Spots, it, jt \in Items :
                 Serves(k, n, it, s)' /\ Serves(j, o, jt, s)' => k = j /\ n = o /\ it = jt
            /\ \A k \in Kinds, n \in Spots, it \in Items : Serves(k, n, it, s)' =>
                 IF Spilling(k, n)' THEN ~In(pend'[s], it.task) ELSE it.task = pend'[s][1]
    BY DEF StreamInv
  <2>1. CASE s = z
    BY <1>1, <1>2, <1>5, <1>10, <2>1
  <2>2. CASE s # z
    <3>1. \A k \in Kinds, n \in Spots, it \in Items : Serves(k, n, it, s) => Holds(k, n, it)
      BY DEF Serves
    <3>2. \A k \in Kinds, n \in Spots, it \in Items : Serves(k, n, it, s)' <=> Serves(k, n, it, s)
      BY <1>11, <2>2
    <3> QED BY <1>2, <1>5, <1>7, <2>2, <3>1, <3>2 DEF WorkInv, StreamInv
  <2> QED BY <2>1, <2>2
<1>13. PendInv'
  <2> SUFFICES ASSUME NEW s \in Streams
      PROVE /\ Inj(pend'[s])
            /\ \A i \in DOMAIN pend'[s] :
                 /\ pend'[s][i] \in accepted' /\ StreamOf[pend'[s][i]] = s
                 /\ runs'[pend'[s][i]] = 1 =>
                      i = 1 /\ \E q \in Runners : cur'[q].task = pend'[s][i] /\ pc'[q] = "finish"
            /\ \A q \in Runners : pc'[q] = "account" => ~In(pend'[s], cur'[q].task)
    BY DEF PendInv
  <2>1. CASE s = z
    BY <1>0, <1>2, <2>1
  <2>2. CASE s # z
    <3>1. pend'[s] = pend[s] /\ cur' = cur
      BY <1>2, <2>2 DEF containers
    <3>2. \A i \in DOMAIN pend[s], q \in Runners :
            cur[q].task = pend[s][i] /\ pc[q] = "finish" => pc'[q] = "finish"
      BY <1>2, <2>2 DEF WorkInv, PendInv
    <3>3. \A q \in Runners : pc'[q] = "account" => ~In(pend[s], cur[q].task)
      <4>1. ~In(pend[s], cur[r].task)
        BY <2>2 DEF WorkInv, PendInv, In
      <4> QED BY <1>2, <4>1 DEF WorkInv, PendInv
    <3> QED BY <3>1, <3>2, <3>3 DEF WorkInv, PendInv
  <2> QED BY <2>1, <2>2
<1> QED BY <1>8, <1>9, <1>12, <1>13 DEF WorkInv

\* Another task waits, and there is no room for its item in the runner's deque.
LEMMA FinishToSpill ==
  ASSUME SchedTypes, HandInv, WorkInv, NEW r \in Runners, pc[r] = "finish",
         NEW z \in Streams, z = StreamOf[cur[r].task], Tail(pend[z]) # <<>>,
         pend' = [pend EXCEPT ![z] = Tail(pend[z])], busy' = [busy EXCEPT ![z] = TRUE],
         pc' = [pc EXCEPT ![r] = "spill"],
         UNCHANGED <<containers, runs, accepted, emptied, todo>>
  PROVE  WorkInv'
<1>r. Retiring(r, z)
  BY SpotFacts, FinishFacts
<1>1. /\ cur[r] \in Items /\ r \in Spots /\ "hand" \in Kinds
      /\ Serves("hand", r, cur[r], z) /\ busy[z]
      /\ \A k \in Kinds, n \in Spots, it \in Items : Serves(k, n, it, z) =>
           k = "hand" /\ n = r /\ it = cur[r]
      /\ \A g \in Hosts : ~Starts(g, z)
      /\ runs[cur[r].task] = 1 /\ Inj(Tail(pend[z]))
      /\ \A y : In(Tail(pend[z]), y) <=> In(pend[z], y) /\ y # cur[r].task
      /\ \A y : In(Tail(pend[z]), y) => runs[y] # 1
  BY <1>r DEF Retiring
<1>2. /\ \A s \in Streams : /\ pend'[s] = IF s = z THEN Tail(pend[z]) ELSE pend[s]
                            /\ busy'[s] <=> IF s = z THEN TRUE ELSE busy[s]
      /\ \A n \in Runners : pc'[n] = IF n = r THEN "spill" ELSE pc[n]
      /\ \A h \in Hosts : pc'[h] = pc[h]
  BY SpotFacts DEF SchedTypes
<1>3. Same /\ NoRepeats'
  BY NothingMoves DEF WorkInv, UniqueInv, NoRepeats
<1>4. \A y : (Held(y)' <=> Held(y)) /\ (Full(y)' <=> Full(y))
  BY <1>2, <1>3 DEF Held, Full, Same
<1>5. \A h \in Hosts, s \in Streams : Starts(h, s)' <=> Starts(h, s)
  BY <1>2 DEF Starts
<1>6. \A k \in Kinds, n \in Spots, it \in Items :
        Holds(k, n, it) /\ k = "hand" => n \in Runners /\ cur[n] = it
  BY SpotFacts DEF Holds
<1>7. \A k \in Kinds, n \in Spots, it \in Items : Holds(k, n, it) =>
        /\ Ran(k, n)' <=> Ran(k, n)
        /\ it # cur[r] => (Spilling(k, n)' <=> Spilling(k, n))
  BY <1>2, <1>6 DEF Ran, Spilling
<1>8. KindInv' /\ UniqueInv'
  <2>1. KindInv'
    BY <1>3 DEF WorkInv, KindInv, Same
  <2>2. UniqueInv'
    BY <1>3 DEF WorkInv, UniqueInv, Same, NoRepeats
  <2> QED BY <2>1, <2>2
<1>9. RunInv'
  <2>1. \A k \in Kinds, n \in Spots, it \in Items :
          Holds(k, n, it)' /\ it.kind # "empty" => (runs'[it.task] = 1 <=> Ran(k, n)')
    BY <1>3, <1>7 DEF WorkInv, RunInv, Same
  <2>2. \A y \in accepted' \cap StreamTasks : runs'[y] = 1 \/ In(pend'[StreamOf[y]], y)
    <3>1. \A y \in StreamTasks : StreamOf[y] \in Streams
      BY DEF Streams
    <3>2. \A y : In(pend[z], y) => y = cur[r].task \/ In(Tail(pend[z]), y)
      BY <1>1
    <3>3. \A y \in accepted \cap StreamTasks : runs[y] = 1 \/ In(pend[StreamOf[y]], y)
      BY DEF WorkInv, RunInv
    <3> QED BY <1>1, <1>2, <3>1, <3>2, <3>3
  <2>3. /\ \A y \in Tasks : y \notin accepted' => runs'[y] = 0
        /\ \A y \in Tasks : y \in emptied' \/ Full(y)' => runs'[y] = 0
        /\ \A y \in Tasks : Full(y)' => ~Held(y)' /\ y \notin emptied'
        /\ \A y \in accepted' \ (StreamTasks \cup emptied') : runs'[y] = 1 \/ Held(y)' \/ Full(y)'
    BY <1>4 DEF WorkInv, RunInv
  <2> QED BY <2>1, <2>2, <2>3 DEF RunInv
<1>10. \A k \in Kinds, n \in Spots, it \in Items, s \in Streams :
      Serves(k, n, it, s)' <=> Serves(k, n, it, s)
  BY <1>2, <1>3, <1>6 DEF Serves, Of, Same
<1>11. StreamInv'
  <2> SUFFICES ASSUME NEW s \in Streams
      PROVE /\ busy'[s] <=> pend'[s] # <<>>
            /\ busy'[s] <=> \/ \E g \in Hosts : Starts(g, s)'
                            \/ \E k \in Kinds, n \in Spots, it \in Items : Serves(k, n, it, s)'
            /\ \A f, g \in Hosts : Starts(f, s)' /\ Starts(g, s)' => f = g
            /\ \A g \in Hosts, k \in Kinds, n \in Spots, it \in Items :
                 ~(Starts(g, s)' /\ Serves(k, n, it, s)')
            /\ \A k, j \in Kinds, n, o \in Spots, it, jt \in Items :
                 Serves(k, n, it, s)' /\ Serves(j, o, jt, s)' => k = j /\ n = o /\ it = jt
            /\ \A k \in Kinds, n \in Spots, it \in Items : Serves(k, n, it, s)' =>
                 IF Spilling(k, n)' THEN ~In(pend'[s], it.task) ELSE it.task = pend'[s][1]
    BY DEF StreamInv
  <2>0. /\ \A g \in Hosts : Starts(g, s)' <=> Starts(g, s)
        /\ \A k \in Kinds, n \in Spots, it \in Items : Serves(k, n, it, s)' <=> Serves(k, n, it, s)
    BY <1>5, <1>10
  <2>1. CASE s = z
    <3>1. \A k \in Kinds, n \in Spots, it \in Items : Serves(k, n, it, z) =>
            Spilling(k, n)' /\ ~In(pend'[z], it.task)
      BY <1>1, <1>2 DEF Spilling
    <3> QED BY <1>1, <1>2, <2>0, <2>1, <3>1
  <2>2. CASE s # z
    <3>1. \A k \in Kinds, n \in Spots, it \in Items :
            Serves(k, n, it, s) => Holds(k, n, it) /\ it # cur[r]
      BY <2>2 DEF Serves, Of
    <3> QED BY <1>2, <1>7, <2>0, <2>2, <3>1 DEF WorkInv, StreamInv
  <2> QED BY <2>1, <2>2
<1>12. PendInv'
  <2> SUFFICES ASSUME NEW s \in Streams
      PROVE /\ Inj(pend'[s])
            /\ \A i \in DOMAIN pend'[s] :
                 /\ pend'[s][i] \in accepted' /\ StreamOf[pend'[s][i]] = s
                 /\ runs'[pend'[s][i]] = 1 =>
                      i = 1 /\ \E q \in Runners : cur'[q].task = pend'[s][i] /\ pc'[q] = "finish"
            /\ \A q \in Runners : pc'[q] = "account" => ~In(pend'[s], cur'[q].task)
    BY DEF PendInv
  <2>0. \A q \in Runners : pc'[q] = "account" => pc[q] = "account" /\ cur'[q] = cur[q]
    BY <1>2 DEF containers
  <2>1. CASE s = z
    <3> DEFINE t == Tail(pend[z])
    <3>1. \A i \in DOMAIN t : In(t, t[i])
      BY DEF In
    <3> HIDE DEF t
    <3>2. \A i \in DOMAIN t : In(pend[z], t[i]) /\ runs[t[i]] # 1
      BY <1>1, <3>1 DEF t
    <3>3. \A i \in DOMAIN t : t[i] \in accepted /\ StreamOf[t[i]] = z
      BY <3>2 DEF WorkInv, PendInv, In
    <3>4. \A q \in Runners : pc'[q] = "account" => ~In(t, cur'[q].task)
      BY <1>1, <2>0 DEF WorkInv, PendInv, t
    <3>5. pend'[s] = t /\ Inj(t)
      BY <1>1, <1>2, <2>1 DEF t
    <3> QED BY <2>1, <3>2, <3>3, <3>4, <3>5
  <2>2. CASE s # z
    <3>1. pend'[s] = pend[s] /\ cur' = cur
      BY <1>2, <2>2 DEF containers
    <3>2. \A i \in DOMAIN pend[s], q \in Runners :
            cur[q].task = pend[s][i] /\ pc[q] = "finish" => pc'[q] = "finish"
      BY <1>2, <2>2 DEF WorkInv, PendInv
    <3>3. \A q \in Runners : pc'[q] = "account" => ~In(pend[s], cur[q].task)
      BY <2>0, <3>1 DEF WorkInv, PendInv
    <3>4. \A i \in DOMAIN pend[s] :
            /\ pend[s][i] \in accepted /\ StreamOf[pend[s][i]] = s
            /\ runs[pend[s][i]] = 1 =>
                 i = 1 /\ \E q \in Runners : cur[q].task = pend[s][i] /\ pc'[q] = "finish"
      BY <3>2 DEF WorkInv, PendInv
    <3>5. Inj(pend[s])
      BY DEF WorkInv, PendInv
    <3>6. accepted' = accepted /\ runs' = runs
      OBVIOUS
    <3>7. \A i \in DOMAIN pend'[s] :
            /\ pend'[s][i] \in accepted' /\ StreamOf[pend'[s][i]] = s
            /\ runs'[pend'[s][i]] = 1 =>
                 i = 1 /\ \E q \in Runners : cur'[q].task = pend'[s][i] /\ pc'[q] = "finish"
      BY <3>1, <3>4, <3>6
    <3>8. Inj(pend'[s]) /\ \A q \in Runners : pc'[q] = "account" => ~In(pend'[s], cur'[q].task)
      BY <3>1, <3>3, <3>5
    <3> QED BY <3>7, <3>8
  <2> QED BY <2>1, <2>2
<1> QED BY <1>8, <1>9, <1>11, <1>12 DEF WorkInv

\* Another task waits, and its item goes to the runner's deque.
LEMMA FinishToDeque ==
  ASSUME SchedTypes, HandInv, WorkInv, HostInv, NEW r \in Workers, pc[r] = "finish",
         NEW z \in Streams, z = StreamOf[cur[r].task], Tail(pend[z]) # <<>>,
         pend' = [pend EXCEPT ![z] = Tail(pend[z])], busy' = [busy EXCEPT ![z] = TRUE],
         deque' = [deque EXCEPT ![r] = Append(@, Item("stream", Head(Tail(pend[z]))))],
         pc' = [pc EXCEPT ![r] = "account"],
         UNCHANGED <<queue, numaQ, ring, cur, runs, accepted, emptied, todo>>
  PROVE  WorkInv'
<1>0. r \in Runners
  BY SpotFacts
<1>r. Retiring(r, z)
  BY SpotFacts, FinishFacts
<1>1. /\ cur[r] \in Items /\ r \in Spots /\ "hand" \in Kinds
      /\ Serves("hand", r, cur[r], z) /\ busy[z]
      /\ \A k \in Kinds, n \in Spots, it \in Items : Serves(k, n, it, z) =>
           k = "hand" /\ n = r /\ it = cur[r]
      /\ \A g \in Hosts : ~Starts(g, z)
      /\ runs[cur[r].task] = 1 /\ Inj(Tail(pend[z])) /\ Tail(pend[z]) \in Seq(StreamTasks)
      /\ \A y : In(Tail(pend[z]), y) <=> In(pend[z], y) /\ y # cur[r].task
      /\ \A y : In(Tail(pend[z]), y) => runs[y] # 1
  BY <1>r DEF Retiring
<1>2. /\ \A s \in Streams : /\ pend'[s] = IF s = z THEN Tail(pend[z]) ELSE pend[s]
                            /\ busy'[s] <=> IF s = z THEN TRUE ELSE busy[s]
      /\ \A n \in Runners : pc'[n] = IF n = r THEN "account" ELSE pc[n]
      /\ \A h \in Hosts : pc'[h] = pc[h]
  BY SpotFacts DEF SchedTypes
<1> DEFINE t == Tail(pend[z])
<1>3. PICK y \in StreamTasks : y = Head(t) /\ y = t[1] /\ In(t, y)
  BY <1>1, InTail
<1>a. deque' = [deque EXCEPT ![r] = Append(@, Item("stream", y))]
  BY <1>3
<1>b. \A i \in DOMAIN t : In(t, t[i])
  BY DEF In
<1>c. /\ pend'[z] = t /\ t # <<>> /\ Inj(t) /\ t[1] = y
      /\ \A v : In(t, v) <=> In(pend[z], v) /\ v # cur[r].task
      /\ \A v : In(t, v) => runs[v] # 1
  BY <1>1, <1>2, <1>3
<1> HIDE DEF t
<1>4. /\ In(pend[z], y)
      /\ \A k \in Kinds, n \in Spots, it \in Items : Serves(k, n, it, z) => it.task # y
  BY <1>1, <1>3, <1>c
<1>5. ~Held(y) /\ Item("stream", y) \in Items /\ Item("stream", y).task = y
  BY <1>4, FrontFacts
<1>6. ~Holds("deque", r, Item("stream", y))
  BY <1>1, <1>5 DEF Held, Kinds
<1>7. Added(Item("stream", y), "deque", r) /\ NoRepeats'
  BY <1>5, <1>6, <1>a, DequeGets DEF WorkInv, UniqueInv, NoRepeats
<1>8. \A i \in DOMAIN pend'[z] : In(pend[z], pend'[z][i]) /\ (runs[pend'[z][i]] = 1 => FALSE)
  BY <1>b, <1>c
<1>9. \A x \in accepted : In(pend[z], x) => In(pend'[z], x) \/ runs[x] = 1
  BY <1>1, <1>c
<1>10. \A x : Full(x)' <=> Full(x)
  BY <1>2 DEF Full
<1>11. \A h \in Hosts, s \in Streams : Starts(h, s)' <=> Starts(h, s) /\ s # z
  BY <1>1, <1>2 DEF Starts
<1>12. \A k \in Kinds, n \in Spots, it \in Items : Serves(k, n, it, z) =>
         k = "hand" /\ pc[n] \in {"finish", "spill"} /\ pc'[n] = "account"
         /\ ~In(pend'[z], it.task)
  BY <1>0, <1>1, <1>2, <1>c
<1>13. \A n \in Runners : \/ pc'[n] = pc[n]
                          \/ /\ pc[n] \in {"finish", "spill"} /\ pc'[n] = "account"
                             /\ StreamOf[cur[n].task] = z
  BY <1>2
<1>14. \A s \in Streams : s # z => pend'[s] = pend[s] /\ (busy'[s] <=> busy[s])
  BY <1>2
<1>15. busy'[z] /\ pend'[z] # <<>> /\ pend'[z][1] = y /\ Inj(pend'[z])
  BY <1>2, <1>c
<1>16. r \in Spots /\ cur' = cur /\ UNCHANGED <<runs, accepted, emptied>>
  BY <1>1
<1>17. "deque" \in {"queue", "deque"} /\ y \in StreamTasks
  BY <1>3
<1>18. Handing(z, y, "deque", r)
  BY <1>4, <1>7, <1>8, <1>9, <1>10, <1>11, <1>12, <1>13, <1>14, <1>15, <1>16 DEF Handing
<1> QED BY <1>16, <1>17, <1>18, HandOn

LEMMA FinishStep ==
  ASSUME SchedTypes, HandInv, WorkInv, HostInv, NEW r \in Runners, Finish(r)
  PROVE  WorkInv'
<1>1. pc[r] = "finish"
  BY DEF Finish
<1>2. PICK z \in Streams : z = StreamOf[cur[r].task]
  BY <1>1, RunnerServes
<1> DEFINE rest == Tail(pend[z])
<1>3. /\ pend' = [pend EXCEPT ![z] = rest] /\ busy' = [busy EXCEPT ![z] = rest # <<>>]
      /\ UNCHANGED <<queue, numaQ, ring, cur, runs, accepted, emptied, todo>>
  BY <1>2 DEF Finish, numaVars, ghosts
<1>4. CASE rest = <<>> /\ Goto(r, "account") /\ UNCHANGED deque
  <2>1. /\ pend' = [pend EXCEPT ![z] = <<>>] /\ busy' = [busy EXCEPT ![z] = FALSE]
        /\ pc' = [pc EXCEPT ![r] = "account"] /\ UNCHANGED containers
    BY <1>3, <1>4 DEF Goto, containers
  <2> QED BY <1>1, <1>2, <1>3, <1>4, <2>1, FinishLast
<1>5. CASE /\ rest # <<>> /\ r \in Workers
           /\ deque' = [deque EXCEPT ![r] = Append(@, Item("stream", Head(rest)))]
           /\ Goto(r, "account")
  <2>1. busy' = [busy EXCEPT ![z] = TRUE] /\ pc' = [pc EXCEPT ![r] = "account"]
    BY <1>3, <1>5 DEF Goto
  <2> QED BY <1>1, <1>2, <1>3, <1>5, <2>1, FinishToDeque
<1>6. CASE rest # <<>> /\ Goto(r, "spill") /\ UNCHANGED deque
  <2>1. /\ busy' = [busy EXCEPT ![z] = TRUE] /\ pc' = [pc EXCEPT ![r] = "spill"]
        /\ UNCHANGED containers
    BY <1>3, <1>6 DEF Goto, containers
  <2> QED BY <1>1, <1>2, <1>3, <1>6, <2>1, FinishToSpill
<1> QED BY <1>2, <1>4, <1>5, <1>6 DEF Finish

-----------------------------------------------------------------------------
(* The whole invariant, action by action *)

LEMMA Parts ==
  /\ SchedInv <=> SchedTypes /\ HandInv /\ HostInv /\ WorkInv /\ DtorInv
  /\ SchedInv' <=> SchedTypes' /\ HandInv' /\ HostInv' /\ WorkInv' /\ DtorInv'
BY DEF SchedInv, WorkInv

-----------------------------------------------------------------------------
(* The tasks not yet accounted for *)

\* Task x has an item somewhere, or waits in its stream's queue.
Owing(x) ==
  Held(x) \/ Full(x) \/ (x \in StreamTasks /\ In(pend[StreamOf[x]], x))

OwingStays   == \A x \in Tasks : Owing(x)' <=> Owing(x)
OwingAdds(y) == \A x \in Tasks : Owing(x)' <=> Owing(x) \/ x = y

LEMMA HeldSame ==
  ASSUME Same
  PROVE  \A x : Held(x)' <=> Held(x)
BY DEF Same, Held

LEMMA HeldAdded ==
  ASSUME NEW e \in Items, NEW l \in Kinds, NEW m \in Spots, Added(e, l, m)
  PROVE  \A x : Held(x)' <=> Held(x) \/ x = e.task
BY DEF Added, Held

LEMMA HeldMoved ==
  ASSUME NEW e \in Items, NEW l \in Kinds, NEW m \in Spots, NEW r \in Runners, Holds(l, m, e),
         Moved(e, r)
  PROVE  \A x : Held(x)' <=> Held(x)
<1>1. "hand" \in Kinds /\ r \in Spots
  BY SpotFacts DEF Kinds
<1>2. Held(e.task) /\ Held(e.task)'
  BY <1>1 DEF Moved, Held
<1>3. ASSUME NEW x, x # e.task PROVE Held(x)' <=> Held(x)
  BY <1>3 DEF Moved, Held
<1> QED BY <1>2, <1>3

LEMMA OwingSame ==
  ASSUME \A x : Held(x)' <=> Held(x), HostsStay, pend' = pend
  PROVE  OwingStays
BY HostsStayFacts DEF OwingStays, Owing

LEMMA OwingAdded ==
  ASSUME NEW y, \A x : Held(x)' <=> Held(x) \/ x = y, HostsStay, pend' = pend
  PROVE  OwingAdds(y)
BY HostsStayFacts DEF OwingAdds, Owing

LEMMA AddsItem ==
  ASSUME NEW e \in Items, NEW y, e.task = y, NEW l \in Kinds, NEW m \in Spots, Added(e, l, m),
         HostsStay, pend' = pend
  PROVE  OwingAdds(y)
<1>1. \A x : Held(x)' <=> Held(x) \/ x = y
  BY HeldAdded
<1> QED BY <1>1, OwingAdded

LEMMA QuietHands ==
  ASSUME HandInv, PhasesStay
  PROVE  HandInv'
BY DEF HandInv, PhasesStay, Running

\* While a host is in a call the destructor has not begun.
LEMMA HostAlive ==
  ASSUME SchedTypes, DtorInv, NEW h \in Hosts, pc[h] # "idle" \/ pc[Dtor] = "alive"
  PROVE  pc[Dtor] = "alive" /\ stage = 0
BY DEF DtorInv

LEMMA DtorAlive ==
  ASSUME pc[Dtor]' = "alive", stage' = 0
  PROVE  DtorInv'
<1>1. \A w \in Workers : ~(stage' > 2 * w) /\ ~(stage' > 2 * w + 1)
  BY DEF Workers
<1> QED BY <1>1 DEF DtorInv

\* Host h goes to p with t in todo.
HostMoves(h, p, t) ==
  /\ DOMAIN pc' = Runners \cup Hosts /\ DOMAIN todo' = Hosts
  /\ \A n \in Runners \cup Hosts : pc'[n] = IF n = h THEN p ELSE pc[n]
  /\ \A g \in Hosts : todo'[g] = IF g = h THEN t ELSE todo[g]

LEMMA HostMove ==
  ASSUME SchedTypes, NEW h \in Hosts, NEW p, NEW t,
         pc' = [pc EXCEPT ![h] = p], todo' = [todo EXCEPT ![h] = t] \/ (todo' = todo /\ t = todo[h])
  PROVE  HostMoves(h, p, t)
BY DEF SchedTypes, HostMoves

LEMMA HostPhases ==
  ASSUME SchedTypes, NEW h \in Hosts, NEW p \in HostPoints, NEW t, HostMoves(h, p, t), cur' = cur
  PROVE  /\ PhasesStay /\ pc'[Dtor] = pc[Dtor]
         /\ \A r \in Runners : pc'[r] = pc[r]
         /\ \A w \in Workers : pc'[w] \in WorkerPoints
         /\ pc'[Dtor] \in DtorPoints
         /\ \A g \in Hosts : pc'[g] \in HostPoints
<1>1. \A r \in Runners : pc'[r] = pc[r]
  BY SpotFacts DEF HostMoves
<1>2. Dtor \in Runners /\ Workers \subseteq Runners
  BY SpotFacts
<1> QED BY <1>1, <1>2 DEF HostMoves, PhasesStay, SchedTypes

\* What HostInv says of a host at p with t in todo, after the step.
HostGood(h, p, t) ==
  /\ p \in Submitting => t \in Tasks /\ HostOf[t] = h
  /\ p = "streamPush" => t \in StreamTasks \ accepted'
  /\ p = "streamEnqueue" => t \in StreamTasks \cap accepted'
  /\ p \in {"count", "ringFull", "countOne"} => t \in accepted'
  /\ p = "ringFull" => t \in RingTasks
  /\ p \in {"waitStream", "notProcessing"} => t \in Streams

LEMMA HostPart ==
  ASSUME HostInv, NEW h \in Hosts, NEW p, NEW t, HostMoves(h, p, t), HostGood(h, p, t),
         accepted' = accepted \/ \E x : HostOf[x] = h /\ accepted' = accepted \cup {x}
  PROVE  HostInv'
<1> SUFFICES ASSUME NEW g \in Hosts PROVE HostGood(g, pc'[g], todo'[g])
  BY DEF HostInv, HostGood
<1>1. CASE g = h
  BY <1>1 DEF HostMoves
<1>2. CASE g # h
  <2>1. pc'[g] = pc[g] /\ todo'[g] = todo[g]
    BY <1>2 DEF HostMoves
  <2>2. pc[g] = "streamPush" => todo[g] \in StreamTasks \ accepted'
    <3>1. pc[g] = "streamPush" => todo[g] \in StreamTasks \ accepted /\ HostOf[todo[g]] = g
      BY DEF HostInv, Submitting
    <3> QED BY <1>2, <3>1
  <2>3. accepted \subseteq accepted'
    OBVIOUS
  <2> QED BY <2>1, <2>2, <2>3 DEF HostInv, HostGood
<1> QED BY <1>1, <1>2

\* A step of a host that touches no work.
LEMMA HostQuiet ==
  ASSUME SchedInv, NEW h \in Hosts, NEW p \in HostPoints, NEW t, HostMoves(h, p, t),
         HostGood(h, p, t), pc[h] # "idle" \/ pc[Dtor] = "alive",
         pc[h] \notin {"streamEnqueue", "ringFull"}, p \notin {"streamEnqueue", "ringFull"},
         owed' \in [Hosts -> SUBSET Tasks],
         UNCHANGED <<containers, workVars, nodeOf, myNode, left, stage, log>>
  PROVE  SchedInv' /\ OwingStays
<1> USE Parts
<1>1. cur' = cur
  BY DEF containers
<1>2. /\ PhasesStay /\ pc'[Dtor] = pc[Dtor]
      /\ \A r \in Runners : pc'[r] = pc[r]
      /\ \A w \in Workers : pc'[w] \in WorkerPoints
      /\ pc'[Dtor] \in DtorPoints
      /\ \A g \in Hosts : pc'[g] \in HostPoints
  BY <1>1, HostPhases
<1>3. HostsStay
  BY DEF HostMoves, HostsStay
<1>4. Same /\ NoRepeats'
  BY NothingMoves DEF WorkInv, UniqueInv, NoRepeats
<1>5. WorkInv'
  BY <1>2, <1>3, <1>4, QuietStep
<1>6. HandInv'
  BY <1>2, QuietHands
<1>7. HostInv'
  BY HostPart DEF workVars
<1>8. DtorInv'
  BY <1>2, HostAlive, DtorAlive
<1>9. SchedTypes'
  BY <1>2 DEF SchedTypes, HostMoves, containers, workVars
<1>10. OwingStays
  BY <1>3, <1>4, HeldSame, OwingSame DEF workVars
<1> QED BY <1>10, <1>5, <1>6, <1>7, <1>8, <1>9

LEMMA TodoKept ==
  ASSUME SchedTypes, NEW h \in Hosts, NEW p, pc' = [pc EXCEPT ![h] = p], todo' = todo
  PROVE  HostMoves(h, p, todo[h])
BY HostMove

\* The host actions that touch no work.
LEMMA HostQuietSteps ==
  ASSUME SchedInv, NEW h \in Hosts,
         \/ \E x \in Tasks : SubmitStreamTask(h, x)
         \/ CountAndNotify(h) \/ CountAndNotifyOne(h)
         \/ WaitAll(h) \/ WaitAllDone(h) \/ WaitAllTick(h)
         \/ \E s \in Streams : WaitStream(h, s)
         \/ WaitStreamLook(h) \/ WaitStreamDone(h) \/ WaitTimeout(h) \/ WaitReturn(h)
  PROVE  SchedInv' /\ OwingStays
<1> USE Parts
<1> DEFINE Quiet == /\ owed' \in [Hosts -> SUBSET Tasks]
                    /\ UNCHANGED <<containers, workVars, nodeOf, myNode, left, stage, log>>
<1>0. /\ SchedTypes /\ HostInv /\ owed \in [Hosts -> SUBSET Tasks]
      /\ \A o \in SUBSET Tasks : [owed EXCEPT ![h] = o] \in [Hosts -> SUBSET Tasks]
  BY DEF SchedTypes
<1> HIDE Parts
<1>1. ASSUME NEW x \in Tasks, SubmitStreamTask(h, x) PROVE SchedInv' /\ OwingStays
  <2>1. HostMoves(h, "streamPush", x)
    BY <1>0, <1>1, HostMove DEF SubmitStreamTask, Goto
  <2>2. HostGood(h, "streamPush", x)
    BY <1>1 DEF SubmitStreamTask, CanSubmit, HostGood, ghosts
  <2>3. Quiet
    BY <1>0, <1>1 DEF SubmitStreamTask, containers, workVars, ghosts, numaVars, streamVars
  <2>4. "streamPush" \in HostPoints /\ pc[h] = "idle" /\ pc[Dtor] = "alive"
    BY <1>1 DEF HostPoints, Submitting, SubmitStreamTask, CanSubmit
  <2> QED BY <2>1, <2>2, <2>3, <2>4, HostQuiet
<1>2. CASE CountAndNotify(h) \/ CountAndNotifyOne(h)
  <2>1. HostMoves(h, "idle", Idle)
    BY <1>0, <1>2, HostMove DEF CountAndNotify, CountAndNotifyOne, Goto
  <2>2. HostGood(h, "idle", Idle)
    BY DEF HostGood, Submitting
  <2>3. Quiet
    BY <1>0, <1>2 DEF CountAndNotify, CountAndNotifyOne, containers, workVars, ghosts, numaVars,
                      streamVars
  <2>4. "idle" \in HostPoints /\ pc[h] \in {"count", "countOne"}
    BY <1>2 DEF HostPoints, CountAndNotify, CountAndNotifyOne
  <2> QED BY <2>1, <2>2, <2>3, <2>4, HostQuiet
<1>3. CASE WaitAll(h)
  <2>1. HostMoves(h, "waitAll", todo[h])
    BY <1>0, <1>3, TodoKept DEF WaitAll, Goto
  <2>2. HostGood(h, "waitAll", todo[h])
    BY DEF HostGood, Submitting
  <2>3. Quiet
    <3>1. Submitted \in SUBSET Tasks
      BY <1>0 DEF SchedTypes, Submitted
    <3> QED BY <1>0, <1>3, <3>1 DEF WaitAll, containers, workVars, numaVars, streamVars
  <2>4. "waitAll" \in HostPoints /\ pc[h] = "idle" /\ pc[Dtor] = "alive"
    BY <1>3 DEF HostPoints, WaitAll, BeginWait
  <2> QED BY <2>1, <2>2, <2>3, <2>4, HostQuiet
<1>4. CASE WaitAllDone(h)
  <2>1. HostMoves(h, "waited", todo[h])
    BY <1>0, <1>4, TodoKept DEF WaitAllDone, Goto
  <2>2. HostGood(h, "waited", todo[h])
    BY DEF HostGood, Submitting
  <2>3. Quiet
    BY <1>0, <1>4 DEF WaitAllDone, containers, workVars, ghosts, numaVars, streamVars
  <2>4. "waited" \in HostPoints /\ pc[h] = "waitAll"
    BY <1>4 DEF HostPoints, WaitAllDone
  <2> QED BY <2>1, <2>2, <2>3, <2>4, HostQuiet
<1>5. CASE WaitAllTick(h)
  <2>1. HostMoves(h, "waitAll", todo[h])
    BY <1>0, <1>5 DEF WaitAllTick, HostMoves, SchedTypes
  <2>2. HostGood(h, "waitAll", todo[h])
    BY DEF HostGood, Submitting
  <2>3. Quiet
    BY <1>0, <1>5 DEF WaitAllTick, containers, workVars, ghosts, numaVars, streamVars
  <2>4. "waitAll" \in HostPoints /\ pc[h] = "waitAll"
    BY <1>5 DEF HostPoints, WaitAllTick
  <2> QED BY <2>1, <2>2, <2>3, <2>4, HostQuiet
<1>6. ASSUME NEW s \in Streams, WaitStream(h, s) PROVE SchedInv' /\ OwingStays
  <2>1. HostMoves(h, "waitStream", s)
    BY <1>0, <1>6, HostMove DEF WaitStream, Goto
  <2>2. HostGood(h, "waitStream", s)
    BY DEF HostGood, Submitting
  <2>3. Quiet
    <3>1. {x \in Submitted \cap StreamTasks : StreamOf[x] = s} \in SUBSET Tasks
      BY DEF Tasks
    <3> QED BY <1>0, <1>6, <3>1 DEF WaitStream, containers, workVars, numaVars, streamVars
  <2>4. "waitStream" \in HostPoints /\ pc[h] = "idle" /\ pc[Dtor] = "alive"
    BY <1>6 DEF HostPoints, WaitStream, BeginWait
  <2> QED BY <2>1, <2>2, <2>3, <2>4, HostQuiet
<1>7. CASE WaitStreamLook(h)
  <2>1. HostMoves(h, "notProcessing", todo[h])
    BY <1>0, <1>7, TodoKept DEF WaitStreamLook, Goto
  <2>2. HostGood(h, "notProcessing", todo[h])
    BY <1>0, <1>7 DEF HostGood, Submitting, HostInv, WaitStreamLook
  <2>3. Quiet
    BY <1>0, <1>7 DEF WaitStreamLook, containers, workVars, ghosts, numaVars, streamVars
  <2>4. "notProcessing" \in HostPoints /\ pc[h] = "waitStream"
    BY <1>7 DEF HostPoints, WaitStreamLook
  <2> QED BY <2>1, <2>2, <2>3, <2>4, HostQuiet
<1>8. CASE WaitStreamDone(h)
  <2>1. PICK p \in {"waited", "waitStream"} : HostMoves(h, p, todo[h])
    BY <1>0, <1>8, TodoKept DEF WaitStreamDone, Goto
  <2>2. HostGood(h, p, todo[h])
    BY <1>0, <1>8 DEF HostGood, Submitting, HostInv, WaitStreamDone
  <2>3. Quiet
    BY <1>0, <1>8 DEF WaitStreamDone, containers, workVars, ghosts, numaVars, streamVars
  <2>4. p \in HostPoints /\ pc[h] = "notProcessing"
    BY <1>8 DEF HostPoints, WaitStreamDone
  <2> QED BY <2>1, <2>2, <2>3, <2>4, HostQuiet
<1>9. CASE WaitTimeout(h)
  <2>1. HostMoves(h, "waited", todo[h])
    BY <1>0, <1>9, TodoKept DEF WaitTimeout, Goto
  <2>2. HostGood(h, "waited", todo[h])
    BY DEF HostGood, Submitting
  <2>3. Quiet
    BY <1>0, <1>9 DEF WaitTimeout, containers, workVars, numaVars, streamVars
  <2>4. "waited" \in HostPoints /\ pc[h] \in {"waitAll", "waitStream"}
    BY <1>9 DEF HostPoints, WaitTimeout
  <2> QED BY <2>1, <2>2, <2>3, <2>4, HostQuiet
<1>10. CASE WaitReturn(h)
  <2>1. HostMoves(h, "idle", Idle)
    BY <1>0, <1>10, HostMove DEF WaitReturn, Goto
  <2>2. HostGood(h, "idle", Idle)
    BY DEF HostGood, Submitting
  <2>3. Quiet
    BY <1>0, <1>10 DEF WaitReturn, containers, workVars, numaVars, streamVars
  <2>4. "idle" \in HostPoints /\ pc[h] = "waited"
    BY <1>10 DEF HostPoints, WaitReturn
  <2> QED BY <2>1, <2>2, <2>3, <2>4, HostQuiet
<1> QED BY <1>1, <1>2, <1>3, <1>4, <1>5, <1>6, <1>7, <1>8, <1>9, <1>10

\* A step of a host that adds work.
LEMMA HostWork ==
  ASSUME SchedInv, NEW h \in Hosts, NEW p \in HostPoints, NEW t, HostMoves(h, p, t),
         HostGood(h, p, t), pc[h] # "idle" \/ pc[Dtor] = "alive",
         accepted' = accepted \/ \E x \in Tasks : HostOf[x] = h /\ accepted' = accepted \cup {x},
         pend' \in [Streams -> Seq(StreamTasks)], busy' \in [Streams -> BOOLEAN],
         queue' \subseteq Items, numaQ' \in [Nodes -> SUBSET Items],
         deque' \in [Workers -> Seq(Items)], ring' \in [Workers -> Seq(Items)],
         emptied' \subseteq RingTasks \cap accepted', WorkInv',
         UNCHANGED <<cur, nodeOf, myNode, left, stage, log, owed, runs>>
  PROVE  SchedInv'
<1> USE Parts
<1>2. /\ PhasesStay /\ pc'[Dtor] = pc[Dtor]
      /\ \A r \in Runners : pc'[r] = pc[r]
      /\ \A w \in Workers : pc'[w] \in WorkerPoints
      /\ pc'[Dtor] \in DtorPoints
      /\ \A g \in Hosts : pc'[g] \in HostPoints
  BY HostPhases
<1>6. HandInv'
  BY <1>2, QuietHands
<1>7. HostInv'
  BY HostPart
<1>8. DtorInv'
  BY <1>2, HostAlive, DtorAlive
<1>9. SchedTypes'
  <2>1. accepted' \subseteq Tasks
    BY DEF SchedTypes
  <2> QED BY <1>2, <2>1 DEF SchedTypes, HostMoves
<1> QED BY <1>6, <1>7, <1>8, <1>9

LEMMA ItemTypes ==
  /\ \A x \in Tasks : /\ Item("stream", x) \in Items /\ Item("solo", x) \in Items
                      /\ Item("empty", x) \in Items
  /\ \A k, x : Item(k, x).kind = k /\ Item(k, x).task = x
BY DEF Item, Items

LEMMA StreamPushStep ==
  ASSUME SchedInv, NEW h \in Hosts, StreamPush(h)
  PROVE  SchedInv'
<1>0. SchedTypes /\ HandInv /\ HostInv /\ WorkInv
  BY Parts
<1>1. PICK x \in StreamTasks : x = todo[h] /\ HostOf[x] = h /\ x \in Tasks
  BY <1>0 DEF StreamPush, HostInv, Submitting, Tasks
<1>2. PICK z \in Streams : z = StreamOf[x]
  BY DEF Streams
<1>3. PICK p \in {"idle", "streamEnqueue"}, t \in {x, Idle} :
        /\ HostMoves(h, p, t) /\ (p = "streamEnqueue" => t = x)
  <2>1. CASE busy[z]
    <3>1. HostMoves(h, "idle", Idle)
      BY <1>0, <1>1, <1>2, <2>1, HostMove DEF StreamPush, Goto
    <3> QED BY <3>1
  <2>2. CASE ~busy[z]
    <3>1. HostMoves(h, "streamEnqueue", x)
      BY <1>0, <1>1, <1>2, <2>2, TodoKept DEF StreamPush, Goto
    <3> QED BY <3>1
  <2> QED BY <2>1, <2>2
<1>4. p \in HostPoints /\ pc[h] = "streamPush"
  BY DEF HostPoints, Submitting, StreamPush
<1>5. accepted' = accepted \cup {x}
  BY <1>1 DEF StreamPush
<1>6. HostGood(h, p, t)
  BY <1>1, <1>3, <1>5 DEF HostGood, Submitting
<1>7. UNCHANGED <<cur, queue, numaQ, deque, ring, nodeOf, myNode, left, stage, log, owed, runs,
                  emptied>>
  BY DEF StreamPush, numaVars
<1>8. PhasesStay
  BY <1>0, <1>3, <1>4, <1>7, HostPhases
<1>9. WorkInv'
  BY <1>0, <1>8, PushStep
<1>10. pend' \in [Streams -> Seq(StreamTasks)] /\ busy' \in [Streams -> BOOLEAN]
  <2>1. pend[z] \in Seq(StreamTasks)
    BY <1>0 DEF SchedTypes
  <2>2. Append(pend[z], x) \in Seq(StreamTasks)
    BY <2>1, InAppend
  <2>3. pend' = [pend EXCEPT ![z] = Append(pend[z], x)]
    BY <1>1, <1>2 DEF StreamPush
  <2>4. busy' = busy \/ busy' = [busy EXCEPT ![z] = TRUE]
    BY <1>1, <1>2 DEF StreamPush
  <2> QED BY <1>0, <2>2, <2>3, <2>4 DEF SchedTypes
<1>11. /\ queue' \subseteq Items /\ numaQ' \in [Nodes -> SUBSET Items]
       /\ deque' \in [Workers -> Seq(Items)] /\ ring' \in [Workers -> Seq(Items)]
       /\ emptied' \subseteq RingTasks \cap accepted'
  BY <1>0, <1>5, <1>7 DEF SchedTypes
<1> QED BY <1>1, <1>3, <1>4, <1>5, <1>6, <1>7, <1>9, <1>10, <1>11, HostWork

LEMMA StreamEnqueueStep ==
  ASSUME SchedInv, NEW h \in Hosts, StreamEnqueue(h)
  PROVE  SchedInv'
<1>0. SchedTypes /\ HandInv /\ HostInv /\ WorkInv
  BY Parts
<1>1. HostMoves(h, "idle", Idle)
  BY <1>0, HostMove DEF StreamEnqueue, Goto
<1>2. HostGood(h, "idle", Idle) /\ "idle" \in HostPoints /\ pc[h] = "streamEnqueue"
  BY DEF HostGood, HostPoints, Submitting, StreamEnqueue
<1>3. UNCHANGED <<pend, busy, cur, numaQ, deque, ring, nodeOf, myNode, left, stage, log, owed,
                  runs, accepted, emptied>>
  BY DEF StreamEnqueue, numaVars, ghosts
<1>4. WorkInv'
  BY <1>0, EnqueueStep
<1>5. queue' \subseteq Items
  <2>1. PICK x \in StreamTasks : x = todo[h]
    BY <1>0 DEF StreamEnqueue, HostInv
  <2>2. PICK z \in Streams : z = StreamOf[x]
    BY DEF Streams
  <2>3. Starts(h, z)
    BY <2>1, <2>2 DEF StreamEnqueue, Starts
  <2>4. pend[z] # <<>>
    BY <1>0, <2>3 DEF WorkInv, StreamInv
  <2>5. Head(pend[z]) \in Tasks
    BY <1>0, <2>4, FirstPending DEF Tasks
  <2>6. FrontItem(z) \in Items
    BY <2>5, ItemTypes DEF FrontItem
  <2> QED BY <1>0, <2>1, <2>2, <2>6 DEF StreamEnqueue, SchedTypes
<1>6. /\ numaQ' \in [Nodes -> SUBSET Items] /\ pend' \in [Streams -> Seq(StreamTasks)]
      /\ deque' \in [Workers -> Seq(Items)] /\ ring' \in [Workers -> Seq(Items)]
      /\ emptied' \subseteq RingTasks \cap accepted' /\ busy' \in [Streams -> BOOLEAN]
  BY <1>0, <1>3 DEF SchedTypes
<1> QED BY <1>1, <1>2, <1>3, <1>4, <1>5, <1>6, HostWork

\* A call that puts the item of a new task x in a container, or keeps it because the
\* ring is full.
LEMMA AcceptWork ==
  ASSUME SchedInv, NEW h \in Hosts, NEW x \in Tasks \ StreamTasks, CanSubmit(h, x),
         NEW p \in {"count", "ringFull"}, HostMoves(h, p, x), p = "ringFull" => x \in RingTasks,
         accepted' = accepted \cup {x},
         queue' \subseteq Items, numaQ' \in [Nodes -> SUBSET Items],
         ring' \in [Workers -> Seq(Items)], WorkInv',
         UNCHANGED <<pend, busy, deque, emptied, cur, nodeOf, myNode, left, stage, log, owed, runs>>
  PROVE  SchedInv'
<1>0. SchedTypes /\ HandInv /\ HostInv /\ WorkInv
  BY Parts
<1>1. HostGood(h, p, x) /\ p \in HostPoints
  BY DEF HostGood, HostPoints, Submitting, CanSubmit
<1>2. HostOf[x] = h /\ pc[Dtor] = "alive"
  BY DEF CanSubmit
<1>3. /\ deque' \in [Workers -> Seq(Items)] /\ pend' \in [Streams -> Seq(StreamTasks)]
      /\ emptied' \subseteq RingTasks \cap accepted' /\ busy' \in [Streams -> BOOLEAN]
  BY <1>0 DEF SchedTypes
<1> QED BY <1>1, <1>2, <1>3, HostWork

LEMMA SubmitFacts ==
  ASSUME SchedInv, NEW h \in Hosts, NEW x, CanSubmit(h, x), HostMoves(h, "count", x),
         cur' = cur
  PROVE  /\ PhasesStay /\ HostsStay /\ x \notin accepted /\ NoRepeats
         /\ \A k \in Kinds, n \in Spots, it \in Items : Holds(k, n, it) => it.task # x
<1>0. SchedTypes /\ WorkInv
  BY Parts
<1>1. PhasesStay
  BY <1>0, HostPhases DEF HostPoints, Submitting
<1>2. HostsStay
  BY DEF HostMoves, HostsStay, CanSubmit
<1> QED BY <1>0, <1>1, <1>2 DEF CanSubmit, WorkInv, UniqueInv, NoRepeats, KindInv

LEMMA SubmitConcurrentStep ==
  ASSUME SchedInv, NEW h \in Hosts, NEW x \in Tasks, SubmitConcurrentTask(h, x)
  PROVE  SchedInv' /\ OwingAdds(x)
<1>0. SchedTypes /\ HandInv /\ HostInv /\ WorkInv
  BY Parts
<1>1. /\ CanSubmit(h, x) /\ x \in Tasks \ StreamTasks /\ accepted' = accepted \cup {x}
      /\ queue' = queue \cup {Item("solo", x)}
      /\ UNCHANGED <<pend, busy, deque, emptied, cur, nodeOf, myNode, left, stage, log, owed, runs,
                     numaQ, ring>>
  BY SchedulerAssumption DEF SubmitConcurrentTask, numaVars, streamVars
<1>2. HostMoves(h, "count", x)
  BY <1>0, HostMove DEF SubmitConcurrentTask, Goto
<1>3. /\ PhasesStay /\ HostsStay /\ x \notin accepted /\ NoRepeats
  BY <1>1, <1>2, SubmitFacts
<1>4. Added(Item("solo", x), "queue", 0) /\ NoRepeats'
  BY <1>1, <1>3, QueueGets, ItemTypes
<1>5. "queue" \in Kinds \ {"hand"} /\ 0 \in Spots
  BY SpotFacts DEF Kinds
<1>6. WorkInv'
  BY <1>0, <1>1, <1>3, <1>4, <1>5, AcceptStep
<1>7. /\ queue' \subseteq Items /\ numaQ' \in [Nodes -> SUBSET Items]
      /\ ring' \in [Workers -> Seq(Items)]
  BY <1>0, <1>1, ItemTypes DEF SchedTypes
<1>8. OwingAdds(x)
  BY <1>1, <1>3, <1>4, <1>5, ItemTypes, AddsItem
<1> QED BY <1>8, <1>1, <1>2, <1>6, <1>7, AcceptWork

LEMMA SubmitNumaStep ==
  ASSUME SchedInv, NEW h \in Hosts, NEW x \in Tasks, SubmitNumaTask(h, x)
  PROVE  SchedInv' /\ OwingAdds(x)
<1>0. SchedTypes /\ HandInv /\ HostInv /\ WorkInv
  BY Parts
<1>1. /\ CanSubmit(h, x) /\ x \in Tasks \ StreamTasks /\ accepted' = accepted \cup {x}
      /\ x \in NumaTasks
      /\ UNCHANGED <<pend, busy, deque, emptied, cur, nodeOf, myNode, left, stage, log, owed, runs,
                     ring>>
  BY SchedulerAssumption DEF SubmitNumaTask, streamVars
<1>2. HostMoves(h, "count", x)
  BY <1>0, HostMove DEF SubmitNumaTask, Goto
<1>3. /\ PhasesStay /\ HostsStay /\ x \notin accepted /\ NoRepeats
  BY <1>1, <1>2, SubmitFacts
<1>4. CASE HasNumaNode(NodeWanted[x])
  <2>1. PICK n \in Nodes : n = NodeWanted[x]
    <3>1. PICK w \in Workers : NodeWanted[x] >= 0 /\ nodeOf[w] = NodeWanted[x]
      BY <1>4 DEF HasNumaNode
    <3>2. nodeOf[w] \in Nodes \cup {NoNode}
      BY <1>0 DEF SchedTypes
    <3>3. nodeOf[w] # NoNode
      BY <3>1 DEF NoNode
    <3> QED BY <3>1, <3>2, <3>3
  <2>2. numaQ' = [numaQ EXCEPT ![n] = @ \cup {Item("solo", x)}] /\ UNCHANGED queue
    BY <1>4, <2>1 DEF SubmitNumaTask
  <2>3. Added(Item("solo", x), "node", n) /\ NoRepeats'
    BY <1>0, <1>1, <1>3, <2>2, NodeGets, ItemTypes
  <2>4. "node" \in Kinds \ {"hand"} /\ n \in Spots
    BY SpotFacts DEF Kinds
  <2>5. WorkInv'
    BY <1>0, <1>1, <1>3, <2>3, <2>4, AcceptStep
  <2>6. /\ queue' \subseteq Items /\ numaQ' \in [Nodes -> SUBSET Items]
        /\ ring' \in [Workers -> Seq(Items)]
    BY <1>0, <1>1, <2>2, ItemTypes DEF SchedTypes
  <2>7. OwingAdds(x)
    BY <1>1, <1>3, <2>3, <2>4, ItemTypes, AddsItem
  <2> QED BY <2>7, <1>1, <1>2, <2>5, <2>6, AcceptWork
<1>5. CASE ~HasNumaNode(NodeWanted[x])
  <2>2. queue' = queue \cup {Item("solo", x)} /\ UNCHANGED numaQ
    BY <1>5 DEF SubmitNumaTask
  <2>3. Added(Item("solo", x), "queue", 0) /\ NoRepeats'
    BY <1>1, <1>3, <2>2, QueueGets, ItemTypes
  <2>4. "queue" \in Kinds \ {"hand"} /\ 0 \in Spots
    BY SpotFacts DEF Kinds
  <2>5. WorkInv'
    BY <1>0, <1>1, <1>3, <2>3, <2>4, AcceptStep
  <2>6. /\ queue' \subseteq Items /\ numaQ' \in [Nodes -> SUBSET Items]
        /\ ring' \in [Workers -> Seq(Items)]
    BY <1>0, <1>1, <2>2, ItemTypes DEF SchedTypes
  <2>7. OwingAdds(x)
    BY <1>1, <1>3, <2>3, <2>4, ItemTypes, AddsItem
  <2> QED BY <2>7, <1>1, <1>2, <2>5, <2>6, AcceptWork
<1> QED BY <1>4, <1>5

LEMMA TargetType ==
  ASSUME NEW x \in Tasks
  PROVE  Target(x) \in Workers
<1>1. StreamOf[x] \in Nat /\ NumThreads \in Nat \ {0}
  BY SchedulerAssumption
<1> QED BY <1>1 DEF Target, Workers

LEMMA EnqueueToStreamStep ==
  ASSUME SchedInv, NEW h \in Hosts, NEW x \in Tasks, EnqueueToStream(h, x)
  PROVE  SchedInv' /\ OwingAdds(x)
<1>0. SchedTypes /\ HandInv /\ HostInv /\ WorkInv
  BY Parts
<1>1. /\ CanSubmit(h, x) /\ x \in Tasks \ StreamTasks /\ accepted' = accepted \cup {x}
      /\ x \in RingTasks
      /\ UNCHANGED <<pend, busy, deque, emptied, cur, nodeOf, myNode, left, stage, log, owed, runs,
                     queue, numaQ>>
  BY SchedulerAssumption DEF EnqueueToStream, numaVars, streamVars
<1>2. PICK w \in Workers : w = Target(x)
  BY TargetType
<1>3. CASE Len(ring[w]) < RingCap
  <2>1. HostMoves(h, "count", x)
    BY <1>0, <1>2, <1>3, HostMove DEF EnqueueToStream, Goto
  <2>2. /\ PhasesStay /\ HostsStay /\ x \notin accepted /\ NoRepeats
        /\ \A k \in Kinds, n \in Spots, it \in Items : Holds(k, n, it) => it.task # x
    BY <1>1, <2>1, SubmitFacts
  <2>3. ring' = [ring EXCEPT ![w] = Append(@, Item("solo", x))]
    BY <1>2, <1>3 DEF EnqueueToStream
  <2>4. "ring" \in Kinds \ {"hand"} /\ w \in Spots
    BY SpotFacts DEF Kinds
  <2>5. ~Holds("ring", w, Item("solo", x))
    BY <2>2, <2>4, ItemTypes
  <2>6. Added(Item("solo", x), "ring", w) /\ NoRepeats'
    BY <1>0, <1>1, <2>2, <2>3, <2>5, RingGets, ItemTypes
  <2>7. WorkInv'
    BY <1>0, <1>1, <2>2, <2>4, <2>6, AcceptStep
  <2>8. ring' \in [Workers -> Seq(Items)]
    <3>1. ring[w] \in Seq(Items)
      BY <1>0 DEF SchedTypes
    <3>2. Append(ring[w], Item("solo", x)) \in Seq(Items)
      BY <3>1, InAppend, ItemTypes
    <3> QED BY <1>0, <2>3, <3>2 DEF SchedTypes
  <2>9. queue' \subseteq Items /\ numaQ' \in [Nodes -> SUBSET Items]
    BY <1>0, <1>1 DEF SchedTypes
  <2>10. OwingAdds(x)
    BY <1>1, <2>2, <2>4, <2>6, ItemTypes, AddsItem
  <2> QED BY <2>10, <1>1, <2>1, <2>7, <2>8, <2>9, AcceptWork
<1>4. CASE ~(Len(ring[w]) < RingCap)
  <2>1. /\ pc' = [pc EXCEPT ![h] = "ringFull"] /\ todo' = [todo EXCEPT ![h] = x]
        /\ UNCHANGED ring
    BY <1>2, <1>4 DEF EnqueueToStream, Goto
  <2>2. HostMoves(h, "ringFull", x)
    BY <1>0, <2>1, HostMove
  <2>3. PhasesStay
    BY <1>0, <1>1, <2>2, HostPhases DEF HostPoints, Submitting
  <2>4. WorkInv'
    BY <1>0, <1>1, <2>1, <2>3, FullStep DEF CanSubmit, containers
  <2>5. /\ queue' \subseteq Items /\ numaQ' \in [Nodes -> SUBSET Items]
        /\ ring' \in [Workers -> Seq(Items)]
    BY <1>0, <1>1, <2>1 DEF SchedTypes
  <2>6. UNCHANGED containers
    BY <1>1, <2>1 DEF containers
  <2>7. \A y : Held(y)' <=> Held(y)
    BY <1>0, <2>6, NothingMoves, HeldSame DEF WorkInv, UniqueInv, NoRepeats
  <2>8. \A y : Full(y)' <=> Full(y) \/ y = x
    <3>1. \A g \in Hosts : /\ pc'[g] = IF g = h THEN "ringFull" ELSE pc[g]
                           /\ todo'[g] = IF g = h THEN x ELSE todo[g]
      BY <2>2 DEF HostMoves
    <3>2. pc[h] = "idle"
      BY <1>1 DEF CanSubmit
    <3> QED BY <3>1, <3>2 DEF Full
  <2>9. OwingAdds(x)
    BY <1>1, <2>7, <2>8 DEF OwingAdds, Owing
  <2> QED BY <2>9, <1>1, <2>2, <2>4, <2>5, AcceptWork
<1> QED BY <1>3, <1>4

LEMMA RingFullStep ==
  ASSUME SchedInv, NEW h \in Hosts, RingFull(h)
  PROVE  SchedInv'
<1>0. SchedTypes /\ HandInv /\ HostInv /\ WorkInv
  BY Parts
<1>1. PICK x \in RingTasks : x = todo[h] /\ HostOf[x] = h /\ x \in Tasks /\ x \in accepted
  BY <1>0 DEF RingFull, HostInv, Submitting
<1>2. PICK w \in Workers : w = Target(x)
  BY <1>1, TargetType
<1>3. /\ pc[h] = "ringFull" /\ pc' = [pc EXCEPT ![h] = "countOne"]
      /\ emptied' = emptied \cup {x}
      /\ UNCHANGED <<pend, busy, cur, numaQ, ring, nodeOf, myNode, left, stage, log, owed, runs,
                     accepted, todo>>
  BY <1>1 DEF RingFull, Goto, numaVars, streamVars
<1>4. HostMoves(h, "countOne", x)
  BY <1>0, <1>1, <1>3, TodoKept
<1>5. HostGood(h, "countOne", x) /\ "countOne" \in HostPoints
  BY <1>1, <1>3 DEF HostGood, Submitting, HostPoints
<1>6. PhasesStay
  BY <1>0, <1>3, <1>4, <1>5, HostPhases
<1>7. ~Held(x)
  <2>1. Full(x)
    BY <1>1, <1>3 DEF Full
  <2> QED BY <1>0, <1>1, <2>1 DEF WorkInv, RunInv
<1>8. Item("empty", x) \in Items /\ Item("empty", x).task = x
  BY <1>1, ItemTypes
<1>9. NoRepeats
  BY <1>0 DEF WorkInv, UniqueInv, NoRepeats
<1>10. WorkInv' /\ deque' \in [Workers -> Seq(Items)] /\ queue' \subseteq Items
  <2>1. CASE Len(deque[w]) < DequeCap
    <3>1. deque' = [deque EXCEPT ![w] = Append(@, Item("empty", x))] /\ UNCHANGED queue
      BY <1>1, <1>2, <2>1 DEF RingFull
    <3>2. "deque" \in Kinds \ {"hand", "node"} /\ w \in Spots
      BY SpotFacts DEF Kinds
    <3>3. ~Holds("deque", w, Item("empty", x))
      BY <1>7, <1>8, <3>2 DEF Held
    <3>4. Added(Item("empty", x), "deque", w) /\ NoRepeats'
      BY <1>0, <1>3, <1>8, <1>9, <3>1, <3>3, DequeGets
    <3>5. WorkInv'
      BY <1>0, <1>1, <1>3, <1>6, <3>2, <3>4, EmptyStep
    <3>6. deque[w] \in Seq(Items) /\ Append(deque[w], Item("empty", x)) \in Seq(Items)
      BY <1>0, <1>8, InAppend DEF SchedTypes
    <3> QED BY <1>0, <3>1, <3>5, <3>6 DEF SchedTypes
  <2>2. CASE ~(Len(deque[w]) < DequeCap)
    <3>1. queue' = queue \cup {Item("empty", x)} /\ UNCHANGED deque
      BY <1>1, <1>2, <2>2 DEF RingFull
    <3>2. "queue" \in Kinds \ {"hand", "node"} /\ 0 \in Spots
      BY SpotFacts DEF Kinds
    <3>3. Added(Item("empty", x), "queue", 0) /\ NoRepeats'
      BY <1>3, <1>8, <1>9, <3>1, QueueGets
    <3>4. WorkInv'
      BY <1>0, <1>1, <1>3, <1>6, <3>2, <3>3, EmptyStep
    <3> QED BY <1>0, <1>8, <3>1, <3>4 DEF SchedTypes
  <2> QED BY <2>1, <2>2
<1>11. /\ numaQ' \in [Nodes -> SUBSET Items] /\ pend' \in [Streams -> Seq(StreamTasks)]
       /\ ring' \in [Workers -> Seq(Items)] /\ busy' \in [Streams -> BOOLEAN]
       /\ emptied' \subseteq RingTasks \cap accepted'
  BY <1>0, <1>1, <1>3 DEF SchedTypes
<1> QED BY <1>3, <1>4, <1>5, <1>10, <1>11, HostWork

\* Runner r goes to p with item c in hand.
RunnerMoves(r, p, c) ==
  /\ DOMAIN pc' = Runners \cup Hosts
  /\ \A n \in Runners \cup Hosts : pc'[n] = IF n = r THEN p ELSE pc[n]
  /\ \A n \in Runners : cur'[n] = IF n = r THEN c ELSE cur[n]
  /\ cur' \in [Runners -> Items \cup {NoItem}]
  /\ p \in IF r = Dtor THEN DtorPoints ELSE WorkerPoints
  /\ c # NoItem <=> p \in Running
  /\ p \in {"finish", "spill"} => c.kind = "stream"

LEMMA RunnerMove ==
  ASSUME SchedTypes, NEW r \in Runners, NEW c \in Items \cup {NoItem},
         NEW p, p \in IF r = Dtor THEN DtorPoints ELSE WorkerPoints,
         pc' = [pc EXCEPT ![r] = p], cur' = [cur EXCEPT ![r] = c] \/ (cur' = cur /\ c = cur[r]),
         c # NoItem <=> p \in Running, p \in {"finish", "spill"} => c.kind = "stream"
  PROVE  RunnerMoves(r, p, c)
<1>1. cur' \in [Runners -> Items \cup {NoItem}]
  BY DEF SchedTypes
<1>2. \A n \in Runners : cur'[n] = IF n = r THEN c ELSE cur[n]
  BY DEF SchedTypes
<1> QED BY <1>1, <1>2 DEF SchedTypes, RunnerMoves

\* A step of a runner: what it must show.
LEMMA RunnerStep ==
  ASSUME SchedInv, NEW r \in Runners, NEW p, NEW c, RunnerMoves(r, p, c),
         pend' \in [Streams -> Seq(StreamTasks)], busy' \in [Streams -> BOOLEAN],
         queue' \subseteq Items, numaQ' \in [Nodes -> SUBSET Items],
         deque' \in [Workers -> Seq(Items)], ring' \in [Workers -> Seq(Items)],
         myNode' \in [Workers -> Nodes \cup {NoNode}],
         left' \in [Workers -> SUBSET Workers], stage' \in 0..(2 * NumThreads),
         log' \in [Streams -> Seq(StreamTasks)], runs' \in [Tasks -> {0, 1}],
         UNCHANGED <<nodeOf, todo, accepted, owed, emptied>>, WorkInv', DtorInv'
  PROVE  SchedInv'
<1>0. SchedTypes /\ HandInv /\ HostInv /\ WorkInv
  BY Parts
<1>1. HandInv'
  BY <1>0, SpotFacts DEF RunnerMoves, HandInv, Running
<1>2. \A h \in Hosts : pc'[h] = pc[h]
  BY SpotFacts DEF RunnerMoves
<1>3. HostInv'
  BY <1>0, <1>2 DEF HostInv
<1>4. /\ \A w \in Workers : pc'[w] \in WorkerPoints
      /\ pc'[Dtor] \in DtorPoints
      /\ \A h \in Hosts : pc'[h] \in HostPoints
  BY <1>0, <1>2, SpotFacts DEF RunnerMoves, SchedTypes
<1>5. SchedTypes'
  BY <1>0, <1>4 DEF SchedTypes, RunnerMoves
<1> QED BY <1>1, <1>3, <1>5, Parts

\* What a worker may do under the destructor's eyes.
LEMMA WorkerDtor ==
  ASSUME SchedTypes, DtorInv, NEW w \in Workers, pc[w] # "exited", NEW p, NEW c,
         RunnerMoves(w, p, c), stage' = stage,
         \A v \in Workers : /\ deque'[v] # <<>> => deque[v] # <<>> \/ v = w
                            /\ ring[v] = <<>> => ring'[v] = <<>>,
         \/ p \in Running \cup {"seek"} \/ deque'[w] = <<>>
         \/ pc[w] \notin Running \cup {"seek"} /\ (deque'[w] # <<>> => deque[w] # <<>>),
         p = "exited" => queue' = {}
  PROVE  DtorInv'
<1>1. /\ \A v \in Workers : pc'[v] = IF v = w THEN p ELSE pc[v]
      /\ \A h \in Hosts : pc'[h] = pc[h]
      /\ pc'[Dtor] = pc[Dtor]
  BY SpotFacts DEF RunnerMoves
<1>2. \A v \in Workers : stage > 2 * v /\ deque'[v] # <<>> => pc'[v] \in Running \cup {"seek"}
  BY <1>1 DEF DtorInv
<1>3. pc[Dtor] # "dead"
  BY DEF DtorInv
<1>4. (\A v \in Workers : pc'[v] = "exited") => queue' = {}
  BY <1>1
<1> QED BY <1>1, <1>2, <1>3, <1>4 DEF DtorInv

\* A worker that has nothing in hand before and after.
LEMMA WorkerQuiet ==
  ASSUME SchedInv, NEW w \in Workers, NEW p \in WorkerPoints, p \notin Running,
         pc[w] \notin Running \cup {"exited"}, pc' = [pc EXCEPT ![w] = p] \/ (pc' = pc /\ p = pc[w]),
         p = "seek" \/ deque[w] = <<>> \/ pc[w] # "seek", p = "exited" => queue = {},
         myNode' \in [Workers -> Nodes \cup {NoNode}], left' \in [Workers -> SUBSET Workers],
         UNCHANGED <<containers, workVars, nodeOf, todo, owed, stage, log>>
  PROVE  SchedInv' /\ OwingStays
<1>0. SchedTypes /\ HandInv /\ HostInv /\ WorkInv /\ DtorInv
  BY Parts
<1>1. w \in Runners /\ w # Dtor
  BY SpotFacts
<1>2. cur[w] = NoItem /\ cur' = cur
  BY <1>0, <1>1 DEF HandInv, containers
<1>3. RunnerMoves(w, p, NoItem)
  BY <1>0, <1>1, <1>2 DEF SchedTypes, RunnerMoves, Running
<1>4. PhasesStay
  BY <1>1, <1>2, <1>3 DEF PhasesStay, RunnerMoves
<1>5. HostsStay
  BY <1>1, <1>3, SpotFacts DEF HostsStay, RunnerMoves
<1>6. Same /\ NoRepeats'
  BY <1>0, NothingMoves DEF WorkInv, UniqueInv, NoRepeats
<1>7. WorkInv'
  BY <1>0, <1>4, <1>5, <1>6, QuietStep
<1>8. /\ queue' = queue /\ deque' = deque /\ ring' = ring /\ numaQ' = numaQ
      /\ pend' = pend /\ busy' = busy /\ runs' = runs /\ accepted' = accepted /\ emptied' = emptied
  BY DEF containers, workVars
<1>9. DtorInv'
  BY <1>0, <1>3, <1>8, WorkerDtor DEF Running
<1>10. /\ pend' \in [Streams -> Seq(StreamTasks)] /\ busy' \in [Streams -> BOOLEAN]
       /\ queue' \subseteq Items /\ numaQ' \in [Nodes -> SUBSET Items]
       /\ deque' \in [Workers -> Seq(Items)] /\ ring' \in [Workers -> Seq(Items)]
       /\ stage' \in 0..(2 * NumThreads) /\ log' \in [Streams -> Seq(StreamTasks)]
       /\ runs' \in [Tasks -> {0, 1}]
  BY <1>0, <1>8 DEF SchedTypes
<1>11. OwingStays
  BY <1>5, <1>6, <1>8, HeldSame, OwingSame
<1> QED BY <1>11, <1>1, <1>3, <1>7, <1>8, <1>9, <1>10, RunnerStep

\* A runner takes an item.
LEMMA RunnerTakes ==
  ASSUME SchedInv, NEW r \in Runners, pc[r] \notin Running, NEW l \in Kinds \ {"hand"},
         NEW m \in Spots, NEW e \in Items, Holds(l, m, e), Moved(e, r), NoRepeats', Took(r, e),
         queue' \subseteq Items, numaQ' \in [Nodes -> SUBSET Items],
         deque' \in [Workers -> Seq(Items)], ring' \in [Workers -> Seq(Items)],
         left' \in [Workers -> SUBSET Workers], DtorInv',
         UNCHANGED <<workVars, todo, stage, log, nodeOf, myNode, owed>>
  PROVE  SchedInv' /\ OwingStays
<1>0. SchedTypes /\ HandInv /\ HostInv /\ WorkInv /\ DtorInv
  BY Parts
<1>1. cur[r] = NoItem
  BY <1>0 DEF HandInv
<1>2. pc' = [pc EXCEPT ![r] = "run"] /\ cur' = [cur EXCEPT ![r] = e]
  BY DEF Took, Goto
<1>3. WorkInv'
  BY <1>0, <1>1, <1>2, TakeStep
<1>4. RunnerMoves(r, "run", e)
  BY <1>0, <1>2, SpotFacts, RunnerMove DEF Running, WorkerPoints, DtorPoints
<1>5. /\ pend' = pend /\ busy' = busy /\ runs' = runs /\ accepted' = accepted /\ emptied' = emptied
  BY DEF workVars
<1>6. /\ pend' \in [Streams -> Seq(StreamTasks)] /\ busy' \in [Streams -> BOOLEAN]
      /\ stage' \in 0..(2 * NumThreads) /\ log' \in [Streams -> Seq(StreamTasks)]
      /\ runs' \in [Tasks -> {0, 1}] /\ myNode' \in [Workers -> Nodes \cup {NoNode}]
  BY <1>0, <1>5 DEF SchedTypes
<1>7. HostsStay
  BY <1>4, SpotFacts DEF HostsStay, RunnerMoves
<1>8. \A x : Held(x)' <=> Held(x)
  BY HeldMoved
<1>9. OwingStays
  BY <1>5, <1>7, <1>8, OwingSame
<1> QED BY <1>9, <1>3, <1>4, <1>5, <1>6, RunnerStep

LEMMA TookMoves ==
  ASSUME SchedTypes, NEW r \in Runners, NEW e \in Items, Took(r, e)
  PROVE  RunnerMoves(r, "run", e)
<1>1. pc' = [pc EXCEPT ![r] = "run"] /\ cur' = [cur EXCEPT ![r] = e]
  BY DEF Took, Goto
<1> QED BY <1>1, SpotFacts, RunnerMove DEF Running, WorkerPoints, DtorPoints

LEMMA QuietWorkers ==
  ASSUME SchedInv, NEW w \in Workers, WorkerStart(w) \/ Block(w) \/ Unblock(w)
  PROVE  SchedInv' /\ OwingStays
<1>0. SchedTypes
  BY Parts
<1>1. myNode' \in [Workers -> Nodes \cup {NoNode}] /\ left' \in [Workers -> SUBSET Workers]
  BY <1>0 DEF WorkerStart, Block, Unblock, SchedTypes, numaVars
<1>2. UNCHANGED <<containers, workVars, nodeOf, todo, owed, stage, log>>
  BY DEF WorkerStart, Block, Unblock, containers, workVars, numaVars, streamVars, ghosts
<1>3. PICK p \in {"seek", "blocked", "lock"} : pc' = [pc EXCEPT ![w] = p]
  BY DEF WorkerStart, Block, Unblock, Goto
<1>4. pc[w] \in {"start", "block", "blocked"}
  BY DEF WorkerStart, Block, Unblock
<1>5. p \in WorkerPoints /\ p \notin Running /\ pc[w] \notin Running \cup {"exited"}
  BY <1>4 DEF WorkerPoints, Running
<1> QED BY <1>1, <1>2, <1>3, <1>4, <1>5, WorkerQuiet

LEMMA PopOwnStep ==
  ASSUME SchedInv, NEW w \in Workers, PopOwn(w)
  PROVE  SchedInv' /\ OwingStays
<1>0. SchedTypes /\ HandInv /\ WorkInv /\ DtorInv /\ UniqueInv
  BY Parts DEF WorkInv
<1>1. /\ UNCHANGED <<workVars, queue, numaQ, ring, nodeOf, myNode, todo, owed, stage, log>>
      /\ pc[w] = "seek" /\ pc[w] \notin Running /\ w \in Runners
  BY SpotFacts DEF PopOwn, workVars, numaVars, streamVars, ghosts, Running
<1>2. CASE deque[w] # <<>>
  <2>1. PICK e, rest : /\ e = deque[w][Len(deque[w])]
                       /\ rest = SubSeq(deque[w], 1, Len(deque[w]) - 1)
    OBVIOUS
  <2>2. Took(w, e) /\ deque' = [deque EXCEPT ![w] = rest] /\ left' = left
    BY <1>2, <2>1 DEF PopOwn
  <2>3. cur' = [cur EXCEPT ![w] = e] /\ cur[w] = NoItem
    BY <1>0, <1>1, <2>2 DEF Took, HandInv
  <2>4. /\ Moved(e, w) /\ NoRepeats' /\ Holds("deque", w, e) /\ e \in Items
        /\ rest \in Seq(Items)
    BY <1>0, <1>1, <1>2, <2>1, <2>2, <2>3, DequeGives
  <2>5. /\ deque' \in [Workers -> Seq(Items)]
        /\ \A v \in Workers : deque'[v] = IF v = w THEN rest ELSE deque[v]
    BY <1>0, <2>2, <2>4 DEF SchedTypes
  <2>6. RunnerMoves(w, "run", e)
    BY <1>0, <1>1, <2>2, <2>4, TookMoves
  <2>7. DtorInv'
    BY <1>0, <1>1, <2>5, <2>6, WorkerDtor DEF Running
  <2>8. "deque" \in Kinds \ {"hand"} /\ w \in Spots
    BY SpotFacts DEF Kinds
  <2>9. /\ queue' \subseteq Items /\ numaQ' \in [Nodes -> SUBSET Items]
        /\ ring' \in [Workers -> Seq(Items)] /\ left' \in [Workers -> SUBSET Workers]
    BY <1>0, <1>1, <2>2 DEF SchedTypes
  <2> QED BY <1>1, <2>2, <2>4, <2>5, <2>7, <2>8, <2>9, RunnerTakes
<1>3. CASE deque[w] = <<>>
  <2>1. /\ left' = [left EXCEPT ![w] = Workers \ {w}] /\ pc' = [pc EXCEPT ![w] = "steal"]
        /\ UNCHANGED <<deque, cur>>
    BY <1>3 DEF PopOwn, Goto
  <2>2. "steal" \in WorkerPoints /\ "steal" \notin Running
    BY DEF WorkerPoints, Running
  <2>3. UNCHANGED containers
    BY <1>1, <2>1 DEF containers
  <2>4. left' \in [Workers -> SUBSET Workers] /\ myNode' \in [Workers -> Nodes \cup {NoNode}]
    BY <1>0, <1>1, <2>1 DEF SchedTypes
  <2> QED BY <1>1, <1>3, <2>1, <2>2, <2>3, <2>4, WorkerQuiet
<1> QED BY <1>2, <1>3

LEMMA TryStealStep ==
  ASSUME SchedInv, NEW w \in Workers, TrySteal(w)
  PROVE  SchedInv' /\ OwingStays
<1>0. SchedTypes /\ HandInv /\ WorkInv /\ DtorInv /\ UniqueInv
  BY Parts DEF WorkInv
<1>1. /\ UNCHANGED <<workVars, queue, numaQ, ring, nodeOf, myNode, todo, owed, stage, log>>
      /\ pc[w] = "steal" /\ pc[w] \notin Running \cup {"seek", "exited"} /\ w \in Runners
  BY SpotFacts DEF TrySteal, workVars, numaVars, streamVars, ghosts, Running
<1>2. PICK v \in left[w] :
        IF deque[v] # <<>>
          THEN /\ Took(w, Head(deque[v]))
               /\ deque' = [deque EXCEPT ![v] = Tail(@)]
               /\ left' = [left EXCEPT ![w] = {}]
          ELSE /\ left' = [left EXCEPT ![w] = @ \ {v}]
               /\ UNCHANGED <<deque, cur, pc>>
  BY DEF TrySteal
<1>3. v \in Workers /\ left' \in [Workers -> SUBSET Workers]
  <2>1. left \in [Workers -> SUBSET Workers] /\ left[w] \in SUBSET Workers
    BY <1>0 DEF SchedTypes
  <2>2. PICK o \in SUBSET Workers : left' = [left EXCEPT ![w] = o]
    <3>1. left[w] \ {v} \in SUBSET Workers /\ {} \in SUBSET Workers
      BY <2>1
    <3> QED BY <1>2, <3>1
  <2> QED BY <2>1, <2>2
<1>4. CASE deque[v] # <<>>
  <2>1. PICK e, rest : e = Head(deque[v]) /\ rest = Tail(deque[v])
    OBVIOUS
  <2>2. Took(w, e) /\ deque' = [deque EXCEPT ![v] = rest]
    BY <1>2, <1>4, <2>1
  <2>3. cur' = [cur EXCEPT ![w] = e] /\ cur[w] = NoItem
    BY <1>0, <1>1, <2>2 DEF Took, HandInv
  <2>4. /\ Moved(e, w) /\ NoRepeats' /\ Holds("deque", v, e) /\ e \in Items
        /\ rest \in Seq(Items)
    BY <1>0, <1>1, <1>3, <1>4, <2>1, <2>2, <2>3, DequeGives
  <2>5. /\ deque' \in [Workers -> Seq(Items)]
        /\ \A u \in Workers : deque'[u] = IF u = v THEN rest ELSE deque[u]
    BY <1>0, <2>2, <2>4 DEF SchedTypes
  <2>6. RunnerMoves(w, "run", e)
    BY <1>0, <1>1, <2>2, <2>4, TookMoves
  <2>7. DtorInv'
    <3>1. \A u \in Workers : /\ deque'[u] # <<>> => deque[u] # <<>>
                             /\ ring[u] = <<>> => ring'[u] = <<>>
      BY <1>1, <1>4, <2>5
    <3> QED BY <1>0, <1>1, <2>6, <3>1, WorkerDtor DEF Running
  <2>8. "deque" \in Kinds \ {"hand"} /\ v \in Spots
    BY <1>3, SpotFacts DEF Kinds
  <2>9. /\ queue' \subseteq Items /\ numaQ' \in [Nodes -> SUBSET Items]
        /\ ring' \in [Workers -> Seq(Items)]
    BY <1>0, <1>1 DEF SchedTypes
  <2> QED BY <1>1, <1>3, <2>2, <2>4, <2>5, <2>7, <2>8, <2>9, RunnerTakes
<1>5. CASE deque[v] = <<>>
  <2>1. UNCHANGED <<deque, cur, pc>>
    BY <1>2, <1>5
  <2>2. "steal" \in WorkerPoints /\ "steal" \notin Running
    BY DEF WorkerPoints, Running
  <2>3. UNCHANGED containers
    BY <1>1, <2>1 DEF containers
  <2>4. myNode' \in [Workers -> Nodes \cup {NoNode}]
    BY <1>0, <1>1 DEF SchedTypes
  <2> QED BY <1>1, <1>3, <2>1, <2>2, <2>3, <2>4, WorkerQuiet
<1> QED BY <1>4, <1>5

LEMMA PopRingStep ==
  ASSUME SchedInv, NEW w \in Workers, PopRing(w)
  PROVE  SchedInv' /\ OwingStays
<1>0. SchedTypes /\ HandInv /\ WorkInv /\ DtorInv /\ UniqueInv
  BY Parts DEF WorkInv
<1>1. /\ UNCHANGED <<workVars, queue, numaQ, deque, left, nodeOf, myNode, todo, owed, stage, log>>
      /\ pc[w] = "steal" /\ pc[w] \notin Running \cup {"seek", "exited"} /\ w \in Runners
  BY SpotFacts DEF PopRing, workVars, numaVars, streamVars, ghosts, Running
<1>2. CASE ring[w] # <<>>
  <2>1. PICK e : e = Head(ring[w])
    OBVIOUS
  <2>2. Took(w, e) /\ ring' = [ring EXCEPT ![w] = Tail(@)]
    BY <1>2, <2>1 DEF PopRing
  <2>3. cur' = [cur EXCEPT ![w] = e] /\ cur[w] = NoItem
    BY <1>0, <1>1, <2>2 DEF Took, HandInv
  <2>4. /\ Moved(e, w) /\ NoRepeats' /\ Holds("ring", w, e) /\ e \in Items
        /\ Tail(ring[w]) \in Seq(Items)
    BY <1>0, <1>1, <1>2, <2>1, <2>2, <2>3, RingGives
  <2>5. /\ ring' \in [Workers -> Seq(Items)]
        /\ \A u \in Workers : ring'[u] = IF u = w THEN Tail(ring[w]) ELSE ring[u]
    BY <1>0, <2>2, <2>4 DEF SchedTypes
  <2>6. RunnerMoves(w, "run", e)
    BY <1>0, <1>1, <2>2, <2>4, TookMoves
  <2>7. DtorInv'
    <3>1. \A u \in Workers : /\ deque'[u] # <<>> => deque[u] # <<>>
                             /\ ring[u] = <<>> => ring'[u] = <<>>
      BY <1>1, <1>2, <2>5
    <3> QED BY <1>0, <1>1, <2>6, <3>1, WorkerDtor DEF Running
  <2>8. "ring" \in Kinds \ {"hand"} /\ w \in Spots
    BY SpotFacts DEF Kinds
  <2>9. /\ queue' \subseteq Items /\ numaQ' \in [Nodes -> SUBSET Items]
        /\ deque' \in [Workers -> Seq(Items)] /\ left' \in [Workers -> SUBSET Workers]
    BY <1>0, <1>1 DEF SchedTypes
  <2> QED BY <1>1, <2>2, <2>4, <2>5, <2>7, <2>8, <2>9, RunnerTakes
<1>3. CASE ring[w] = <<>>
  <2>1. UNCHANGED <<ring, cur>> /\ pc' = [pc EXCEPT ![w] = "lock"]
    BY <1>3 DEF PopRing, Goto
  <2>2. "lock" \in WorkerPoints /\ "lock" \notin Running
    BY DEF WorkerPoints, Running
  <2>3. UNCHANGED containers
    BY <1>1, <2>1 DEF containers
  <2>4. left' \in [Workers -> SUBSET Workers] /\ myNode' \in [Workers -> Nodes \cup {NoNode}]
    BY <1>0, <1>1 DEF SchedTypes
  <2> QED BY <1>1, <2>1, <2>2, <2>3, <2>4, WorkerQuiet
<1> QED BY <1>2, <1>3

LEMMA LockAndLookStep ==
  ASSUME SchedInv, NEW w \in Workers, LockAndLook(w)
  PROVE  SchedInv' /\ OwingStays
<1>0. SchedTypes /\ HandInv /\ WorkInv /\ DtorInv /\ UniqueInv
  BY Parts DEF WorkInv
<1>1. /\ UNCHANGED <<workVars, deque, ring, left, nodeOf, myNode, todo, owed, stage, log>>
      /\ pc[w] = "lock" /\ pc[w] \notin Running \cup {"seek", "exited"} /\ w \in Runners
  BY SpotFacts DEF LockAndLook, workVars, streamVars, ghosts, Running
<1>2. /\ left' \in [Workers -> SUBSET Workers] /\ myNode' \in [Workers -> Nodes \cup {NoNode}]
      /\ deque' \in [Workers -> Seq(Items)] /\ ring' \in [Workers -> Seq(Items)]
      /\ queue \subseteq Items /\ numaQ \in [Nodes -> SUBSET Items]
      /\ \A u \in Workers : /\ deque'[u] # <<>> => deque[u] # <<>>
                            /\ ring[u] = <<>> => ring'[u] = <<>>
  BY <1>0, <1>1 DEF SchedTypes
<1>3. CASE \E p \in {"block", "exited", "seek"} :
             /\ Goto(w, p) /\ UNCHANGED <<queue, numaQ, cur>> /\ (p = "exited" => queue = {})
  <2>1. PICK p \in {"block", "exited", "seek"} :
             /\ Goto(w, p) /\ UNCHANGED <<queue, numaQ, cur>> /\ (p = "exited" => queue = {})
    BY <1>3
  <2>2. p \in WorkerPoints /\ p \notin Running /\ pc' = [pc EXCEPT ![w] = p]
    BY <2>1 DEF WorkerPoints, Running, Goto
  <2>3. UNCHANGED containers
    BY <1>1, <2>1 DEF containers
  <2> QED BY <1>1, <1>2, <2>1, <2>2, <2>3, WorkerQuiet
<1>4. ASSUME NEW item \in NodeItems(w), NodeItems(w) # {}, Took(w, item),
             numaQ' = [numaQ EXCEPT ![myNode[w]] = @ \ {item}], UNCHANGED queue
      PROVE  SchedInv' /\ OwingStays
  <2>1. PICK m \in Nodes : m = myNode[w] /\ item \in numaQ[m]
    BY <1>0, <1>4 DEF NodeItems, SchedTypes
  <2>2. numaQ' = [numaQ EXCEPT ![m] = @ \ {item}]
    BY <1>4, <2>1
  <2>3. cur' = [cur EXCEPT ![w] = item] /\ cur[w] = NoItem
    BY <1>0, <1>1, <1>4 DEF Took, HandInv
  <2>4. Moved(item, w) /\ NoRepeats' /\ Holds("node", m, item) /\ item \in Items
    BY <1>0, <1>1, <1>4, <2>1, <2>2, <2>3, NodeGives
  <2>5. numaQ' \in [Nodes -> SUBSET Items] /\ queue' \subseteq Items
    BY <1>2, <1>4, <2>2
  <2>6. RunnerMoves(w, "run", item)
    BY <1>0, <1>1, <1>4, <2>4, TookMoves
  <2>7. DtorInv'
    BY <1>0, <1>1, <1>2, <2>6, WorkerDtor DEF Running
  <2>8. "node" \in Kinds \ {"hand"} /\ m \in Spots
    BY SpotFacts DEF Kinds
  <2> QED BY <1>1, <1>2, <1>4, <2>4, <2>5, <2>7, <2>8, RunnerTakes
<1>5. ASSUME NEW item \in queue, Took(w, item), queue' = queue \ {item}, UNCHANGED numaQ
      PROVE  SchedInv' /\ OwingStays
  <2>3. cur' = [cur EXCEPT ![w] = item] /\ cur[w] = NoItem
    BY <1>0, <1>1, <1>5 DEF Took, HandInv
  <2>4. Moved(item, w) /\ NoRepeats' /\ Holds("queue", 0, item) /\ item \in Items
    BY <1>0, <1>1, <1>5, <2>3, QueueGives
  <2>5. numaQ' \in [Nodes -> SUBSET Items] /\ queue' \subseteq Items
    BY <1>2, <1>5
  <2>6. RunnerMoves(w, "run", item)
    BY <1>0, <1>1, <1>5, <2>4, TookMoves
  <2>7. DtorInv'
    BY <1>0, <1>1, <1>2, <2>6, WorkerDtor DEF Running
  <2>8. "queue" \in Kinds \ {"hand"} /\ 0 \in Spots
    BY SpotFacts DEF Kinds
  <2> QED BY <1>1, <1>2, <1>5, <2>4, <2>5, <2>7, <2>8, RunnerTakes
<1>6. CASE ~WakeUp(w)
  BY <1>3, <1>6 DEF LockAndLook
<1>7. CASE WakeUp(w)
  <2>1. \/ \E item \in NodeItems(w) : /\ NodeItems(w) # {} /\ Took(w, item)
                                      /\ numaQ' = [numaQ EXCEPT ![myNode[w]] = @ \ {item}]
                                      /\ UNCHANGED queue
        \/ \E item \in queue : Took(w, item) /\ queue' = queue \ {item} /\ UNCHANGED numaQ
        \/ /\ queue = {} /\ Goto(w, IF shutdown THEN "exited" ELSE "seek")
           /\ UNCHANGED <<queue, numaQ, cur>>
    BY <1>7 DEF LockAndLook
  <2>2. CASE /\ queue = {} /\ Goto(w, IF shutdown THEN "exited" ELSE "seek")
             /\ UNCHANGED <<queue, numaQ, cur>>
    BY <1>3, <2>2
  <2> QED BY <1>4, <1>5, <2>1, <2>2
<1> QED BY <1>6, <1>7

\* What a step of a runner at work leaves alone or has to keep.
LEMMA RunnerDtor ==
  ASSUME SchedTypes, DtorInv, NEW r \in Runners, pc[r] \in Running, NEW p, NEW c,
         RunnerMoves(r, p, c), stage' = stage,
         p \in Running \cup {IF r = Dtor THEN "drain" ELSE "seek"},
         \A v \in Workers : /\ deque'[v] # <<>> => deque[v] # <<>> \/ v = r
                            /\ ring[v] = <<>> => ring'[v] = <<>>
  PROVE  DtorInv'
<1>1. CASE r \in Workers
  <2>1. r # Dtor
    BY <1>1, SpotFacts
  <2>2. pc[r] # "exited" /\ p # "exited" /\ p \in Running \cup {"seek"}
    BY <2>1 DEF Running
  <2> QED BY <1>1, <2>2, WorkerDtor
<1>2. CASE r = Dtor
  <2>1. /\ \A v \in Workers : pc'[v] = pc[v] /\ v # Dtor
        /\ \A h \in Hosts : pc'[h] = pc[h]
        /\ pc'[Dtor] = p
    BY <1>2, SpotFacts DEF RunnerMoves
  <2>2. p \notin {"alive", "join", "dead"} /\ pc[Dtor] # "alive"
    BY <1>2 DEF Running
  <2> QED BY <1>2, <2>1, <2>2 DEF DtorInv
<1> QED BY <1>1, <1>2 DEF Runners

LEMMA RunItemInv ==
  ASSUME SchedInv, NEW r \in Runners, RunItem(r)
  PROVE  SchedInv'
<1>0. SchedTypes /\ HandInv /\ WorkInv /\ DtorInv
  BY Parts
<1>1. pc[r] = "run" /\ pc[r] \in Running
  BY DEF RunItem, Running
<1>2. PICK e \in Items : e = cur[r]
  BY <1>0, <1>1, InHand
<1>3. PICK x \in Tasks : x = e.task
  BY <1>0, <1>1, <1>2, InHand
<1>4. PICK p \in {"finish", "account"} :
        /\ pc' = [pc EXCEPT ![r] = p] /\ (p = "finish" => e.kind = "stream")
  BY <1>2 DEF RunItem, Goto
<1>5. /\ UNCHANGED <<pend, busy, queue, numaQ, deque, ring, cur, nodeOf, myNode, left, todo, stage,
                     accepted, owed, emptied>>
      /\ runs' = IF e.kind = "empty" THEN runs ELSE [runs EXCEPT ![x] = @ + 1]
      /\ log' = IF e.kind = "stream" THEN [log EXCEPT ![StreamOf[x]] = Append(@, x)] ELSE log
  BY <1>2, <1>3 DEF RunItem, numaVars, streamVars
<1>6. Holds("hand", r, e) /\ "hand" \in Kinds /\ r \in Spots /\ e # NoItem
  BY <1>0, <1>1, <1>2, InHand, SpotFacts
<1>7. e.kind # "empty" => runs[x] = 0
  <2>1. ~Ran("hand", r)
    BY <1>1 DEF Ran
  <2> QED BY <1>0, <1>3, <1>6, <2>1 DEF WorkInv, RunInv, SchedTypes
<1>8. runs' \in [Tasks -> {0, 1}]
  BY <1>0, <1>5, <1>7 DEF SchedTypes
<1>9. log' \in [Streams -> Seq(StreamTasks)]
  <2>1. CASE e.kind = "stream"
    <3>1. x \in StreamTasks
      BY <1>0, <1>3, <1>6, <2>1 DEF WorkInv, KindInv
    <3>2. PICK z \in Streams : z = StreamOf[x]
      BY <3>1 DEF Streams
    <3>3. log[z] \in Seq(StreamTasks)
      BY <1>0 DEF SchedTypes
    <3>4. Append(log[z], x) \in Seq(StreamTasks)
      BY <3>1, <3>3, InAppend
    <3>5. log' = [log EXCEPT ![z] = Append(log[z], x)]
      BY <1>5, <2>1, <3>2
    <3> QED BY <1>0, <3>4, <3>5 DEF SchedTypes
  <2>2. CASE e.kind # "stream"
    BY <1>0, <1>5, <2>2 DEF SchedTypes
  <2> QED BY <2>1, <2>2
<1>10. RunnerMoves(r, p, e)
  <2>1. p \in IF r = Dtor THEN DtorPoints ELSE WorkerPoints
    BY DEF DtorPoints, WorkerPoints, Running
  <2>2. p \in Running
    BY DEF Running
  <2> QED BY <1>0, <1>2, <1>4, <1>5, <1>6, <2>1, <2>2, RunnerMove
<1>11. DtorInv'
  BY <1>0, <1>1, <1>5, <1>10, RunnerDtor DEF Running
<1>12. WorkInv'
  BY <1>0, RunItemStep
<1>13. /\ pend' \in [Streams -> Seq(StreamTasks)] /\ busy' \in [Streams -> BOOLEAN]
       /\ queue' \subseteq Items /\ numaQ' \in [Nodes -> SUBSET Items]
       /\ deque' \in [Workers -> Seq(Items)] /\ ring' \in [Workers -> Seq(Items)]
       /\ myNode' \in [Workers -> Nodes \cup {NoNode}]
       /\ left' \in [Workers -> SUBSET Workers] /\ stage' \in 0..(2 * NumThreads)
  BY <1>0, <1>5 DEF SchedTypes
<1> QED BY <1>5, <1>8, <1>9, <1>10, <1>11, <1>12, <1>13, RunnerStep

LEMMA FinishInv ==
  ASSUME SchedInv, NEW r \in Runners, Finish(r)
  PROVE  SchedInv'
<1>0. SchedTypes /\ HandInv /\ HostInv /\ WorkInv /\ DtorInv
  BY Parts
<1>1. pc[r] = "finish" /\ pc[r] \in Running
  BY DEF Finish, Running
<1>2. PICK z \in Streams : z = StreamOf[cur[r].task]
  BY <1>0, <1>1, RunnerServes
<1> DEFINE rest == Tail(pend[z])
<1>3. Retiring(r, z)
  BY <1>0, <1>1, <1>2, FinishFacts
<1>4. /\ rest \in Seq(StreamTasks) /\ cur[r] \in Items /\ cur[r] # NoItem
      /\ cur[r].kind = "stream"
  BY <1>0, <1>1, <1>3, RunnerServes, SpotFacts DEF Retiring
<1>5. /\ pend' = [pend EXCEPT ![z] = rest] /\ busy' = [busy EXCEPT ![z] = rest # <<>>]
      /\ UNCHANGED <<queue, numaQ, ring, cur, nodeOf, myNode, left, todo, stage, log, runs,
                     accepted, owed, emptied>>
  BY <1>2 DEF Finish, numaVars, ghosts
<1>6. PICK p \in {"account", "spill"} : pc' = [pc EXCEPT ![r] = p]
  BY DEF Finish, Goto
<1>7. /\ deque' \in [Workers -> Seq(Items)]
      /\ \A v \in Workers : deque'[v] # <<>> => deque[v] # <<>> \/ v = r
  <2>1. CASE deque' = deque
    BY <1>0, <2>1 DEF SchedTypes
  <2>2. CASE /\ rest # <<>> /\ r \in Workers
             /\ deque' = [deque EXCEPT ![r] = Append(@, Item("stream", Head(rest)))]
    <3>1. Head(rest) \in StreamTasks
      BY <1>4, <2>2, InTail
    <3>2. Item("stream", Head(rest)) \in Items
      BY <3>1, ItemTypes DEF Tasks
    <3>3. deque[r] \in Seq(Items)
      BY <1>0, <2>2 DEF SchedTypes
    <3>5. Append(deque[r], Item("stream", Head(rest))) \in Seq(Items)
      <4>1. PICK e \in Items : e = Item("stream", Head(rest))
        BY <3>2
      <4>2. Append(deque[r], e) \in Seq(Items)
        BY <3>3, InAppend
      <4> QED BY <4>1, <4>2
    <3>4. PICK q \in Seq(Items) : deque' = [deque EXCEPT ![r] = q]
      BY <2>2, <3>5
    <3> QED BY <1>0, <2>2, <3>4 DEF SchedTypes
  <2> QED BY <1>2, <2>1, <2>2 DEF Finish
<1> HIDE DEF rest
<1>8. RunnerMoves(r, p, cur[r])
  <2>1. p \in IF r = Dtor THEN DtorPoints ELSE WorkerPoints
    BY DEF DtorPoints, WorkerPoints, Running
  <2>2. p \in Running
    BY DEF Running
  <2> QED BY <1>0, <1>4, <1>5, <1>6, <2>1, <2>2, RunnerMove
<1>9. DtorInv'
  <2>1. p \in Running \cup {IF r = Dtor THEN "drain" ELSE "seek"}
    BY DEF Running
  <2> QED BY <1>0, <1>1, <1>5, <1>7, <1>8, <2>1, RunnerDtor
<1>10. WorkInv'
  BY <1>0, FinishStep
<1>11. pend' \in [Streams -> Seq(StreamTasks)] /\ busy' \in [Streams -> BOOLEAN]
  <2>1. (rest # <<>>) \in BOOLEAN
    OBVIOUS
  <2> QED BY <1>0, <1>4, <1>5, <2>1 DEF SchedTypes
<1>12. /\ queue' \subseteq Items /\ numaQ' \in [Nodes -> SUBSET Items]
       /\ ring' \in [Workers -> Seq(Items)]
       /\ myNode' \in [Workers -> Nodes \cup {NoNode}]
       /\ left' \in [Workers -> SUBSET Workers] /\ stage' \in 0..(2 * NumThreads)
       /\ log' \in [Streams -> Seq(StreamTasks)] /\ runs' \in [Tasks -> {0, 1}]
  BY <1>0, <1>5 DEF SchedTypes
<1> QED BY <1>5, <1>7, <1>8, <1>9, <1>10, <1>11, <1>12, RunnerStep

LEMMA SpillInv ==
  ASSUME SchedInv, NEW r \in Runners, Spill(r)
  PROVE  SchedInv'
<1>0. SchedTypes /\ HandInv /\ HostInv /\ WorkInv /\ DtorInv
  BY Parts
<1>1. pc[r] = "spill" /\ pc[r] \in Running /\ pc' = [pc EXCEPT ![r] = "account"]
  BY DEF Spill, Running, Goto
<1>2. PICK z \in Streams : z = StreamOf[cur[r].task]
  BY <1>0, <1>1, RunnerServes
<1>3. /\ Serves("hand", r, cur[r], z) /\ cur[r] \in Items /\ r \in Spots /\ "hand" \in Kinds
      /\ cur[r] # NoItem
  BY <1>0, <1>1, <1>2, RunnerServes, SpotFacts
<1>4. pend[z] # <<>>
  BY <1>0, <1>3 DEF WorkInv, StreamInv
<1>5. Head(pend[z]) \in Tasks
  BY <1>0, <1>4, FirstPending DEF Tasks
<1>6. FrontItem(z) \in Items
  BY <1>5, ItemTypes DEF FrontItem
<1>7. /\ queue' = queue \cup {FrontItem(z)}
      /\ UNCHANGED <<pend, busy, numaQ, deque, ring, cur, nodeOf, myNode, left, todo, stage, log,
                     runs, accepted, owed, emptied>>
  BY <1>2 DEF Spill, numaVars, ghosts
<1>8. RunnerMoves(r, "account", cur[r])
  <2>1. "account" \in IF r = Dtor THEN DtorPoints ELSE WorkerPoints
    BY DEF DtorPoints, WorkerPoints, Running
  <2>2. "account" \in Running
    BY DEF Running
  <2> QED BY <1>0, <1>1, <1>3, <1>7, <2>1, <2>2, RunnerMove
<1>9. DtorInv'
  <2>1. "account" \in Running \cup {IF r = Dtor THEN "drain" ELSE "seek"}
    BY DEF Running
  <2> QED BY <1>0, <1>1, <1>7, <1>8, <2>1, RunnerDtor
<1>10. WorkInv'
  BY <1>0, SpillStep
<1>11. /\ queue' \subseteq Items /\ numaQ' \in [Nodes -> SUBSET Items]
       /\ ring' \in [Workers -> Seq(Items)] /\ deque' \in [Workers -> Seq(Items)]
       /\ pend' \in [Streams -> Seq(StreamTasks)] /\ busy' \in [Streams -> BOOLEAN]
       /\ myNode' \in [Workers -> Nodes \cup {NoNode}]
       /\ left' \in [Workers -> SUBSET Workers] /\ stage' \in 0..(2 * NumThreads)
       /\ log' \in [Streams -> Seq(StreamTasks)] /\ runs' \in [Tasks -> {0, 1}]
  BY <1>0, <1>6, <1>7 DEF SchedTypes
<1> QED BY <1>7, <1>8, <1>9, <1>10, <1>11, RunnerStep

LEMMA AccountInv ==
  ASSUME SchedInv, NEW r \in Runners, Account(r)
  PROVE  SchedInv'
<1>0. SchedTypes /\ HandInv /\ HostInv /\ WorkInv /\ DtorInv
  BY Parts
<1> DEFINE p == IF r = Dtor THEN "drain" ELSE "seek"
<1>1. /\ pc[r] \in Running /\ pc' = [pc EXCEPT ![r] = p]
      /\ cur' = [cur EXCEPT ![r] = NoItem]
      /\ UNCHANGED <<pend, busy, queue, numaQ, deque, ring, nodeOf, myNode, left, todo, stage, log,
                     runs, accepted, owed, emptied>>
  BY DEF Account, Running, Goto, numaVars, streamVars, ghosts
<1>2. /\ p \in IF r = Dtor THEN DtorPoints ELSE WorkerPoints
      /\ p \notin Running
  BY DEF DtorPoints, WorkerPoints, Running
<1>3. p \in Running \cup {IF r = Dtor THEN "drain" ELSE "seek"}
  OBVIOUS
<1> HIDE DEF p
<1>8. RunnerMoves(r, p, NoItem)
  <2>1. p \notin {"finish", "spill"}
    BY <1>2 DEF Running
  <2> QED BY <1>0, <1>1, <1>2, <2>1, RunnerMove
<1>9. DtorInv'
  BY <1>0, <1>1, <1>3, <1>8, RunnerDtor
<1>10. WorkInv'
  BY <1>0, AccountStep
<1>11. /\ queue' \subseteq Items /\ numaQ' \in [Nodes -> SUBSET Items]
       /\ ring' \in [Workers -> Seq(Items)] /\ deque' \in [Workers -> Seq(Items)]
       /\ pend' \in [Streams -> Seq(StreamTasks)] /\ busy' \in [Streams -> BOOLEAN]
       /\ myNode' \in [Workers -> Nodes \cup {NoNode}]
       /\ left' \in [Workers -> SUBSET Workers] /\ stage' \in 0..(2 * NumThreads)
       /\ log' \in [Streams -> Seq(StreamTasks)] /\ runs' \in [Tasks -> {0, 1}]
  BY <1>0, <1>1 DEF SchedTypes
<1> QED BY <1>1, <1>8, <1>9, <1>10, <1>11, RunnerStep

LEMMA TopologyInv ==
  ASSUME SchedInv, BuildNumaTopology
  PROVE  SchedInv' /\ OwingStays
<1>0. SchedTypes /\ HandInv /\ HostInv /\ WorkInv /\ DtorInv
  BY Parts
<1>1. UNCHANGED <<containers, workVars, myNode, pc, todo, left, stage, log, owed>>
  BY DEF BuildNumaTopology, containers, workVars, streamVars, ghosts
<1>2. nodeOf' \in [Workers -> Nodes \cup {NoNode}]
  <2> DEFINE w == CHOOSE v \in Unassigned : \A u \in Unassigned : v <= u
  <2>1. nodeOf' = [nodeOf EXCEPT ![w] = w % NumNodes] /\ Unassigned # {}
    BY DEF BuildNumaTopology
  <2>2. NumNodes \in Nat /\ NumNodes # 0 /\ Unassigned \subseteq Workers
    BY <2>1, SchedulerAssumption DEF Unassigned
  <2> HIDE DEF w
  <2>3. CASE w \in Workers
    <3>1. w \in Nat
      BY <2>3 DEF Workers
    <3>2. w % NumNodes \in Nodes
      BY <2>2, <3>1 DEF Nodes
    <3> QED BY <1>0, <2>1, <3>2 DEF SchedTypes
  <2>4. CASE w \notin Workers
    <3>1. nodeOf' = nodeOf
      BY <1>0, <2>1, <2>4 DEF SchedTypes
    <3> QED BY <1>0, <3>1 DEF SchedTypes
  <2> QED BY <2>3, <2>4
<1>3. PhasesStay /\ HostsStay
  BY <1>1 DEF PhasesStay, HostsStay, containers
<1>4. Same /\ NoRepeats'
  BY <1>0, <1>1, NothingMoves DEF WorkInv, UniqueInv, NoRepeats
<1>5. WorkInv'
  BY <1>0, <1>1, <1>3, <1>4, QuietStep
<1>6. HandInv'
  BY <1>0, <1>3, QuietHands
<1>7. HostInv'
  BY <1>0, <1>1 DEF HostInv, workVars
<1>8. DtorInv'
  BY <1>0, <1>1 DEF DtorInv, containers
<1>9. SchedTypes'
  BY <1>0, <1>1, <1>2 DEF SchedTypes, containers, workVars
<1>10. OwingStays
  BY <1>1, <1>3, <1>4, HeldSame, OwingSame DEF workVars
<1> QED BY <1>10, <1>5, <1>6, <1>7, <1>8, <1>9, Parts

\* A step of the destructor that takes nothing.
LEMMA DtorQuiet ==
  ASSUME SchedInv, NEW p \in DtorPoints, p \notin Running, pc[Dtor] \notin Running,
         pc' = [pc EXCEPT ![Dtor] = p] \/ (pc' = pc /\ p = pc[Dtor]), DtorInv',
         stage' \in 0..(2 * NumThreads),
         UNCHANGED <<containers, workVars, nodeOf, myNode, left, todo, owed, log>>
  PROVE  SchedInv' /\ OwingStays
<1>0. SchedTypes /\ HandInv /\ HostInv /\ WorkInv /\ DtorInv
  BY Parts
<1>1. Dtor \in Runners
  BY SpotFacts
<1>2. cur[Dtor] = NoItem /\ cur' = cur
  BY <1>0, <1>1 DEF HandInv, containers
<1>3. RunnerMoves(Dtor, p, NoItem)
  BY <1>0, <1>1, <1>2 DEF SchedTypes, RunnerMoves, Running
<1>4. PhasesStay
  BY <1>1, <1>2, <1>3 DEF PhasesStay, RunnerMoves
<1>5. HostsStay
  BY <1>1, <1>3, SpotFacts DEF HostsStay, RunnerMoves
<1>6. Same /\ NoRepeats'
  BY <1>0, NothingMoves DEF WorkInv, UniqueInv, NoRepeats
<1>7. WorkInv'
  BY <1>0, <1>4, <1>5, <1>6, QuietStep
<1>8. /\ queue' = queue /\ deque' = deque /\ ring' = ring /\ numaQ' = numaQ
      /\ pend' = pend /\ busy' = busy /\ runs' = runs /\ accepted' = accepted /\ emptied' = emptied
  BY DEF containers, workVars
<1>10. /\ pend' \in [Streams -> Seq(StreamTasks)] /\ busy' \in [Streams -> BOOLEAN]
       /\ queue' \subseteq Items /\ numaQ' \in [Nodes -> SUBSET Items]
       /\ deque' \in [Workers -> Seq(Items)] /\ ring' \in [Workers -> Seq(Items)]
       /\ myNode' \in [Workers -> Nodes \cup {NoNode}]
       /\ left' \in [Workers -> SUBSET Workers]
       /\ log' \in [Streams -> Seq(StreamTasks)] /\ runs' \in [Tasks -> {0, 1}]
  BY <1>0, <1>8 DEF SchedTypes
<1>11. OwingStays
  BY <1>5, <1>6, <1>8, HeldSame, OwingSame
<1> QED BY <1>11, <1>1, <1>3, <1>7, <1>8, <1>10, RunnerStep

\* The destructor drains: nothing it has drained is filled again.
LEMMA DrainDtor ==
  ASSUME SchedTypes, DtorInv, NEW p \in {"run", "drain"}, NEW c, RunnerMoves(Dtor, p, c),
         pc[Dtor] = "drain",
         \A v \in Workers : /\ deque'[v] # <<>> => deque[v] # <<>>
                            /\ ring[v] = <<>> => ring'[v] = <<>>,
         \/ stage' = stage
         \/ /\ stage' = stage + 1
            /\ \A v \in Workers : /\ stage = 2 * v => deque'[v] = <<>>
                                  /\ stage = 2 * v + 1 => ring'[v] = <<>>
  PROVE  DtorInv'
<1>1. /\ \A v \in Workers : pc'[v] = pc[v]
      /\ \A h \in Hosts : pc'[h] = pc[h]
      /\ pc'[Dtor] = p
  BY SpotFacts DEF RunnerMoves
<1>2. stage \in Nat /\ Workers \subseteq Nat
  BY SchedulerAssumption DEF SchedTypes, Workers
<1>3. \A v \in Workers : /\ stage' > 2 * v => stage > 2 * v \/ deque'[v] = <<>>
                         /\ stage' > 2 * v + 1 => stage > 2 * v + 1 \/ ring'[v] = <<>>
  <2> SUFFICES ASSUME NEW v \in Workers
      PROVE  /\ stage' > 2 * v => stage > 2 * v \/ deque'[v] = <<>>
             /\ stage' > 2 * v + 1 => stage > 2 * v + 1 \/ ring'[v] = <<>>
    OBVIOUS
  <2>1. PICK j \in Nat : j = stage
    BY <1>2
  <2>2. v \in Nat
    BY <1>2
  <2>3. CASE stage' = stage
    BY <2>3
  <2>4. CASE /\ stage' = stage + 1
             /\ \A u \in Workers : /\ stage = 2 * u => deque'[u] = <<>>
                                   /\ stage = 2 * u + 1 => ring'[u] = <<>>
    <3>1. /\ stage' > 2 * v => stage > 2 * v \/ stage = 2 * v
          /\ stage' > 2 * v + 1 => stage > 2 * v + 1 \/ stage = 2 * v + 1
      BY <2>1, <2>2, <2>4
    <3> QED BY <2>4, <3>1
  <2> QED BY <2>3, <2>4
<1>4. \A v \in Workers :
        /\ stage' > 2 * v /\ deque'[v] # <<>> => pc'[v] \in Running \cup {"seek"}
        /\ stage' > 2 * v + 1 => ring'[v] = <<>>
  BY <1>1, <1>3 DEF DtorInv
<1> QED BY <1>1, <1>4 DEF DtorInv

LEMMA DrainWorkerInv ==
  ASSUME SchedInv, DrainWorker
  PROVE  SchedInv' /\ OwingStays
<1>0. SchedTypes /\ HandInv /\ WorkInv /\ DtorInv /\ UniqueInv
  BY Parts DEF WorkInv
<1>1. /\ UNCHANGED <<workVars, queue, numaQ, left, nodeOf, myNode, todo, owed, log>>
      /\ pc[Dtor] = "drain" /\ pc[Dtor] \notin Running /\ Dtor \in Runners
      /\ cur[Dtor] = NoItem
  BY <1>0, SpotFacts DEF DrainWorker, workVars, numaVars, streamVars, ghosts, Running, HandInv
<1>2. PICK w \in Workers : w = stage \div 2 /\ (stage % 2 = 0 => stage = 2 * w)
                           /\ (stage % 2 # 0 => stage = 2 * w + 1)
  <2>1. stage \in Nat /\ NumThreads \in Nat \ {0} /\ stage < 2 * NumThreads
    BY <1>0, SchedulerAssumption DEF SchedTypes, DrainWorker
  <2>2. stage \div 2 \in 0..(NumThreads - 1)
    BY <2>1
  <2>3. (stage % 2 = 0 => stage = 2 * (stage \div 2))
        /\ (stage % 2 # 0 => stage = 2 * (stage \div 2) + 1)
    BY <2>1
  <2> QED BY <2>2, <2>3 DEF Workers
<1>3. /\ queue' \subseteq Items /\ numaQ' \in [Nodes -> SUBSET Items]
      /\ left' \in [Workers -> SUBSET Workers] /\ w \in Spots
  BY <1>0, <1>1, SpotFacts DEF SchedTypes
<1>4. CASE /\ deque[w] # <<>> /\ Took(Dtor, deque[w][Len(deque[w])])
           /\ deque' = [deque EXCEPT ![w] = SubSeq(@, 1, Len(@) - 1)]
           /\ UNCHANGED <<ring, stage>>
  <2>1. PICK e, rest : /\ e = deque[w][Len(deque[w])]
                       /\ rest = SubSeq(deque[w], 1, Len(deque[w]) - 1)
    OBVIOUS
  <2>2. Took(Dtor, e) /\ deque' = [deque EXCEPT ![w] = rest] /\ UNCHANGED <<ring, stage>>
    BY <1>4, <2>1
  <2>3. cur' = [cur EXCEPT ![Dtor] = e]
    BY <2>2 DEF Took
  <2>4. /\ Moved(e, Dtor) /\ NoRepeats' /\ Holds("deque", w, e) /\ e \in Items
        /\ rest \in Seq(Items)
    BY <1>0, <1>1, <1>4, <2>1, <2>2, <2>3, DequeGives
  <2>5. /\ deque' \in [Workers -> Seq(Items)] /\ ring' \in [Workers -> Seq(Items)]
        /\ \A v \in Workers : deque'[v] = IF v = w THEN rest ELSE deque[v]
    BY <1>0, <2>2, <2>4 DEF SchedTypes
  <2>6. RunnerMoves(Dtor, "run", e)
    BY <1>0, <1>1, <2>2, <2>4, TookMoves
  <2>7. DtorInv'
    BY <1>0, <1>1, <1>4, <2>2, <2>5, <2>6, DrainDtor
  <2>8. "deque" \in Kinds \ {"hand"}
    BY DEF Kinds
  <2> QED BY <1>1, <1>3, <2>2, <2>4, <2>5, <2>7, <2>8, RunnerTakes
<1>5. CASE /\ ring[w] # <<>> /\ Took(Dtor, Head(ring[w]))
           /\ ring' = [ring EXCEPT ![w] = Tail(@)]
           /\ UNCHANGED <<deque, stage>>
  <2>1. PICK e : e = Head(ring[w])
    OBVIOUS
  <2>2. Took(Dtor, e) /\ ring' = [ring EXCEPT ![w] = Tail(@)] /\ UNCHANGED <<deque, stage>>
    BY <1>5, <2>1
  <2>3. cur' = [cur EXCEPT ![Dtor] = e]
    BY <2>2 DEF Took
  <2>4. /\ Moved(e, Dtor) /\ NoRepeats' /\ Holds("ring", w, e) /\ e \in Items
        /\ Tail(ring[w]) \in Seq(Items)
    BY <1>0, <1>1, <1>5, <2>1, <2>2, <2>3, RingGives
  <2>5. /\ ring' \in [Workers -> Seq(Items)] /\ deque' \in [Workers -> Seq(Items)]
        /\ \A u \in Workers : ring'[u] = IF u = w THEN Tail(ring[w]) ELSE ring[u]
    BY <1>0, <2>2, <2>4 DEF SchedTypes
  <2>6. RunnerMoves(Dtor, "run", e)
    BY <1>0, <1>1, <2>2, <2>4, TookMoves
  <2>7. DtorInv'
    BY <1>0, <1>1, <1>5, <2>2, <2>5, <2>6, DrainDtor
  <2>8. "ring" \in Kinds \ {"hand"}
    BY DEF Kinds
  <2> QED BY <1>1, <1>3, <2>2, <2>4, <2>5, <2>7, <2>8, RunnerTakes
<1>6. CASE /\ IF stage % 2 = 0 THEN deque[w] = <<>> ELSE ring[w] = <<>>
           /\ stage' = stage + 1
           /\ UNCHANGED <<deque, ring, cur, pc>>
  <2>1. "drain" \in DtorPoints /\ "drain" \notin Running
    BY DEF DtorPoints, Running
  <2>2. RunnerMoves(Dtor, "drain", NoItem)
    BY <1>0, <1>1, <1>6, <2>1 DEF RunnerMoves, SchedTypes
  <2>3. \A v \in Workers : /\ stage = 2 * v => deque'[v] = <<>>
                           /\ stage = 2 * v + 1 => ring'[v] = <<>>
    <3> SUFFICES ASSUME NEW v \in Workers
                 PROVE  /\ stage = 2 * v => deque'[v] = <<>>
                        /\ stage = 2 * v + 1 => ring'[v] = <<>>
      OBVIOUS
    <3>1. v \in Nat /\ w \in Nat /\ stage \in Nat
      BY <1>0, SchedulerAssumption DEF Workers, SchedTypes
    <3>2. stage = 2 * v => stage % 2 = 0 /\ v = w
      BY <1>2, <3>1
    <3>3. stage = 2 * v + 1 => stage % 2 # 0 /\ v = w
      BY <1>2, <3>1
    <3> QED BY <1>6, <3>2, <3>3
  <2>4. DtorInv'
    BY <1>0, <1>1, <1>6, <2>2, <2>3, DrainDtor
  <2>5. stage' \in 0..(2 * NumThreads)
    <3>1. stage \in Nat /\ NumThreads \in Nat \ {0} /\ stage < 2 * NumThreads
      BY <1>0, SchedulerAssumption DEF SchedTypes, DrainWorker
    <3> QED BY <1>6, <3>1
  <2>6. UNCHANGED containers
    BY <1>1, <1>6 DEF containers
  <2> QED BY <1>1, <1>6, <2>1, <2>4, <2>5, <2>6, DtorQuiet
<1>7. \/ /\ deque[w] # <<>> /\ Took(Dtor, deque[w][Len(deque[w])])
         /\ deque' = [deque EXCEPT ![w] = SubSeq(@, 1, Len(@) - 1)]
         /\ UNCHANGED <<ring, stage>>
      \/ /\ ring[w] # <<>> /\ Took(Dtor, Head(ring[w]))
         /\ ring' = [ring EXCEPT ![w] = Tail(@)]
         /\ UNCHANGED <<deque, stage>>
      \/ /\ IF stage % 2 = 0 THEN deque[w] = <<>> ELSE ring[w] = <<>>
         /\ stage' = stage + 1
         /\ UNCHANGED <<deque, ring, cur, pc>>
  BY <1>2 DEF DrainWorker
<1> QED BY <1>4, <1>5, <1>6, <1>7

LEMMA DrainQueueInv ==
  ASSUME SchedInv, DrainQueue
  PROVE  SchedInv' /\ OwingStays
<1>0. SchedTypes /\ HandInv /\ WorkInv /\ DtorInv /\ UniqueInv
  BY Parts DEF WorkInv
<1>1. /\ UNCHANGED <<workVars, numaQ, deque, ring, left, nodeOf, myNode, todo, owed, log, stage>>
      /\ pc[Dtor] = "drain" /\ pc[Dtor] \notin Running /\ Dtor \in Runners
      /\ cur[Dtor] = NoItem /\ stage = 2 * NumThreads
  BY <1>0, SpotFacts DEF DrainQueue, workVars, numaVars, streamVars, ghosts, Running, HandInv
<1>2. /\ numaQ' \in [Nodes -> SUBSET Items] /\ left' \in [Workers -> SUBSET Workers]
      /\ deque' \in [Workers -> Seq(Items)] /\ ring' \in [Workers -> Seq(Items)]
      /\ stage' \in 0..(2 * NumThreads)
  BY <1>0, <1>1 DEF SchedTypes
<1>3. CASE queue # {}
  <2>1. PICK e \in queue : Took(Dtor, e) /\ queue' = queue \ {e}
    BY <1>3 DEF DrainQueue
  <2>3. cur' = [cur EXCEPT ![Dtor] = e]
    BY <2>1 DEF Took
  <2>4. Moved(e, Dtor) /\ NoRepeats' /\ Holds("queue", 0, e) /\ e \in Items
    BY <1>0, <1>1, <2>1, <2>3, QueueGives
  <2>5. queue' \subseteq Items
    BY <1>0, <2>1 DEF SchedTypes
  <2>6. RunnerMoves(Dtor, "run", e)
    BY <1>0, <1>1, <2>1, <2>4, TookMoves
  <2>7. DtorInv'
    BY <1>0, <1>1, <2>6, DrainDtor
  <2>8. "queue" \in Kinds \ {"hand"} /\ 0 \in Spots
    BY SpotFacts DEF Kinds
  <2> QED BY <1>1, <1>2, <2>1, <2>4, <2>5, <2>7, <2>8, RunnerTakes
<1>4. CASE queue = {}
  <2>1. pc' = [pc EXCEPT ![Dtor] = "join"] /\ UNCHANGED <<queue, cur>>
    BY <1>4 DEF DrainQueue, Goto
  <2>2. "join" \in DtorPoints /\ "join" \notin Running
    BY DEF DtorPoints, Running
  <2>3. UNCHANGED containers
    BY <1>1, <2>1 DEF containers
  <2>4. /\ \A v \in Workers : pc'[v] = pc[v]
        /\ \A h \in Hosts : pc'[h] = pc[h]
        /\ pc'[Dtor] = "join"
    BY <1>0, <2>1, SpotFacts DEF SchedTypes
  <2>5. DtorInv'
    BY <1>0, <1>1, <1>4, <2>1, <2>4 DEF DtorInv
  <2> QED BY <1>1, <1>2, <2>1, <2>2, <2>3, <2>5, DtorQuiet
<1> QED BY <1>3, <1>4

LEMMA BeginAndJoin ==
  ASSUME SchedInv, BeginDtor \/ Join
  PROVE  SchedInv' /\ OwingStays
<1>0. SchedTypes /\ HandInv /\ WorkInv /\ DtorInv
  BY Parts
<1>1. /\ UNCHANGED <<containers, workVars, left, nodeOf, myNode, todo, owed, log, stage>>
      /\ pc[Dtor] \notin Running
  BY DEF BeginDtor, Join, workVars, containers, numaVars, streamVars, ghosts, Running
<1>2. stage' \in 0..(2 * NumThreads)
  BY <1>0, <1>1 DEF SchedTypes
<1>3. CASE BeginDtor
  <2>1. pc' = [pc EXCEPT ![Dtor] = "drain"] /\ "drain" \in DtorPoints /\ "drain" \notin Running
    BY <1>3 DEF BeginDtor, Goto, DtorPoints, Running
  <2>2. /\ \A h \in Hosts : pc'[h] = "idle"
        /\ pc'[Dtor] = "drain" /\ stage' = 0
    BY <1>0, <1>1, <1>3, <2>1, SpotFacts DEF SchedTypes, BeginDtor, DtorInv
  <2>3. \A w \in Workers : ~(stage' > 2 * w) /\ ~(stage' > 2 * w + 1)
    BY <2>2 DEF Workers
  <2>4. DtorInv'
    BY <2>2, <2>3 DEF DtorInv
  <2> QED BY <1>1, <1>2, <2>1, <2>4, DtorQuiet
<1>4. CASE Join
  <2>1. pc' = [pc EXCEPT ![Dtor] = "dead"] /\ "dead" \in DtorPoints /\ "dead" \notin Running
    BY <1>4 DEF Join, Goto, DtorPoints, Running
  <2>2. /\ \A v \in Workers : pc'[v] = pc[v]
        /\ \A h \in Hosts : pc'[h] = pc[h]
        /\ pc'[Dtor] = "dead"
    BY <1>0, <2>1, SpotFacts DEF SchedTypes
  <2>3. queue' = queue /\ deque' = deque /\ ring' = ring /\ stage' = stage
    BY <1>1 DEF containers
  <2>4. DtorInv'
    BY <1>0, <1>4, <2>2, <2>3 DEF DtorInv, Join
  <2> QED BY <1>1, <1>2, <2>1, <2>4, DtorQuiet
<1> QED BY <1>3, <1>4

-----------------------------------------------------------------------------
(* The theorems *)

LEMMA SchedInvInit == Init => SchedInv
<1> SUFFICES ASSUME Init PROVE SchedInv
  OBVIOUS
<1>0. \A x : ~In(<<>>, x) /\ Inj(<<>>)
  BY DEF In, Inj
<1>1. /\ \A w \in Workers : pc[w] = "start"
      /\ pc[Dtor] = "alive" /\ \A h \in Hosts : pc[h] = "idle"
      /\ DOMAIN pc = Runners \cup Hosts
  BY SpotFacts DEF Init
<1>2. \A r \in Runners : pc[r] \in {"start", "alive"} /\ cur[r] = NoItem
  BY <1>1 DEF Runners, Init
<1>3. \A k \in Kinds, n \in Spots, it \in Items : ~Holds(k, n, it)
  BY <1>0, <1>2, SpotFacts DEF Init, Holds
<1>4. SchedTypes
  <2>1. <<>> \in Seq(StreamTasks) /\ <<>> \in Seq(Items)
    OBVIOUS
  <2>2. stage \in 0..(2 * NumThreads)
    BY SchedulerAssumption DEF Init
  <2> QED BY <1>1, <2>1, <2>2 DEF Init, SchedTypes, WorkerPoints, DtorPoints, HostPoints
<1>5. HandInv
  BY <1>2 DEF HandInv, Running
<1>6. HostInv
  BY <1>1 DEF HostInv, Submitting
<1>7. KindInv /\ UniqueInv
  BY <1>0, <1>3 DEF KindInv, UniqueInv, Init
<1>8. RunInv
  BY <1>1, <1>3 DEF RunInv, Full, Init
<1>9. StreamInv
  BY <1>1, <1>3 DEF StreamInv, Starts, Serves, Init
<1>10. PendInv
  BY <1>0, <1>2 DEF PendInv, Init
<1>11. DtorInv
  <2>1. stage = 0 /\ \A w \in Workers : ~(stage > 2 * w) /\ ~(stage > 2 * w + 1)
    BY DEF Init, Workers
  <2> QED BY <1>1, <2>1 DEF DtorInv
<1> QED BY <1>4, <1>5, <1>6, <1>7, <1>8, <1>9, <1>10, <1>11 DEF SchedInv

LEMMA RunStepInv ==
  ASSUME SchedInv, NEW r \in Runners, RunStep(r)
  PROVE  SchedInv'
BY RunItemInv, FinishInv, SpillInv, AccountInv DEF RunStep

LEMMA SchedInvStep == SchedInv /\ [Step]_stepVars => SchedInv'
<1> SUFFICES ASSUME SchedInv, [Step]_stepVars PROVE SchedInv'
  OBVIOUS
<1>1. CASE BuildNumaTopology
  BY <1>1, TopologyInv
<1>2. ASSUME NEW h \in Hosts, HostStep(h) PROVE SchedInv'
  BY <1>2, HostQuietSteps, StreamPushStep, StreamEnqueueStep, SubmitConcurrentStep, SubmitNumaStep,
     EnqueueToStreamStep, RingFullStep DEF HostStep
<1>3. ASSUME NEW w \in Workers, WorkerStep(w) PROVE SchedInv'
  <2>1. w \in Runners
    BY SpotFacts
  <2> QED BY <1>3, <2>1, QuietWorkers, PopOwnStep, TryStealStep, PopRingStep, LockAndLookStep,
             RunStepInv DEF WorkerStep
<1>4. CASE DtorStep
  <2>1. Dtor \in Runners
    BY SpotFacts
  <2> QED BY <1>4, <2>1, BeginAndJoin, DrainWorkerInv, DrainQueueInv, RunStepInv DEF DtorStep
<1>5. CASE UNCHANGED stepVars
  <2>1. UNCHANGED <<containers, workVars, pc, todo>>
    BY <1>5 DEF stepVars, containers, workVars
  <2>2. SchedTypes' /\ HandInv' /\ HostInv' /\ DtorInv'
    <3>0. SchedTypes /\ HandInv /\ HostInv /\ DtorInv
      BY Parts
    <3>1. SchedTypes'
      BY <1>5, <3>0 DEF stepVars, SchedTypes
    <3>2. HandInv' /\ HostInv' /\ DtorInv'
      BY <1>5, <3>0 DEF stepVars, HandInv, HostInv, DtorInv
    <3> QED BY <3>1, <3>2
  <2>3. PhasesStay /\ HostsStay
    BY <2>1 DEF PhasesStay, HostsStay, containers
  <2>4. SchedTypes /\ HandInv /\ WorkInv
    BY Parts
  <2>5. Same /\ NoRepeats'
    BY <2>1, <2>4, NothingMoves DEF WorkInv, UniqueInv, NoRepeats
  <2>6. WorkInv'
    BY <2>1, <2>3, <2>4, <2>5, QuietStep
  <2> QED BY <2>2, <2>6, Parts
<1> QED BY <1>1, <1>2, <1>3, <1>4, <1>5 DEF Step

\* A collision is never forgotten: as long as there is none, every step is one in
\* which the owners are alone.
LEMMA AloneSoFar == [Next]_vars /\ collided' = "no" => collided = "no" /\ [Step]_stepVars
<1> SUFFICES ASSUME [Next]_vars, collided' = "no" PROVE collided = "no" /\ [Step]_stepVars
  OBVIOUS
<1>1. CASE Alone /\ Step
  BY <1>1 DEF Alone
<1>2. CASE Race
  BY <1>2 DEF Race, TakenTwice, PopsOverlap, FinishLost, PushOverlaps
<1>3. CASE UNCHANGED vars
  BY <1>3 DEF vars
<1> QED BY <1>1, <1>2, <1>3 DEF Next

\* The scheduler's invariant, as long as no deque or ring had two owners at once: every
\* task's item is in at most one place, each stream with work has exactly one server,
\* which has its front task, a task runs at most once, and what ~Scheduler has drained
\* stays drained but for what a running worker adds.
THEOREM SchedInvAlways == Spec => [](collided = "no" => SchedInv)
<1>1. Init => SchedInv
  BY SchedInvInit
<1>2. SchedInv /\ [Step]_stepVars => SchedInv'
  BY SchedInvStep
<1>3. (collided = "no" => SchedInv) /\ [Next]_vars => (collided = "no" => SchedInv)'
  BY <1>2, AloneSoFar
<1> QED BY <1>1, <1>3, PTL DEF Spec

LEMMA SchedInvGivesNothingDropped == SchedInv => NothingDropped
<1> SUFFICES ASSUME SchedInv, pc[Dtor] = "dead", NEW x \in accepted \ (emptied \cup NumaTasks)
             PROVE  runs[x] = 1
  BY DEF NothingDropped
<1>0. SchedTypes /\ HandInv /\ HostInv /\ WorkInv /\ DtorInv
  BY Parts
<1>1. /\ \A h \in Hosts : pc[h] = "idle"
      /\ \A w \in Workers : pc[w] = "exited"
      /\ stage = 2 * NumThreads /\ queue = {}
  BY <1>0 DEF DtorInv
<1>2. \A w \in Workers : deque[w] = <<>> /\ ring[w] = <<>>
  <2> SUFFICES ASSUME NEW w \in Workers PROVE deque[w] = <<>> /\ ring[w] = <<>>
    OBVIOUS
  <2>1. stage > 2 * w /\ stage > 2 * w + 1
    BY <1>1, SchedulerAssumption DEF Workers
  <2> QED BY <1>0, <1>1, <2>1 DEF DtorInv, Running
<1>3. \A r \in Runners : cur[r] = NoItem
  BY <1>0, <1>1 DEF HandInv, Runners, Running
<1>4. \A k \in Kinds, n \in Spots, it \in Items : Holds(k, n, it) => k = "node"
  <2>1. \A y : ~In(<<>>, y)
    BY DEF In
  <2> QED BY <1>1, <1>2, <1>3, <2>1, SpotFacts DEF Holds
<1>5. \A k \in Kinds, n \in Spots, it \in Items : Holds(k, n, it) => it.task \in NumaTasks
  BY <1>0, <1>4 DEF WorkInv, KindInv
<1>6. ~Full(x) /\ ~Held(x)
  BY <1>1, <1>5 DEF Full, Held
<1>7. CASE x \notin StreamTasks
  BY <1>0, <1>6, <1>7 DEF WorkInv, RunInv
<1>8. CASE x \in StreamTasks
  <2>1. PICK s \in Streams : s = StreamOf[x]
    BY <1>8 DEF Streams
  <2>2. \A k \in Kinds, n \in Spots, it \in Items : ~Serves(k, n, it, s)
    <3>1. \A k \in Kinds, n \in Spots, it \in Items :
            Holds(k, n, it) => it.kind # "stream"
      BY <1>0, <1>5, SchedulerAssumption DEF WorkInv, KindInv
    <3> QED BY <3>1 DEF Serves, Of
  <2>3. \A h \in Hosts : ~Starts(h, s)
    BY <1>1 DEF Starts
  <2>4. pend[s] = <<>>
    BY <1>0, <2>2, <2>3 DEF WorkInv, StreamInv
  <2>5. ~In(pend[s], x)
    BY <2>4 DEF In
  <2> QED BY <1>0, <1>8, <2>1, <2>5 DEF WorkInv, RunInv
<1> QED BY <1>7, <1>8

\* When ~Scheduler has returned and none of its pops has overlapped one of the worker's
\* own, every accepted task has run, whichever container its item was in and whether the
\* destructor or a worker got to it first, except those that met a full ring and those
\* of the NUMA queues, which the destructor does not drain.  What it drops otherwise, it
\* drops through two pops or pushes at once on one deque.
THEOREM DestructorDropsNothing == Spec => []DroppedByRaceOnly
<1>1. Spec => [](collided = "no" => SchedInv)
  BY SchedInvAlways
<1>2. (collided = "no" => SchedInv) => DroppedByRaceOnly
  BY SchedInvGivesNothingDropped DEF DroppedByRaceOnly
<1> QED BY <1>1, <1>2, PTL

-----------------------------------------------------------------------------
(* The scheduler implements StreamOrder *)

\* A runner has run the front task of stream s and has not yet retired it.
Retires(s) == \E r \in Runners : InStream(r, s) /\ pc[r] = "finish"

LEMMA WaitingIs ==
  /\ Waiting = [s \in Streams |-> IF Retires(s) THEN Tail(pend[s]) ELSE pend[s]]
  /\ Waiting' = [s \in Streams |-> IF Retires(s)' THEN Tail(pend'[s]) ELSE pend'[s]]
BY DEF Waiting, Retires

\* Most steps move no task of a stream.
LEMMA OrderStutters ==
  ASSUME \A r \in Runners : /\ pc'[r] = "finish" <=> pc[r] = "finish"
                            /\ pc[r] = "finish" => cur'[r] = cur[r],
         UNCHANGED <<pend, log>>
  PROVE  UNCHANGED <<Waiting, log>>
<1>1. \A s \in Streams : Retires(s)' <=> Retires(s)
  BY DEF Retires, InStream
<1> QED BY <1>1, WaitingIs

LEMMA PushSubmits ==
  ASSUME SchedInv, NEW h \in Hosts, StreamPush(h)
  PROVE  Order!Next
<1>0. SchedTypes /\ HandInv /\ HostInv /\ WorkInv
  BY Parts
<1>1. PICK x \in StreamTasks : x = todo[h]
  BY <1>0 DEF StreamPush, HostInv
<1>2. PICK z \in Streams : z = StreamOf[x]
  BY DEF Streams
<1>3. /\ pend' = [pend EXCEPT ![z] = Append(@, x)] /\ log' = log /\ cur' = cur
  BY <1>1, <1>2 DEF StreamPush
<1>4. \A r \in Runners : pc'[r] = pc[r]
  BY <1>0, SpotFacts DEF StreamPush, Goto, SchedTypes
<1>5. \A s \in Streams : Retires(s)' <=> Retires(s)
  BY <1>3, <1>4 DEF Retires, InStream
<1>6. \A s \in Streams : pend'[s] = IF s = z THEN Append(pend[s], x) ELSE pend[s]
  BY <1>0, <1>3 DEF SchedTypes
<1>7. Retires(z) => Tail(Append(pend[z], x)) = Append(Tail(pend[z]), x)
  <2> SUFFICES ASSUME Retires(z) PROVE Tail(Append(pend[z], x)) = Append(Tail(pend[z]), x)
    OBVIOUS
  <2>1. PICK r \in Runners : InStream(r, z) /\ pc[r] = "finish"
    BY DEF Retires
  <2>2. Retiring(r, z)
    BY <1>0, <2>1, FinishFacts DEF InStream
  <2>3. pend[z] \in Seq(StreamTasks) /\ pend[z] # <<>>
    BY <2>2 DEF Retiring
  <2> QED BY <2>3
<1>8. Waiting' = [Waiting EXCEPT ![z] = Append(@, x)]
  <2>1. \A s \in Streams : (IF Retires(s)' THEN Tail(pend'[s]) ELSE pend'[s]) =
          IF s = z THEN Append(IF Retires(s) THEN Tail(pend[s]) ELSE pend[s], x)
                   ELSE IF Retires(s) THEN Tail(pend[s]) ELSE pend[s]
    BY <1>5, <1>6, <1>7
  <2> QED BY <2>1, WaitingIs
<1>9. Order!Submit(z, x)
  BY <1>3, <1>8 DEF Order!Submit
<1> QED BY <1>9 DEF Order!Next

LEMMA RunItemRuns ==
  ASSUME SchedInv, NEW r \in Runners, RunItem(r)
  PROVE  Order!Next \/ UNCHANGED <<Waiting, log>>
<1>0. SchedTypes /\ HandInv /\ HostInv /\ WorkInv
  BY Parts
<1>1. pc[r] = "run" /\ pc[r] \in Running
  BY DEF RunItem, Running
<1>2. cur' = cur /\ pend' = pend
  BY DEF RunItem, streamVars
<1>3. CASE cur[r].kind # "stream"
  <2>1. log' = log /\ pc' = [pc EXCEPT ![r] = "account"]
    BY <1>3 DEF RunItem, Goto
  <2>2. \A n \in Runners : pc'[n] = IF n = r THEN "account" ELSE pc[n]
    BY <1>0, <2>1 DEF SchedTypes
  <2> QED BY <1>1, <1>2, <2>1, <2>2, OrderStutters
<1>4. CASE cur[r].kind = "stream"
  <2>1. PICK e \in Items : e = cur[r] /\ Holds("hand", r, e) /\ "hand" \in Kinds /\ r \in Spots
    BY <1>0, <1>1, InHand
  <2>2. PICK x \in StreamTasks : x = e.task
    BY <1>0, <1>4, <2>1 DEF WorkInv, KindInv
  <2>3. PICK z \in Streams : z = StreamOf[x]
    BY DEF Streams
  <2>4. Serves("hand", r, e, z) /\ ~Spilling("hand", r)
    BY <1>1, <1>4, <2>1, <2>2, <2>3 DEF Serves, Of, Spilling
  <2>5. /\ x = pend[z][1] /\ pend[z] # <<>>
        /\ \A k \in Kinds, n \in Spots, it \in Items : Serves(k, n, it, z) =>
             k = "hand" /\ n = r /\ it = e
    BY <1>0, <2>1, <2>2, <2>4 DEF WorkInv, StreamInv
  <2>6. Head(pend[z]) = x
    BY <1>0, <2>5, FirstPending
  <2>7. \A n \in Runners : pc'[n] = IF n = r THEN "finish" ELSE pc[n]
    BY <1>0, <1>4 DEF RunItem, Goto, SchedTypes
  <2>8. ~Retires(z)
    <3> SUFFICES ASSUME NEW n \in Runners, InStream(n, z), pc[n] = "finish" PROVE FALSE
      BY DEF Retires
    <3>1. Retiring(n, z)
      BY <1>0, FinishFacts DEF InStream
    <3>2. n = r
      BY <2>5, <3>1 DEF Retiring
    <3> QED BY <1>1, <3>2
  <2>9. Retires(z)'
    BY <1>2, <1>4, <2>1, <2>2, <2>3, <2>7 DEF Retires, InStream
  <2>10. \A s \in Streams : s # z => (Retires(s)' <=> Retires(s))
    BY <1>1, <1>2, <2>1, <2>2, <2>3, <2>7 DEF Retires, InStream
  <2>11. Waiting' = [Waiting EXCEPT ![z] = Tail(@)]
    <3>1. \A s \in Streams : (IF Retires(s)' THEN Tail(pend'[s]) ELSE pend'[s]) =
            IF s = z THEN Tail(IF Retires(s) THEN Tail(pend[s]) ELSE pend[s])
                     ELSE IF Retires(s) THEN Tail(pend[s]) ELSE pend[s]
      BY <1>2, <2>8, <2>9, <2>10
    <3> QED BY <3>1, WaitingIs
  <2>12. Waiting[z] = pend[z]
    BY <2>8, WaitingIs
  <2>13. log' = [log EXCEPT ![z] = Append(@, x)]
    BY <1>4, <2>1, <2>2, <2>3 DEF RunItem
  <2>14. Order!Run(z)
    BY <2>5, <2>6, <2>11, <2>12, <2>13 DEF Order!Run
  <2> QED BY <2>14 DEF Order!Next
<1> QED BY <1>3, <1>4

LEMMA FinishStutters ==
  ASSUME SchedInv, NEW r \in Runners, Finish(r)
  PROVE  UNCHANGED <<Waiting, log>>
<1>0. SchedTypes /\ HandInv /\ HostInv /\ WorkInv
  BY Parts
<1>1. pc[r] = "finish"
  BY DEF Finish
<1>2. PICK z \in Streams : z = StreamOf[cur[r].task]
  BY <1>0, <1>1, RunnerServes
<1>3. Retiring(r, z) /\ cur[r].kind = "stream"
  BY <1>0, <1>1, <1>2, FinishFacts, RunnerServes
<1>4. pend' = [pend EXCEPT ![z] = Tail(pend[z])] /\ log' = log /\ cur' = cur
  BY <1>2 DEF Finish, ghosts
<1>5. \A s \in Streams : pend'[s] = IF s = z THEN Tail(pend[z]) ELSE pend[s]
  BY <1>0, <1>4 DEF SchedTypes
<1>6. \A n \in Runners : /\ n # r => pc'[n] = pc[n]
                         /\ pc'[r] # "finish"
  <2>1. PICK p \in {"account", "spill"} : pc' = [pc EXCEPT ![r] = p]
    BY DEF Finish, Goto
  <2> QED BY <1>0, <2>1 DEF SchedTypes
<1>7. Retires(z)
  BY <1>1, <1>2, <1>3 DEF Retires, InStream
<1>8. ~Retires(z)'
  <2> SUFFICES ASSUME NEW n \in Runners, InStream(n, z)', pc'[n] = "finish" PROVE FALSE
    BY DEF Retires
  <2>1. n # r /\ pc[n] = "finish" /\ InStream(n, z)
    BY <1>4, <1>6 DEF InStream
  <2>2. Retiring(n, z)
    BY <1>0, <2>1, FinishFacts DEF InStream
  <2> QED BY <1>3, <2>1, <2>2 DEF Retiring
<1>9. \A s \in Streams : s # z => (Retires(s)' <=> Retires(s))
  BY <1>2, <1>4, <1>6 DEF Retires, InStream
<1>10. \A s \in Streams : (IF Retires(s)' THEN Tail(pend'[s]) ELSE pend'[s]) =
                          IF Retires(s) THEN Tail(pend[s]) ELSE pend[s]
  BY <1>5, <1>7, <1>8, <1>9
<1> QED BY <1>4, <1>10, WaitingIs

LEMMA HostStutters ==
  ASSUME SchedInv, NEW h \in Hosts,
         pc' = pc \/ \E p \in HostPoints : pc' = [pc EXCEPT ![h] = p],
         UNCHANGED <<cur, pend, log>>
  PROVE  UNCHANGED <<Waiting, log>>
<1>1. DOMAIN pc = Runners \cup Hosts
  BY Parts DEF SchedTypes
<1>2. \A r \in Runners : pc'[r] = pc[r]
  BY <1>1, SpotFacts
<1> QED BY <1>2, OrderStutters

LEMMA RunnerStutters ==
  ASSUME SchedInv, NEW r \in Runners, pc[r] # "finish",
         pc' = pc \/ \E p \in (WorkerPoints \cup DtorPoints) \ {"finish"} : pc' = [pc EXCEPT ![r] = p],
         cur' = cur \/ \E e : cur' = [cur EXCEPT ![r] = e],
         UNCHANGED <<pend, log>>
  PROVE  UNCHANGED <<Waiting, log>>
<1>0. DOMAIN pc = Runners \cup Hosts /\ DOMAIN cur = Runners
  BY Parts DEF SchedTypes
<1>1. \A n \in Runners : n # r => pc'[n] = pc[n]
  BY <1>0
<1>2. \A n \in Runners : n # r => cur'[n] = cur[n]
  BY <1>0
<1>3. pc'[r] # "finish"
  BY <1>0
<1> QED BY <1>1, <1>2, <1>3, OrderStutters

\* Every host step other than the push into the stream's queue is a stutter.
LEMMA HostStepsOrder ==
  ASSUME SchedInv, NEW h \in Hosts, HostStep(h)
  PROVE  Order!Next \/ UNCHANGED <<Waiting, log>>
<1>1. CASE StreamPush(h)
  BY <1>1, PushSubmits
<1>2. CASE \E x \in Tasks : \/ SubmitStreamTask(h, x)
                            \/ SubmitConcurrentTask(h, x)
                            \/ SubmitNumaTask(h, x)
  <2>1. \E p \in HostPoints : pc' = [pc EXCEPT ![h] = p]
    BY <1>2 DEF SubmitStreamTask, SubmitConcurrentTask, SubmitNumaTask, Goto, HostPoints, Submitting
  <2>2. UNCHANGED <<cur, pend, log>>
    BY <1>2 DEF SubmitStreamTask, SubmitConcurrentTask, SubmitNumaTask, streamVars, ghosts
  <2> QED BY <2>1, <2>2, HostStutters
<1>3. CASE \E x \in Tasks : EnqueueToStream(h, x)
  <2>1. \E p \in HostPoints : pc' = [pc EXCEPT ![h] = p]
    BY <1>3 DEF EnqueueToStream, Goto, HostPoints, Submitting
  <2>2. UNCHANGED <<cur, pend, log>>
    BY <1>3 DEF EnqueueToStream, streamVars
  <2> QED BY <2>1, <2>2, HostStutters
<1>4. CASE StreamEnqueue(h) \/ CountAndNotify(h) \/ RingFull(h) \/ CountAndNotifyOne(h)
  <2>1. \E p \in HostPoints : pc' = [pc EXCEPT ![h] = p]
    BY <1>4 DEF StreamEnqueue, CountAndNotify, RingFull, CountAndNotifyOne, Goto, HostPoints,
                Submitting
  <2>2. UNCHANGED <<cur, pend, log>>
    BY <1>4 DEF StreamEnqueue, CountAndNotify, RingFull, CountAndNotifyOne, streamVars, ghosts
  <2> QED BY <2>1, <2>2, HostStutters
<1>5. CASE WaitAll(h) \/ WaitAllDone(h) \/ WaitAllTick(h) \/ \E s \in Streams : WaitStream(h, s)
  <2>1. pc' = pc \/ \E p \in HostPoints : pc' = [pc EXCEPT ![h] = p]
    BY <1>5 DEF WaitAll, WaitAllDone, WaitAllTick, WaitStream, Goto, HostPoints
  <2>2. UNCHANGED <<cur, pend, log>>
    BY <1>5 DEF WaitAll, WaitAllDone, WaitAllTick, WaitStream, streamVars, ghosts
  <2> QED BY <2>1, <2>2, HostStutters
<1>6. CASE WaitStreamLook(h) \/ WaitStreamDone(h) \/ WaitTimeout(h) \/ WaitReturn(h)
  <2>1. \E p \in HostPoints : pc' = [pc EXCEPT ![h] = p]
    BY <1>6 DEF WaitStreamLook, WaitStreamDone, WaitTimeout, WaitReturn, Goto, HostPoints
  <2>2. UNCHANGED <<cur, pend, log>>
    BY <1>6 DEF WaitStreamLook, WaitStreamDone, WaitTimeout, WaitReturn, streamVars, ghosts
  <2> QED BY <2>1, <2>2, HostStutters
<1> QED BY <1>1, <1>2, <1>3, <1>4, <1>5, <1>6 DEF HostStep

LEMMA RunStepsOrder ==
  ASSUME SchedInv, NEW r \in Runners, RunStep(r)
  PROVE  Order!Next \/ UNCHANGED <<Waiting, log>>
<1>1. CASE RunItem(r)
  BY <1>1, RunItemRuns
<1>2. CASE Finish(r)
  BY <1>2, FinishStutters
<1>3. CASE Spill(r)
  <2>1. /\ pc[r] # "finish"
        /\ \E p \in (WorkerPoints \cup DtorPoints) \ {"finish"} : pc' = [pc EXCEPT ![r] = p]
    BY <1>3 DEF Spill, Goto, WorkerPoints, Running
  <2>2. UNCHANGED <<cur, pend, log>>
    BY <1>3 DEF Spill, ghosts
  <2> QED BY <2>1, <2>2, RunnerStutters
<1>4. CASE Account(r)
  <2>1. /\ pc[r] # "finish"
        /\ \E p \in (WorkerPoints \cup DtorPoints) \ {"finish"} : pc' = [pc EXCEPT ![r] = p]
    BY <1>4 DEF Account, Goto, WorkerPoints, DtorPoints
  <2>2. UNCHANGED <<pend, log>> /\ \E e : cur' = [cur EXCEPT ![r] = e]
    BY <1>4 DEF Account, ghosts, streamVars
  <2> QED BY <2>1, <2>2, RunnerStutters
<1> QED BY <1>1, <1>2, <1>3, <1>4 DEF RunStep

LEMMA WorkerStepsOrder ==
  ASSUME SchedInv, NEW w \in Workers, WorkerStep(w)
  PROVE  Order!Next \/ UNCHANGED <<Waiting, log>>
<1>0. w \in Runners
  BY SpotFacts
<1>1. CASE RunStep(w)
  BY <1>0, <1>1, RunStepsOrder
<1>2. CASE WorkerStart(w) \/ Block(w) \/ Unblock(w)
  <2>1. /\ pc[w] # "finish"
        /\ \E p \in (WorkerPoints \cup DtorPoints) \ {"finish"} : pc' = [pc EXCEPT ![w] = p]
    BY <1>2 DEF WorkerStart, Block, Unblock, Goto, WorkerPoints
  <2>2. UNCHANGED <<cur, pend, log>>
    BY <1>2 DEF WorkerStart, Block, Unblock, ghosts, streamVars
  <2> QED BY <1>0, <2>1, <2>2, RunnerStutters
<1>3. CASE PopOwn(w) \/ TrySteal(w) \/ PopRing(w)
  <2>1. pc[w] # "finish"
    BY <1>3 DEF PopOwn, TrySteal, PopRing
  <2>2. pc' = pc \/ \E p \in (WorkerPoints \cup DtorPoints) \ {"finish"} : pc' = [pc EXCEPT ![w] = p]
    BY <1>3 DEF PopOwn, TrySteal, PopRing, Took, Goto, WorkerPoints, Running
  <2>3. cur' = cur \/ \E e : cur' = [cur EXCEPT ![w] = e]
    BY <1>3 DEF PopOwn, TrySteal, PopRing, Took
  <2>4. UNCHANGED <<pend, log>>
    BY <1>3 DEF PopOwn, TrySteal, PopRing, ghosts, streamVars
  <2> QED BY <1>0, <2>1, <2>2, <2>3, <2>4, RunnerStutters
<1>4. CASE LockAndLook(w)
  <2>1. pc[w] # "finish"
    BY <1>4 DEF LockAndLook
  <2>2. pc' = pc \/ \E p \in (WorkerPoints \cup DtorPoints) \ {"finish"} : pc' = [pc EXCEPT ![w] = p]
    BY <1>4 DEF LockAndLook, Took, Goto, WorkerPoints, Running
  <2>3. cur' = cur \/ \E e : cur' = [cur EXCEPT ![w] = e]
    BY <1>4 DEF LockAndLook, Took
  <2>4. UNCHANGED <<pend, log>>
    BY <1>4 DEF LockAndLook, ghosts, streamVars
  <2> QED BY <1>0, <2>1, <2>2, <2>3, <2>4, RunnerStutters
<1> QED BY <1>1, <1>2, <1>3, <1>4, WorkerStep(w) DEF WorkerStep

LEMMA DtorStepsOrder ==
  ASSUME SchedInv, DtorStep
  PROVE  Order!Next \/ UNCHANGED <<Waiting, log>>
<1>0. Dtor \in Runners
  BY SpotFacts
<1>1. CASE RunStep(Dtor)
  BY <1>0, <1>1, RunStepsOrder
<1>2. CASE BeginDtor \/ Join
  <2>1. /\ pc[Dtor] # "finish"
        /\ \E p \in (WorkerPoints \cup DtorPoints) \ {"finish"} : pc' = [pc EXCEPT ![Dtor] = p]
    BY <1>2 DEF BeginDtor, Join, Goto, DtorPoints
  <2>2. UNCHANGED <<cur, pend, log>>
    BY <1>2 DEF BeginDtor, Join, ghosts, streamVars
  <2> QED BY <1>0, <2>1, <2>2, RunnerStutters
<1>3. CASE DrainWorker \/ DrainQueue
  <2>1. pc[Dtor] # "finish"
    BY <1>3 DEF DrainWorker, DrainQueue
  <2>2. pc' = pc \/ \E p \in (WorkerPoints \cup DtorPoints) \ {"finish"} : pc' = [pc EXCEPT ![Dtor] = p]
    BY <1>3 DEF DrainWorker, DrainQueue, Took, Goto, DtorPoints, Running
  <2>3. cur' = cur \/ \E e : cur' = [cur EXCEPT ![Dtor] = e]
    BY <1>3 DEF DrainWorker, DrainQueue, Took
  <2>4. UNCHANGED <<pend, log>>
    BY <1>3 DEF DrainWorker, DrainQueue, ghosts, streamVars
  <2> QED BY <1>0, <2>1, <2>2, <2>3, <2>4, RunnerStutters
<1> QED BY <1>1, <1>2, <1>3, DtorStep DEF DtorStep

LEMMA OrderInit == Init => Order!Init
<1> SUFFICES ASSUME Init PROVE Order!Init
  OBVIOUS
<1>1. \A r \in Runners : pc[r] # "finish"
  BY SpotFacts DEF Init, Runners
<1>2. \A s \in Streams : ~Retires(s)
  BY <1>1 DEF Retires
<1>3. pend = [s \in Streams |-> <<>>] /\ log = [s \in Streams |-> <<>>]
  BY DEF Init
<1>4. Waiting = [s \in Streams |-> <<>>]
  BY <1>2, <1>3, WaitingIs
<1> QED BY <1>3, <1>4 DEF Order!Init

LEMMA OrderStep == SchedInv /\ [Step]_stepVars => [Order!Next]_(Order!orderVars)
<1> SUFFICES ASSUME SchedInv, [Step]_stepVars PROVE Order!Next \/ UNCHANGED <<Waiting, log>>
  BY DEF Order!orderVars
<1>1. CASE BuildNumaTopology
  BY <1>1, OrderStutters DEF BuildNumaTopology, streamVars, ghosts
<1>2. ASSUME NEW h \in Hosts, HostStep(h) PROVE Order!Next \/ UNCHANGED <<Waiting, log>>
  BY <1>2, HostStepsOrder
<1>3. ASSUME NEW w \in Workers, WorkerStep(w) PROVE Order!Next \/ UNCHANGED <<Waiting, log>>
  BY <1>3, WorkerStepsOrder
<1>4. CASE DtorStep
  BY <1>4, DtorStepsOrder
<1>5. CASE UNCHANGED stepVars
  BY <1>5, OrderStutters DEF stepVars
<1> QED BY <1>1, <1>2, <1>3, <1>4, <1>5 DEF Step

\* The scheduler implements StreamOrder in every run in which no call of a deque or ring
\* overlaps its owner's: the tasks of each stream run once each and in submission order,
\* whichever workers run them and however their items travel between deques and queue_.
\* Without that hypothesis it is false: an item that ~Scheduler and its worker both pop
\* is in two hands.
THEOREM StreamOrderHolds == Spec /\ [](collided = "no") => ImplementsStreamOrder
<1>1. Init => Order!Init
  BY OrderInit
<1>2. (collided = "no")' /\ SchedInv /\ [Next]_vars => [Order!Next]_(Order!orderVars)
  BY OrderStep, AloneSoFar
<1>3. Spec => [](collided = "no" => SchedInv)
  BY SchedInvAlways
<1> QED BY <1>1, <1>2, <1>3, PTL DEF Spec, ImplementsStreamOrder, Order!Spec

-----------------------------------------------------------------------------
(* The count *)

LEMMA OwingAccepted ==
  ASSUME SchedInv, NEW x \in Tasks, Owing(x)
  PROVE  x \in accepted
<1>0. SchedTypes /\ HostInv /\ WorkInv
  BY Parts
<1>1. CASE Held(x)
  BY <1>0, <1>1 DEF Held, WorkInv, KindInv
<1>2. CASE Full(x)
  BY <1>0, <1>2 DEF Full, HostInv
<1>3. CASE x \in StreamTasks /\ In(pend[StreamOf[x]], x)
  BY <1>0, <1>3 DEF In, WorkInv, PendInv, Streams
<1> QED BY <1>1, <1>2, <1>3 DEF Owing

LEMMA PushOwes ==
  ASSUME SchedInv, NEW h \in Hosts, StreamPush(h)
  PROVE  todo[h] \in Tasks \ accepted /\ OwingAdds(todo[h])
<1>0. SchedTypes /\ HandInv /\ HostInv /\ WorkInv
  BY Parts
<1>1. PICK x \in StreamTasks : x = todo[h] /\ x \notin accepted
  BY <1>0 DEF StreamPush, HostInv
<1>2. PICK z \in Streams : z = StreamOf[x]
  BY DEF Streams
<1>3. pend' = [pend EXCEPT ![z] = Append(pend[z], x)] /\ UNCHANGED containers
  BY <1>1, <1>2 DEF StreamPush, containers, numaVars
<1>4. \A v : Held(v)' <=> Held(v)
  BY <1>0, <1>3, NothingMoves, HeldSame DEF WorkInv, UniqueInv, NoRepeats
<1>5. \A v : Full(v)' <=> Full(v)
  <2>1. \A g \in Hosts : g # h => pc'[g] = pc[g] /\ todo'[g] = todo[g]
    BY <1>0 DEF StreamPush, Goto, SchedTypes
  <2>2. pc[h] # "ringFull" /\ pc'[h] # "ringFull"
    BY <1>0 DEF StreamPush, Goto, SchedTypes
  <2> QED BY <2>1, <2>2 DEF Full
<1>6. \A s \in Streams : pend'[s] = IF s = z THEN Append(pend[z], x) ELSE pend[s]
  BY <1>0, <1>3 DEF SchedTypes
<1>7. pend[z] \in Seq(StreamTasks)
  BY <1>0 DEF SchedTypes
<1>8. \A v : In(Append(pend[z], x), v) <=> In(pend[z], v) \/ v = x
  BY <1>7, InAppend
<1>9. ASSUME NEW v \in StreamTasks
      PROVE  In(pend'[StreamOf[v]], v) <=> In(pend[StreamOf[v]], v) \/ v = x
  <2>1. StreamOf[v] \in Streams
    BY DEF Streams
  <2>2. CASE StreamOf[v] = z
    BY <1>6, <1>8, <2>2
  <2>3. CASE StreamOf[v] # z
    BY <1>2, <1>6, <2>1, <2>3
  <2> QED BY <2>2, <2>3
<1>10. OwingAdds(x)
  BY <1>4, <1>5, <1>9 DEF OwingAdds, Owing
<1> QED BY <1>1, <1>10 DEF Tasks

\* A step that gives an item to the task y, which already waits in its stream's queue
\* or in the hand of a host.
LEMMA OwingKept ==
  ASSUME NEW y, Owing(y), Owing(y)',
         \A x \in Tasks : x # y => /\ Held(x)' <=> Held(x)
                                   /\ Full(x)' <=> Full(x)
                                   /\ x \in StreamTasks =>
                                        (In(pend'[StreamOf[x]], x) <=> In(pend[StreamOf[x]], x))
  PROVE  OwingStays
BY DEF OwingStays, Owing

LEMMA EnqueueOwes ==
  ASSUME SchedInv, NEW h \in Hosts, StreamEnqueue(h)
  PROVE  OwingStays
<1>0. SchedTypes /\ HandInv /\ HostInv /\ WorkInv
  BY Parts
<1>1. PICK x \in StreamTasks : x = todo[h]
  BY <1>0 DEF StreamEnqueue, HostInv
<1>2. PICK z \in Streams : z = StreamOf[x]
  BY DEF Streams
<1>3. Starts(h, z)
  BY <1>1, <1>2 DEF StreamEnqueue, Starts
<1>4. pend[z] # <<>>
  BY <1>0, <1>3 DEF WorkInv, StreamInv
<1>5. PICK y \in StreamTasks : y = pend[z][1] /\ In(pend[z], y) /\ FrontItem(z) = Item("stream", y)
  BY <1>0, <1>4, FirstPending DEF FrontItem
<1>6. /\ queue' = queue \cup {Item("stream", y)} /\ UNCHANGED <<numaQ, deque, ring, cur, pend>>
  BY <1>1, <1>2, <1>5 DEF StreamEnqueue, numaVars
<1>7. Item("stream", y) \in Items /\ Item("stream", y).task = y
  BY ItemTypes DEF Tasks
<1>8. Added(Item("stream", y), "queue", 0) /\ "queue" \in Kinds /\ 0 \in Spots
  BY <1>0, <1>6, <1>7, QueueGets, SpotFacts DEF WorkInv, UniqueInv, NoRepeats, Kinds
<1>9. \A v : Held(v)' <=> Held(v) \/ v = y
  BY <1>7, <1>8, HeldAdded
<1>10. \A v : Full(v)' <=> Full(v)
  <2>1. \A g \in Hosts : g # h => pc'[g] = pc[g] /\ todo'[g] = todo[g]
    BY <1>0 DEF StreamEnqueue, Goto, SchedTypes
  <2>2. pc[h] # "ringFull" /\ pc'[h] # "ringFull"
    BY <1>0 DEF StreamEnqueue, Goto, SchedTypes
  <2> QED BY <2>1, <2>2 DEF Full
<1>11. StreamOf[y] = z
  BY <1>0, <1>4, <1>5, FirstPending DEF WorkInv, PendInv
<1>12. Owing(y) /\ Owing(y)'
  BY <1>5, <1>6, <1>11 DEF Owing
<1> QED BY <1>6, <1>9, <1>10, <1>12, OwingKept

LEMMA RingFullOwes ==
  ASSUME SchedInv, NEW h \in Hosts, RingFull(h)
  PROVE  OwingStays
<1>0. SchedTypes /\ HandInv /\ HostInv /\ WorkInv
  BY Parts
<1>1. PICK x \in RingTasks : x = todo[h] /\ x \in Tasks
  BY <1>0 DEF RingFull, HostInv, Submitting
<1>2. PICK w \in Workers : w = Target(x)
  BY <1>1, TargetType
<1>3. /\ pc[h] = "ringFull" /\ pc' = [pc EXCEPT ![h] = "countOne"]
      /\ UNCHANGED <<pend, cur, numaQ, ring, todo>>
  BY <1>1 DEF RingFull, Goto, numaVars, streamVars
<1>4. Full(x)
  BY <1>1, <1>3 DEF Full
<1>5. ~Held(x)
  BY <1>0, <1>1, <1>4 DEF WorkInv, RunInv
<1>6. Item("empty", x) \in Items /\ Item("empty", x).task = x
  BY <1>1, ItemTypes
<1>7. NoRepeats /\ "deque" \in Kinds /\ "queue" \in Kinds /\ w \in Spots /\ 0 \in Spots
  BY <1>0, SpotFacts DEF WorkInv, UniqueInv, NoRepeats, Kinds
<1>8. \A v : Held(v)' <=> Held(v) \/ v = x
  <2>1. CASE Len(deque[w]) < DequeCap
    <3>1. deque' = [deque EXCEPT ![w] = Append(@, Item("empty", x))] /\ UNCHANGED queue
      BY <1>1, <1>2, <2>1 DEF RingFull
    <3>2. ~Holds("deque", w, Item("empty", x))
      BY <1>5, <1>6, <1>7 DEF Held
    <3>3. Added(Item("empty", x), "deque", w)
      BY <1>0, <1>3, <1>6, <1>7, <3>1, <3>2, DequeGets
    <3> QED BY <1>6, <1>7, <3>3, HeldAdded
  <2>2. CASE ~(Len(deque[w]) < DequeCap)
    <3>1. queue' = queue \cup {Item("empty", x)} /\ UNCHANGED deque
      BY <1>1, <1>2, <2>2 DEF RingFull
    <3>2. Added(Item("empty", x), "queue", 0)
      BY <1>3, <1>6, <1>7, <3>1, QueueGets
    <3> QED BY <1>6, <1>7, <3>2, HeldAdded
  <2> QED BY <2>1, <2>2
<1>9. \A v : v # x => (Full(v)' <=> Full(v))
  <2>1. \A g \in Hosts : pc'[g] = IF g = h THEN "countOne" ELSE pc[g]
    BY <1>0, <1>3 DEF SchedTypes
  <2> QED BY <1>1, <1>3, <2>1 DEF Full
<1>10. Owing(x) /\ Owing(x)'
  BY <1>4, <1>8 DEF Owing
<1> QED BY <1>3, <1>8, <1>9, <1>10, OwingKept

\* A step of a runner leaves the hosts alone.
LEMMA RunnerHosts ==
  ASSUME SchedTypes, NEW r \in Runners, NEW p, pc' = [pc EXCEPT ![r] = p], todo' = todo
  PROVE  HostsStay /\ \A h \in Hosts : pc'[h] = pc[h] /\ todo'[h] = todo[h]
BY SpotFacts DEF SchedTypes, HostsStay

LEMMA RunItemOwes ==
  ASSUME SchedInv, NEW r \in Runners, RunItem(r)
  PROVE  OwingStays
<1>0. SchedTypes /\ WorkInv
  BY Parts
<1>1. UNCHANGED <<containers, pend, todo>>
  BY DEF RunItem, containers, numaVars, streamVars
<1>2. PICK p : pc' = [pc EXCEPT ![r] = p]
  BY DEF RunItem, Goto
<1>3. HostsStay
  BY <1>0, <1>1, <1>2, RunnerHosts
<1>4. \A v : Held(v)' <=> Held(v)
  BY <1>0, <1>1, NothingMoves, HeldSame DEF WorkInv, UniqueInv, NoRepeats
<1> QED BY <1>1, <1>3, <1>4, OwingSame

LEMMA SpillOwes ==
  ASSUME SchedInv, NEW r \in Runners, Spill(r)
  PROVE  OwingStays
<1>0. SchedTypes /\ HandInv /\ WorkInv
  BY Parts
<1>1. pc[r] = "spill" /\ pc' = [pc EXCEPT ![r] = "account"]
  BY DEF Spill, Goto
<1>2. PICK z \in Streams : z = StreamOf[cur[r].task]
  BY <1>0, <1>1, RunnerServes
<1>3. Serves("hand", r, cur[r], z) /\ cur[r] \in Items /\ r \in Spots /\ "hand" \in Kinds
  BY <1>0, <1>1, <1>2, RunnerServes
<1>4. pend[z] # <<>>
  BY <1>0, <1>3 DEF WorkInv, StreamInv
<1>5. PICK y \in StreamTasks : y = pend[z][1] /\ In(pend[z], y) /\ FrontItem(z) = Item("stream", y)
  BY <1>0, <1>4, FirstPending DEF FrontItem
<1>6. /\ queue' = queue \cup {Item("stream", y)}
      /\ UNCHANGED <<numaQ, deque, ring, cur, pend, todo>>
  BY <1>2, <1>5 DEF Spill, numaVars
<1>7. Item("stream", y) \in Items /\ Item("stream", y).task = y
  BY ItemTypes DEF Tasks
<1>8. Added(Item("stream", y), "queue", 0) /\ "queue" \in Kinds /\ 0 \in Spots
  BY <1>0, <1>6, <1>7, QueueGets, SpotFacts DEF WorkInv, UniqueInv, NoRepeats, Kinds
<1>9. \A v : Held(v)' <=> Held(v) \/ v = y
  BY <1>7, <1>8, HeldAdded
<1>10. \A v : Full(v)' <=> Full(v)
  BY <1>0, <1>1, <1>6, RunnerHosts, HostsStayFacts
<1>11. StreamOf[y] = z
  BY <1>0, <1>4, <1>5, FirstPending DEF WorkInv, PendInv
<1>12. Owing(y) /\ Owing(y)'
  BY <1>5, <1>6, <1>11 DEF Owing
<1> QED BY <1>6, <1>9, <1>10, <1>12, OwingKept

\* A retired task stays in hand until it is accounted for; the next task of its stream,
\* whose item is made, is in the stream's queue before and after.
LEMMA FinishOwes ==
  ASSUME SchedInv, NEW r \in Runners, Finish(r)
  PROVE  OwingStays
<1>0. SchedTypes /\ HandInv /\ HostInv /\ WorkInv
  BY Parts
<1>1. pc[r] = "finish" /\ pc[r] \in Running
  BY DEF Finish, Running
<1>2. PICK z \in Streams : z = StreamOf[cur[r].task]
  BY <1>0, <1>1, RunnerServes
<1>3. Retiring(r, z)
  BY <1>0, <1>1, <1>2, FinishFacts
<1>4. PICK x : x = cur[r].task
  OBVIOUS
<1>5. PICK t : t = Tail(pend[z])
  OBVIOUS
<1>6. /\ pend' = [pend EXCEPT ![z] = t] /\ UNCHANGED <<queue, numaQ, ring, cur, todo>>
      /\ deque' = deque \/ /\ t # <<>> /\ r \in Workers
                           /\ deque' = [deque EXCEPT ![r] = Append(@, Item("stream", Head(t)))]
  BY <1>2, <1>5 DEF Finish, numaVars
<1>7. PICK p : pc' = [pc EXCEPT ![r] = p]
  BY DEF Finish, Goto
<1>8. t \in Seq(StreamTasks) /\ \A v : In(t, v) <=> In(pend[z], v) /\ v # x
  BY <1>3, <1>4, <1>5 DEF Retiring
<1>9. \A v : Full(v)' <=> Full(v)
  BY <1>0, <1>6, <1>7, RunnerHosts, HostsStayFacts
<1>10. \A s \in Streams : pend'[s] = IF s = z THEN t ELSE pend[s]
  BY <1>0, <1>6 DEF SchedTypes
<1>11. /\ cur[r] \in Items /\ r \in Spots /\ "hand" \in Kinds /\ Holds("hand", r, cur[r])
       /\ Holds("hand", r, cur[r])'
  BY <1>0, <1>1, <1>6, InHand DEF Holds
<1>12. Held(x) /\ Held(x)'
  BY <1>4, <1>6, <1>11 DEF Held
<1>13. \A v \in StreamTasks : In(pend'[StreamOf[v]], v) <=> In(pend[StreamOf[v]], v) /\ v # x
  <2> SUFFICES ASSUME NEW v \in StreamTasks
               PROVE  In(pend'[StreamOf[v]], v) <=> In(pend[StreamOf[v]], v) /\ v # x
    OBVIOUS
  <2>1. StreamOf[v] \in Streams
    BY DEF Streams
  <2>2. CASE StreamOf[v] = z
    BY <1>8, <1>10, <2>2
  <2>3. CASE StreamOf[v] # z
    BY <1>2, <1>4, <1>10, <2>1, <2>3
  <2> QED BY <2>2, <2>3
<1>14. CASE deque' = deque
  <2>1. \A v : Held(v)' <=> Held(v)
    BY <1>0, <1>6, <1>14, NothingMoves, HeldSame DEF WorkInv, UniqueInv, NoRepeats, containers
  <2> QED BY <1>9, <1>12, <1>13, <2>1 DEF OwingStays, Owing
<1>15. CASE /\ t # <<>> /\ r \in Workers
            /\ deque' = [deque EXCEPT ![r] = Append(@, Item("stream", Head(t)))]
  <2>1. PICK y \in StreamTasks : y = Head(t) /\ In(t, y)
    BY <1>8, <1>15, InTail
  <2>2. PICK e \in Items : e = Item("stream", y) /\ e.task = y
    BY ItemTypes DEF Tasks
  <2>3. deque' = [deque EXCEPT ![r] = Append(deque[r], e)] /\ deque[r] \in Seq(Items)
    BY <1>0, <1>15, <2>1, <2>2 DEF SchedTypes
  <2>4. \A u \in Workers : deque'[u] = IF u = r THEN Append(deque[r], e) ELSE deque[u]
    BY <1>0, <2>3 DEF SchedTypes
  <2>5. \A it : In(Append(deque[r], e), it) <=> In(deque[r], it) \/ it = e
    BY <2>3, InAppend
  <2>6. Added(e, "deque", r)
    BY <1>6, <1>15, <2>4, <2>5 DEF Added, Holds
  <2>7. \A v : Held(v)' <=> Held(v) \/ v = y
    BY <1>11, <2>2, <2>6, HeldAdded DEF Kinds
  <2>8. Owing(y) /\ Owing(y)'
    <3>1. In(pend[z], y) /\ y # x
      BY <1>8, <2>1
    <3>2. StreamOf[y] = z
      BY <1>0, <3>1 DEF WorkInv, PendInv, In
    <3> QED BY <1>13, <3>1, <3>2 DEF Owing
  <2>9. ASSUME NEW v \in Tasks PROVE Owing(v)' <=> Owing(v)
    <3>1. CASE v = y
      BY <2>8, <3>1
    <3>2. CASE v = x
      BY <1>12, <3>2 DEF Owing
    <3>3. CASE v # x /\ v # y
      BY <1>9, <1>13, <2>7, <3>3 DEF Owing
    <3> QED BY <3>1, <3>2, <3>3
  <2> QED BY <2>9 DEF OwingStays
<1> QED BY <1>6, <1>14, <1>15

\* Accounting for a task is the end of it.
LEMMA AccountOwes ==
  ASSUME SchedInv, NEW r \in Runners, Account(r)
  PROVE  \E x \in Tasks : Owing(x) /\ \A y \in Tasks : Owing(y)' <=> Owing(y) /\ y # x
<1>0. SchedTypes /\ HandInv /\ HostInv /\ WorkInv
  BY Parts
<1>1. /\ pc[r] = "account" /\ pc[r] \in Running /\ cur' = [cur EXCEPT ![r] = NoItem]
      /\ UNCHANGED <<queue, numaQ, deque, ring, pend, todo>>
  BY DEF Account, Running, numaVars, streamVars
<1>2. PICK p : pc' = [pc EXCEPT ![r] = p]
  BY DEF Account, Goto
<1>3. /\ cur[r] \in Items /\ r \in Spots /\ "hand" \in Kinds
      /\ Holds("hand", r, cur[r]) /\ cur[r].task \in Tasks
      /\ \A k \in Kinds, n \in Spots, it \in Items :
           Holds(k, n, it) /\ it.task = cur[r].task => k = "hand" /\ n = r /\ it = cur[r]
  BY <1>0, <1>1, InHand
<1>4. PICK x \in Tasks : x = cur[r].task
  BY <1>3
<1>5. Held(x) /\ ~Full(x)
  <2>1. Held(x)
    BY <1>3, <1>4 DEF Held
  <2> QED BY <1>0, <2>1 DEF WorkInv, RunInv
<1>6. x \in StreamTasks => ~In(pend[StreamOf[x]], x)
  BY <1>0, <1>1, <1>4 DEF WorkInv, PendInv, Streams
<1>7. Dropped(r)
  BY <1>0, <1>1, HandDrops DEF WorkInv, UniqueInv, NoRepeats
<1>8. ~Held(x)'
  BY <1>3, <1>4, <1>7 DEF Dropped, Held
<1>9. \A y : y # x => (Held(y)' <=> Held(y))
  <2>1. \A it \in Items : Holds("hand", r, it) => it = cur[r]
    BY DEF Holds
  <2> QED BY <1>4, <1>7, <2>1 DEF Dropped, Held
<1>10. \A v : Full(v)' <=> Full(v)
  BY <1>0, <1>1, <1>2, RunnerHosts, HostsStayFacts
<1>11. Owing(x)
  BY <1>5 DEF Owing
<1>12. ~Owing(x)'
  BY <1>1, <1>5, <1>6, <1>8, <1>10 DEF Owing
<1>13. \A y \in Tasks : y # x => (Owing(y)' <=> Owing(y))
  BY <1>1, <1>9, <1>10 DEF Owing
<1> QED BY <1>11, <1>12, <1>13

-----------------------------------------------------------------------------
(* pending_ *)

Counting == {"count", "ringFull", "countOne"}

\* Task x is in the scheduler, and the call that submits it has not yet counted it.
Uncounted(x) == \E h \in Hosts : pc[h] \in Counting /\ todo[h] = x

Open == {x \in Tasks : Owing(x)}
Late == {x \in Tasks : Uncounted(x)}

\* The value of a counter of WordSize values after a increments and b decrements.
Wrapped(a, b) == IF a >= b THEN a - b ELSE a - b + WordSize

\* pending_ counts the tasks not yet accounted for, less those not yet counted.  A task
\* may be accounted for before it is counted: pending_ then wraps round.
CountInv == pending = Wrapped(Cardinality(Open), Cardinality(Late))

LateStays == \A x \in Tasks : Uncounted(x)' <=> Uncounted(x)

LEMMA WordFacts ==
  ASSUME NEW W \in Nat \ {0}
  PROVE  /\ \A p \in 0..(W - 1) : (p + W) % W = p
         /\ (W + W) % W = 0
         /\ (W - 1) % W = W - 1
  OBVIOUS

LEMMA Counts ==
  ASSUME NEW a \in 0..(WordSize - 1), NEW b \in 0..(WordSize - 1)
  PROVE  /\ a + 1 < WordSize => (Wrapped(a, b) + 1 + WordSize) % WordSize = Wrapped(a + 1, b)
         /\ b > 0 => (Wrapped(a, b) + 1 + WordSize) % WordSize = Wrapped(a, b - 1)
         /\ a > 0 => (Wrapped(a, b) + (-1) + WordSize) % WordSize = Wrapped(a - 1, b)
<1>1. PICK W \in Nat \ {0} : W = WordSize
  BY SchedulerAssumption
<1>2. /\ \A p \in 0..(W - 1) : (p + W) % W = p
      /\ (W + W) % W = 0
      /\ (W - 1) % W = W - 1
  BY WordFacts
<1>0. Wrapped(a, b) \in 0..(W - 1)
  <2>1. a \in 0..(W - 1) /\ b \in 0..(W - 1) /\ Wrapped(a, b) = IF a >= b THEN a - b ELSE a - b + W
    BY <1>1 DEF Wrapped
  <2> QED BY <2>1
<1>3. PICK c \in 0..(W - 1) : c = Wrapped(a, b)
  BY <1>0
<1>4. (c + 1 + W) % W = IF c + 1 = W THEN 0 ELSE c + 1
  <2>1. CASE c + 1 = W
    BY <1>2, <2>1
  <2>2. CASE c + 1 # W
    <3>1. c + 1 \in 0..(W - 1)
      BY <2>2
    <3> QED BY <1>2, <2>2, <3>1
  <2> QED BY <2>1, <2>2
<1>5. (c + (-1) + W) % W = IF c = 0 THEN W - 1 ELSE c - 1
  <2>1. CASE c = 0
    <3>1. c + (-1) + W = W - 1
      BY <2>1
    <3> QED BY <1>2, <2>1, <3>1
  <2>2. CASE c # 0
    <3>1. c - 1 \in 0..(W - 1) /\ c + (-1) + W = (c - 1) + W
      BY <2>2
    <3> QED BY <1>2, <2>2, <3>1
  <2> QED BY <2>1, <2>2
<1>6. a + 1 < W => (IF c + 1 = W THEN 0 ELSE c + 1) = Wrapped(a + 1, b)
  BY <1>1, <1>3 DEF Wrapped
<1>7. b > 0 => (IF c + 1 = W THEN 0 ELSE c + 1) = Wrapped(a, b - 1)
  BY <1>1, <1>3 DEF Wrapped
<1>8. a > 0 => (IF c = 0 THEN W - 1 ELSE c - 1) = Wrapped(a - 1, b)
  BY <1>1, <1>3 DEF Wrapped
<1> QED BY <1>1, <1>3, <1>4, <1>5, <1>6, <1>7, <1>8

\* A set of tasks, and one with a task more.
LEMMA Sizes ==
  ASSUME NEW S \in SUBSET Tasks
  PROVE  /\ IsFiniteSet(S) /\ Cardinality(S) \in 0..(WordSize - 1)
         /\ \A x \in S : Cardinality(S \ {x}) = Cardinality(S) - 1 /\ Cardinality(S) > 0
<1>1. IsFiniteSet(S) /\ Cardinality(S) <= Cardinality(Tasks) /\ Cardinality(S) \in Nat
  BY TasksAssumption, FS_Subset, FS_CardinalityType
<1>2. Cardinality(S) \in 0..(WordSize - 1)
  BY <1>1, TasksAssumption, SchedulerAssumption, FS_CardinalityType
<1>3. ASSUME NEW x \in S PROVE Cardinality(S \ {x}) = Cardinality(S) - 1 /\ Cardinality(S) > 0
  <2>1. Cardinality(S \ {x}) = Cardinality(S) - 1
    BY <1>1, FS_RemoveElement
  <2>2. IsFiniteSet(S \ {x})
    BY <1>1, FS_RemoveElement
  <2>3. Cardinality(S \ {x}) \in Nat
    BY <2>2, FS_CardinalityType
  <2> QED BY <1>1, <2>1, <2>3
<1> QED BY <1>1, <1>2, <1>3

LEMMA CountKept ==
  ASSUME CountInv, OwingStays, LateStays, pending' = pending
  PROVE  CountInv'
<1>1. Open' = Open /\ Late' = Late
  BY DEF Open, Late, OwingStays, LateStays
<1> QED BY <1>1 DEF CountInv

LEMMA CountPushed ==
  ASSUME CountInv, NEW y \in Tasks, ~Owing(y), OwingAdds(y), LateStays, Count(1)
  PROVE  CountInv'
<1>1. Open' \in SUBSET Tasks /\ y \in Open' /\ Open = Open' \ {y} /\ Late' = Late
  BY DEF Open, Late, OwingAdds, LateStays
<1>2. Open \in SUBSET Tasks /\ Late \in SUBSET Tasks
  BY DEF Open, Late
<1>3. PICK a \in 0..(WordSize - 1) : a = Cardinality(Open)
  BY <1>2, Sizes
<1>4. PICK b \in 0..(WordSize - 1) : b = Cardinality(Late)
  BY <1>2, Sizes
<1>5. a = Cardinality(Open') - 1 /\ Cardinality(Open') \in 0..(WordSize - 1)
  BY <1>1, <1>3, Sizes
<1>6. Cardinality(Open') = a + 1 /\ a + 1 < WordSize
  BY <1>5, SchedulerAssumption
<1>7. pending' = Wrapped(a + 1, b)
  BY <1>3, <1>4, <1>6, Counts DEF CountInv, Count
<1> QED BY <1>1, <1>4, <1>6, <1>7 DEF CountInv

LEMMA CountLater ==
  ASSUME CountInv, NEW y \in Tasks, ~Owing(y), OwingAdds(y), ~Uncounted(y),
         \A x \in Tasks : Uncounted(x)' <=> Uncounted(x) \/ x = y, pending' = pending
  PROVE  CountInv'
<1>1. /\ Open' \in SUBSET Tasks /\ y \in Open' /\ Open = Open' \ {y}
      /\ Late' \in SUBSET Tasks /\ y \in Late' /\ Late = Late' \ {y}
  BY DEF Open, Late, OwingAdds
<1>2. PICK a \in 0..(WordSize - 1) : a = Cardinality(Open')
  BY <1>1, Sizes
<1>3. PICK b \in 0..(WordSize - 1) : b = Cardinality(Late')
  BY <1>1, Sizes
<1>4. Cardinality(Open) = a - 1 /\ Cardinality(Late) = b - 1
  BY <1>1, <1>2, <1>3, Sizes
<1>5. Wrapped(a - 1, b - 1) = Wrapped(a, b)
  BY SchedulerAssumption DEF Wrapped
<1> QED BY <1>2, <1>3, <1>4, <1>5 DEF CountInv

LEMMA CountCaughtUp ==
  ASSUME CountInv, OwingStays, NEW y \in Tasks, Uncounted(y),
         \A x \in Tasks : Uncounted(x)' <=> Uncounted(x) /\ x # y, Count(1)
  PROVE  CountInv'
<1>1. Open' = Open /\ Late' = Late \ {y} /\ y \in Late
  BY DEF Open, Late, OwingStays
<1>2. Open \in SUBSET Tasks /\ Late \in SUBSET Tasks
  BY DEF Open, Late
<1>3. PICK a \in 0..(WordSize - 1) : a = Cardinality(Open)
  BY <1>2, Sizes
<1>4. PICK b \in 0..(WordSize - 1) : b = Cardinality(Late)
  BY <1>2, Sizes
<1>5. Cardinality(Late') = b - 1 /\ b > 0
  BY <1>1, <1>2, <1>4, Sizes
<1>6. pending' = Wrapped(a, b - 1)
  BY <1>3, <1>4, <1>5, Counts DEF CountInv, Count
<1> QED BY <1>1, <1>3, <1>5, <1>6 DEF CountInv

LEMMA CountDown ==
  ASSUME CountInv, LateStays, NEW y \in Tasks, Owing(y),
         \A x \in Tasks : Owing(x)' <=> Owing(x) /\ x # y, Count(-1)
  PROVE  CountInv'
<1>1. Open' = Open \ {y} /\ y \in Open /\ Late' = Late
  BY DEF Open, Late, LateStays
<1>2. Open \in SUBSET Tasks /\ Late \in SUBSET Tasks
  BY DEF Open, Late
<1>3. PICK a \in 0..(WordSize - 1) : a = Cardinality(Open)
  BY <1>2, Sizes
<1>4. PICK b \in 0..(WordSize - 1) : b = Cardinality(Late)
  BY <1>2, Sizes
<1>5. Cardinality(Open') = a - 1 /\ a > 0
  BY <1>1, <1>2, <1>3, Sizes
<1>6. pending' = Wrapped(a - 1, b)
  BY <1>3, <1>4, <1>5, Counts DEF CountInv, Count
<1> QED BY <1>1, <1>4, <1>5, <1>6 DEF CountInv

LEMMA LateQuiet ==
  ASSUME SchedTypes, NEW h \in Hosts, pc[h] \notin Counting,
         pc' = pc \/ \E p : p \notin Counting /\ pc' = [pc EXCEPT ![h] = p],
         todo' = todo \/ \E t : todo' = [todo EXCEPT ![h] = t]
  PROVE  LateStays
<1>1. \A g \in Hosts : g # h => pc'[g] = pc[g] /\ todo'[g] = todo[g]
  BY DEF SchedTypes
<1>2. pc'[h] \notin Counting
  BY DEF SchedTypes
<1> QED BY <1>1, <1>2 DEF LateStays, Uncounted

LEMMA LateRunner ==
  ASSUME SchedTypes, NEW r \in Runners, pc' = pc \/ \E p : pc' = [pc EXCEPT ![r] = p], todo' = todo
  PROVE  LateStays
<1>1. \A g \in Hosts : pc'[g] = pc[g]
  BY SpotFacts DEF SchedTypes
<1> QED BY <1>1 DEF LateStays, Uncounted

\* Host h has just put the new task x into the scheduler.
LEMMA LateSubmit ==
  ASSUME SchedInv, NEW h \in Hosts, NEW x \in Tasks, CanSubmit(h, x), NEW p \in Counting,
         pc' = [pc EXCEPT ![h] = p], todo' = [todo EXCEPT ![h] = x]
  PROVE  /\ ~Owing(x) /\ ~Uncounted(x)
         /\ \A y \in Tasks : Uncounted(y)' <=> Uncounted(y) \/ y = x
<1>0. SchedTypes /\ HostInv
  BY Parts
<1>1. x \notin accepted /\ pc[h] = "idle"
  BY DEF CanSubmit
<1>2. ~Owing(x)
  BY <1>1, OwingAccepted
<1>3. ~Uncounted(x)
  BY <1>0, <1>1 DEF Uncounted, HostInv, Counting
<1>4. \A g \in Hosts : /\ pc'[g] = IF g = h THEN p ELSE pc[g]
                       /\ todo'[g] = IF g = h THEN x ELSE todo[g]
  BY <1>0 DEF SchedTypes
<1>5. pc[h] \notin Counting
  BY <1>1 DEF Counting
<1> QED BY <1>2, <1>3, <1>4, <1>5 DEF Uncounted

\* Host h counts its task.
LEMMA LateCount ==
  ASSUME SchedInv, NEW h \in Hosts, pc[h] \in Counting,
         pc' = [pc EXCEPT ![h] = "idle"], todo' = [todo EXCEPT ![h] = Idle]
  PROVE  /\ todo[h] \in Tasks /\ Uncounted(todo[h])
         /\ \A x \in Tasks : Uncounted(x)' <=> Uncounted(x) /\ x # todo[h]
<1>0. SchedTypes /\ HostInv
  BY Parts
<1>1. \A g \in Hosts : pc[g] \in Counting => todo[g] \in Tasks /\ HostOf[todo[g]] = g
  BY <1>0 DEF HostInv, Counting, Submitting
<1>2. \A g \in Hosts : /\ pc'[g] = IF g = h THEN "idle" ELSE pc[g]
                       /\ g # h => todo'[g] = todo[g]
  BY <1>0 DEF SchedTypes
<1>3. "idle" \notin Counting
  BY DEF Counting
<1> QED BY <1>1, <1>2, <1>3 DEF Uncounted

LEMMA CountInit == Init => CountInv
<1> SUFFICES ASSUME Init PROVE CountInv
  OBVIOUS
<1>1. SchedInv /\ accepted = {} /\ pending = 0
  BY SchedInvInit DEF Init
<1>2. Open = {}
  BY <1>1, OwingAccepted DEF Open
<1>3. Late = {}
  <2>1. HostInv
    BY <1>1, Parts
  <2> QED BY <1>1, <2>1 DEF Late, Uncounted, HostInv, Counting
<1>4. Cardinality({}) = 0
  BY FS_EmptySet
<1> QED BY <1>1, <1>2, <1>3, <1>4 DEF CountInv, Wrapped

LEMMA CountSubmits ==
  ASSUME SchedInv, CountInv, NEW h \in Hosts, NEW x \in Tasks,
         SubmitConcurrentTask(h, x) \/ SubmitNumaTask(h, x) \/ EnqueueToStream(h, x)
  PROVE  CountInv'
<1>1. OwingAdds(x)
  BY SubmitConcurrentStep, SubmitNumaStep, EnqueueToStreamStep
<1>2. CanSubmit(h, x) /\ todo' = [todo EXCEPT ![h] = x] /\ pending' = pending
  BY DEF SubmitConcurrentTask, SubmitNumaTask, EnqueueToStream
<1>3. PICK p \in Counting : pc' = [pc EXCEPT ![h] = p]
  BY DEF SubmitConcurrentTask, SubmitNumaTask, EnqueueToStream, Goto, Counting
<1>4. /\ ~Owing(x) /\ ~Uncounted(x)
      /\ \A y \in Tasks : Uncounted(y)' <=> Uncounted(y) \/ y = x
  BY <1>2, <1>3, LateSubmit
<1> QED BY <1>1, <1>2, <1>4, CountLater

LEMMA CountWaits ==
  ASSUME SchedInv, CountInv, NEW h \in Hosts,
         \/ \E x \in Tasks : SubmitStreamTask(h, x)
         \/ WaitAll(h) \/ WaitAllDone(h) \/ WaitAllTick(h)
         \/ \E s \in Streams : WaitStream(h, s)
         \/ WaitStreamLook(h) \/ WaitStreamDone(h) \/ WaitTimeout(h) \/ WaitReturn(h)
  PROVE  CountInv'
<1>0. SchedTypes
  BY Parts
<1>1. OwingStays
  BY HostQuietSteps
<1>2. pending' = pending
  BY DEF SubmitStreamTask, WaitAll, WaitAllDone, WaitAllTick, WaitStream, WaitStreamLook,
         WaitStreamDone, WaitTimeout, WaitReturn
<1>3. pc[h] \notin Counting
  BY DEF SubmitStreamTask, CanSubmit, WaitAll, WaitAllDone, WaitAllTick, WaitStream, BeginWait,
         WaitStreamLook, WaitStreamDone, WaitTimeout, WaitReturn, Counting
<1>4. pc' = pc \/ \E p : p \notin Counting /\ pc' = [pc EXCEPT ![h] = p]
  <2>1. CASE WaitAllTick(h)
    BY <2>1 DEF WaitAllTick
  <2>2. CASE ~WaitAllTick(h)
    <3>1. PICK p \in {"streamPush", "waitAll", "waitStream", "notProcessing", "waited", "idle"} :
            pc' = [pc EXCEPT ![h] = p]
      BY <2>2 DEF SubmitStreamTask, WaitAll, WaitAllDone, WaitStream, WaitStreamLook,
                  WaitStreamDone, WaitTimeout, WaitReturn, Goto
    <3> QED BY <3>1 DEF Counting
  <2> QED BY <2>1, <2>2
<1>5. todo' = todo \/ \E t : todo' = [todo EXCEPT ![h] = t]
  BY DEF SubmitStreamTask, WaitAll, WaitAllDone, WaitAllTick, WaitStream, WaitStreamLook,
         WaitStreamDone, WaitTimeout, WaitReturn
<1>6. LateStays
  BY <1>0, <1>3, <1>4, <1>5, LateQuiet
<1> QED BY <1>1, <1>2, <1>6, CountKept

LEMMA CountHosts ==
  ASSUME SchedInv, CountInv, NEW h \in Hosts, HostStep(h)
  PROVE  CountInv'
<1>0. SchedTypes
  BY Parts
<1>1. CASE StreamPush(h)
  <2>1. todo[h] \in Tasks \ accepted /\ OwingAdds(todo[h])
    BY <1>1, PushOwes
  <2>2. ~Owing(todo[h])
    BY <2>1, OwingAccepted
  <2>3. Count(1) /\ pc[h] = "streamPush"
    BY <1>1 DEF StreamPush
  <2>4. PICK p \in {"idle", "streamEnqueue"} : pc' = [pc EXCEPT ![h] = p]
    BY <1>1 DEF StreamPush, Goto
  <2>5. todo' = todo \/ \E t : todo' = [todo EXCEPT ![h] = t]
    BY <1>1 DEF StreamPush
  <2>6. pc[h] \notin Counting /\ p \notin Counting
    BY <2>3 DEF Counting
  <2>7. LateStays
    BY <1>0, <2>4, <2>5, <2>6, LateQuiet
  <2> QED BY <2>1, <2>2, <2>3, <2>7, CountPushed
<1>2. CASE StreamEnqueue(h)
  <2>1. OwingStays
    BY <1>2, EnqueueOwes
  <2>2. /\ pc[h] \notin Counting /\ pending' = pending /\ "idle" \notin Counting
        /\ pc' = [pc EXCEPT ![h] = "idle"] /\ todo' = [todo EXCEPT ![h] = Idle]
    BY <1>2 DEF StreamEnqueue, Counting, Goto
  <2>3. LateStays
    BY <1>0, <2>2, LateQuiet
  <2> QED BY <2>1, <2>2, <2>3, CountKept
<1>3. CASE RingFull(h)
  <2>1. OwingStays
    BY <1>3, RingFullOwes
  <2>2. /\ pc[h] = "ringFull" /\ pending' = pending /\ pc' = [pc EXCEPT ![h] = "countOne"]
        /\ todo' = todo
    BY <1>3 DEF RingFull, Goto
  <2>3. \A g \in Hosts : pc'[g] \in Counting <=> pc[g] \in Counting
    BY <1>0, <2>2 DEF SchedTypes, Counting
  <2>4. LateStays
    BY <2>2, <2>3 DEF LateStays, Uncounted
  <2> QED BY <2>1, <2>2, <2>4, CountKept
<1>4. CASE CountAndNotify(h) \/ CountAndNotifyOne(h)
  <2>1. OwingStays
    BY <1>4, HostQuietSteps
  <2>2. /\ pc[h] \in Counting /\ Count(1)
        /\ pc' = [pc EXCEPT ![h] = "idle"] /\ todo' = [todo EXCEPT ![h] = Idle]
    BY <1>4 DEF CountAndNotify, CountAndNotifyOne, Counting, Goto
  <2>3. /\ todo[h] \in Tasks /\ Uncounted(todo[h])
        /\ \A x \in Tasks : Uncounted(x)' <=> Uncounted(x) /\ x # todo[h]
    BY <2>2, LateCount
  <2> QED BY <2>1, <2>2, <2>3, CountCaughtUp
<1> QED BY <1>1, <1>2, <1>3, <1>4, HostStep(h), CountSubmits, CountWaits DEF HostStep

LEMMA CountRuns ==
  ASSUME SchedInv, CountInv, NEW r \in Runners, RunStep(r)
  PROVE  CountInv'
<1>0. SchedTypes
  BY Parts
<1>1. PICK p : pc' = [pc EXCEPT ![r] = p]
  BY DEF RunStep, RunItem, Finish, Spill, Account, Goto
<1>2. todo' = todo
  BY DEF RunStep, RunItem, Finish, Spill, Account
<1>3. LateStays
  BY <1>0, <1>1, <1>2, LateRunner
<1>4. CASE RunItem(r) \/ Finish(r) \/ Spill(r)
  <2>1. OwingStays
    BY <1>4, RunItemOwes, FinishOwes, SpillOwes
  <2>2. pending' = pending
    BY <1>4 DEF RunItem, Finish, Spill
  <2> QED BY <1>3, <2>1, <2>2, CountKept
<1>5. CASE Account(r)
  <2>1. PICK x \in Tasks : Owing(x) /\ \A y \in Tasks : Owing(y)' <=> Owing(y) /\ y # x
    BY <1>5, AccountOwes
  <2>2. Count(-1)
    BY <1>5 DEF Account
  <2> QED BY <1>3, <2>1, <2>2, CountDown
<1> QED BY <1>4, <1>5 DEF RunStep

LEMMA CountWorkers ==
  ASSUME SchedInv, CountInv, NEW w \in Workers, WorkerStep(w)
  PROVE  CountInv'
<1>0. SchedTypes /\ w \in Runners
  BY Parts, SpotFacts
<1>1. CASE RunStep(w)
  BY <1>0, <1>1, CountRuns
<1>2. CASE \/ WorkerStart(w) \/ PopOwn(w) \/ TrySteal(w) \/ PopRing(w)
           \/ LockAndLook(w) \/ Block(w) \/ Unblock(w)
  <2>1. OwingStays
    BY <1>2, QuietWorkers, PopOwnStep, TryStealStep, PopRingStep, LockAndLookStep
  <2>2. pending' = pending /\ todo' = todo
    BY <1>2 DEF WorkerStart, PopOwn, TrySteal, PopRing, LockAndLook, Block, Unblock
  <2>3. pc' = pc \/ \E p : pc' = [pc EXCEPT ![w] = p]
    BY <1>2 DEF WorkerStart, PopOwn, TrySteal, PopRing, LockAndLook, Block, Unblock, Took, Goto
  <2>4. LateStays
    BY <1>0, <2>2, <2>3, LateRunner
  <2> QED BY <2>1, <2>2, <2>4, CountKept
<1> QED BY <1>1, <1>2, WorkerStep(w) DEF WorkerStep

LEMMA CountDtor ==
  ASSUME SchedInv, CountInv, DtorStep
  PROVE  CountInv'
<1>0. SchedTypes /\ Dtor \in Runners
  BY Parts, SpotFacts
<1>1. CASE RunStep(Dtor)
  BY <1>0, <1>1, CountRuns
<1>2. CASE BeginDtor \/ DrainWorker \/ DrainQueue \/ Join
  <2>1. OwingStays
    BY <1>2, BeginAndJoin, DrainWorkerInv, DrainQueueInv
  <2>2. pending' = pending /\ todo' = todo
    BY <1>2 DEF BeginDtor, DrainWorker, DrainQueue, Join
  <2>3. pc' = pc \/ \E p : pc' = [pc EXCEPT ![Dtor] = p]
    BY <1>2 DEF BeginDtor, DrainWorker, DrainQueue, Join, Took, Goto
  <2>4. LateStays
    BY <1>0, <2>2, <2>3, LateRunner
  <2> QED BY <2>1, <2>2, <2>4, CountKept
<1> QED BY <1>1, <1>2, DtorStep DEF DtorStep

LEMMA CountStep == SchedInv /\ CountInv /\ [Step]_stepVars => CountInv'
<1> SUFFICES ASSUME SchedInv, CountInv, [Step]_stepVars PROVE CountInv'
  OBVIOUS
<1>1. CASE BuildNumaTopology
  <2>1. OwingStays
    BY <1>1, TopologyInv
  <2>2. pending' = pending /\ pc' = pc /\ todo' = todo
    BY <1>1 DEF BuildNumaTopology
  <2>3. LateStays
    BY <2>2 DEF LateStays, Uncounted
  <2> QED BY <2>1, <2>2, <2>3, CountKept
<1>2. CASE UNCHANGED stepVars
  <2>1. OwingStays /\ LateStays /\ pending' = pending
    BY <1>2 DEF stepVars, OwingStays, LateStays, Owing, Uncounted, Held, Full, Holds
  <2> QED BY <2>1, CountKept
<1> QED BY <1>1, <1>2, CountHosts, CountWorkers, CountDtor DEF Step

\* pending_ is exact, modulo its width: what is in the scheduler and not yet accounted
\* for, less what a submit call has enqueued and not yet counted; as long as no deque
\* or ring had two owners at once.
THEOREM PendingIsExact == Spec => [](collided = "no" => CountInv)
<1>1. Spec => [](collided = "no" => SchedInv)
  BY SchedInvAlways
<1>2. Init => CountInv
  BY CountInit
<1>3. /\ collided = "no" => SchedInv
      /\ collided = "no" => CountInv
      /\ [Next]_vars
      => (collided = "no" => CountInv)'
  BY CountStep, AloneSoFar
<1> QED BY <1>1, <1>2, <1>3, PTL DEF Spec

LEMMA NothingOpen ==
  ASSUME SchedInv, CountInv, pending = 0, Late = {}
  PROVE  \A x \in accepted \ emptied : runs[x] = 1
<1>0. SchedTypes /\ WorkInv
  BY Parts
<1>1. Cardinality({}) = 0
  BY FS_EmptySet
<1>2. Open \in SUBSET Tasks
  BY DEF Open
<1>3. Cardinality(Open) \in 0..(WordSize - 1)
  BY <1>2, Sizes
<1>4. Cardinality(Open) = 0
  BY <1>1, <1>3 DEF CountInv, Wrapped
<1>5. Open = {}
  BY <1>2, <1>4, Sizes, FS_EmptySet
<1> SUFFICES ASSUME NEW x \in accepted \ emptied PROVE runs[x] = 1
  OBVIOUS
<1>6. x \in Tasks /\ ~Owing(x)
  BY <1>0, <1>5 DEF SchedTypes, Open
<1> QED BY <1>0, <1>6 DEF Owing, WorkInv, RunInv

LEMMA CountGivesDrained == SchedInv /\ CountInv => Drained
<1> SUFFICES ASSUME SchedInv, CountInv, pending = 0, \A h \in Hosts : pc[h] \notin Submitting
             PROVE  \A x \in accepted \ emptied : runs[x] = 1
  BY DEF Drained
<1>1. Late = {}
  BY DEF Late, Uncounted, Counting, Submitting
<1> QED BY <1>1, NothingOpen

\* When pending_ is zero and no submission is under way, every accepted task has run,
\* through whichever entry point and container it went and whoever ran it, but for
\* those that met a full ring, and unless a deque or ring had two owners at once.
THEOREM ZeroMeansDrained == Spec => []Drained
<1>1. Spec => [](collided = "no" => SchedInv)
  BY SchedInvAlways
<1>2. Spec => [](collided = "no" => CountInv)
  BY PendingIsExact
<1>3. (collided = "no" => SchedInv) /\ (collided = "no" => CountInv) => Drained
  BY CountGivesDrained DEF Drained
<1> QED BY <1>1, <1>2, <1>3, PTL

-----------------------------------------------------------------------------
(* Waiting *)

\* What a host that waits has still to see, and what it has seen when it returns.
WaitGood(o, p, t) ==
  /\ o \subseteq accepted
  /\ p \in {"waitStream", "notProcessing"} => \A x \in o : x \in StreamTasks /\ StreamOf[x] = t
  /\ p = "waited" => \A x \in o : runs[x] = 1
  /\ p \in Counting => t \notin StreamTasks

WaitInv == \A h \in Hosts : WaitGood(owed[h], pc[h], todo[h])

\* A task once accepted and run stays so.
Forward == accepted \subseteq accepted' /\ \A x \in Tasks : runs[x] = 1 => runs'[x] = 1

LEMMA StepsForward ==
  ASSUME SchedInv, SchedInv', [Step]_stepVars
  PROVE  Forward
<1>0. SchedTypes /\ SchedTypes'
  BY Parts
<1>1. accepted \subseteq accepted'
  <2>1. ASSUME NEW h \in Hosts, HostStep(h) PROVE accepted \subseteq accepted'
    BY <2>1 DEF HostStep, SubmitStreamTask, SubmitConcurrentTask, SubmitNumaTask, EnqueueToStream,
       StreamPush, StreamEnqueue, CountAndNotify, RingFull, CountAndNotifyOne, WaitAll, WaitAllDone,
       WaitAllTick, WaitStream, WaitStreamLook, WaitStreamDone, WaitTimeout, WaitReturn, ghosts
  <2>2. ASSUME NEW r \in Runners, RunStep(r) PROVE accepted' = accepted
    BY <2>2 DEF RunStep, RunItem, Finish, Spill, Account, ghosts
  <2>3. ASSUME NEW w \in Workers, WorkerStep(w) PROVE accepted' = accepted
    BY <2>2, <2>3, SpotFacts DEF WorkerStep, WorkerStart, PopOwn, TrySteal, PopRing, LockAndLook,
       Block, Unblock, ghosts
  <2>4. CASE DtorStep
    BY <2>2, <2>4, SpotFacts DEF DtorStep, BeginDtor, DrainWorker, DrainQueue, Join, ghosts
  <2>5. CASE BuildNumaTopology \/ UNCHANGED stepVars
    BY <2>5 DEF BuildNumaTopology, stepVars, ghosts
  <2> QED BY <2>1, <2>3, <2>4, <2>5 DEF Step
<1>2. runs' = runs \/ \E y : runs' = [runs EXCEPT ![y] = @ + 1]
  <2>1. ASSUME NEW h \in Hosts, HostStep(h) PROVE runs' = runs
    BY <2>1 DEF HostStep, SubmitStreamTask, SubmitConcurrentTask, SubmitNumaTask, EnqueueToStream,
       StreamPush, StreamEnqueue, CountAndNotify, RingFull, CountAndNotifyOne, WaitAll, WaitAllDone,
       WaitAllTick, WaitStream, WaitStreamLook, WaitStreamDone, WaitTimeout, WaitReturn, ghosts
  <2>2. ASSUME NEW r \in Runners, RunStep(r)
        PROVE  runs' = runs \/ \E y : runs' = [runs EXCEPT ![y] = @ + 1]
    BY <2>2 DEF RunStep, RunItem, Finish, Spill, Account, ghosts
  <2>3. ASSUME NEW w \in Workers, WorkerStep(w)
        PROVE  runs' = runs \/ \E y : runs' = [runs EXCEPT ![y] = @ + 1]
    BY <2>2, <2>3, SpotFacts DEF WorkerStep, WorkerStart, PopOwn, TrySteal, PopRing, LockAndLook,
       Block, Unblock, ghosts
  <2>4. CASE DtorStep
    BY <2>2, <2>4, SpotFacts DEF DtorStep, BeginDtor, DrainWorker, DrainQueue, Join, ghosts
  <2>5. CASE BuildNumaTopology \/ UNCHANGED stepVars
    BY <2>5 DEF BuildNumaTopology, stepVars, ghosts
  <2> QED BY <2>1, <2>3, <2>4, <2>5 DEF Step
<1>3. runs \in [Tasks -> {0, 1}] /\ runs' \in [Tasks -> {0, 1}]
  BY <1>0 DEF SchedTypes
<1>4. \A x \in Tasks : runs[x] = 1 => runs'[x] = 1
  <2> SUFFICES ASSUME NEW x \in Tasks, runs[x] = 1 PROVE runs'[x] = 1
    OBVIOUS
  <2>1. CASE runs' = runs
    BY <2>1
  <2>2. CASE \E y : runs' = [runs EXCEPT ![y] = @ + 1]
    <3>1. PICK y : runs' = [runs EXCEPT ![y] = @ + 1]
      BY <2>2
    <3>2. y = x => runs'[x] = 2
      BY <1>3, <3>1
    <3>3. runs'[x] \in {0, 1}
      BY <1>3
    <3>4. y # x => runs'[x] = runs[x]
      BY <1>3, <3>1
    <3> QED BY <3>2, <3>3, <3>4
  <2> QED BY <1>2, <2>1, <2>2
<1> QED BY <1>1, <1>4 DEF Forward

\* WaitGood after the step.
WaitAfter(o, p, t) ==
  /\ o \subseteq accepted'
  /\ p \in {"waitStream", "notProcessing"} => \A x \in o : x \in StreamTasks /\ StreamOf[x] = t
  /\ p = "waited" => \A x \in o : runs'[x] = 1
  /\ p \in Counting => t \notin StreamTasks

LEMMA WaitPart ==
  ASSUME SchedTypes, Forward, WaitInv, NEW h \in Hosts,
         \A g \in Hosts : g # h => pc'[g] = pc[g] /\ todo'[g] = todo[g] /\ owed'[g] = owed[g],
         WaitAfter(owed'[h], pc'[h], todo'[h])
  PROVE  WaitInv'
<1> SUFFICES ASSUME NEW g \in Hosts, g # h PROVE WaitAfter(owed'[g], pc'[g], todo'[g])
  BY DEF WaitInv, WaitGood, WaitAfter
<1>1. pc'[g] = pc[g] /\ todo'[g] = todo[g] /\ owed'[g] = owed[g]
  OBVIOUS
<1>2. owed[g] \in SUBSET Tasks /\ WaitGood(owed[g], pc[g], todo[g])
  BY DEF SchedTypes, WaitInv
<1>3. WaitAfter(owed[g], pc[g], todo[g])
  BY <1>2 DEF WaitGood, WaitAfter, Forward
<1> QED BY <1>1, <1>3

LEMMA WaitRunners ==
  ASSUME SchedTypes, Forward, WaitInv, NEW r \in Runners,
         pc' = pc \/ \E p : pc' = [pc EXCEPT ![r] = p], UNCHANGED <<todo, owed>>
  PROVE  WaitInv'
<1>1. \A g \in Hosts : pc'[g] = pc[g] /\ todo'[g] = todo[g] /\ owed'[g] = owed[g]
  BY SpotFacts DEF SchedTypes
<1> SUFFICES ASSUME NEW g \in Hosts PROVE WaitAfter(owed'[g], pc'[g], todo'[g])
  BY DEF WaitInv, WaitGood, WaitAfter
<1>2. owed[g] \in SUBSET Tasks /\ WaitGood(owed[g], pc[g], todo[g])
  BY DEF SchedTypes, WaitInv
<1>3. WaitAfter(owed[g], pc[g], todo[g])
  BY <1>2 DEF WaitGood, WaitAfter, Forward
<1> QED BY <1>1, <1>3

LEMMA HostFrame ==
  ASSUME SchedTypes, NEW h \in Hosts, pc' = pc \/ \E p : pc' = [pc EXCEPT ![h] = p],
         todo' = todo \/ \E t : todo' = [todo EXCEPT ![h] = t],
         owed' = owed \/ \E o : owed' = [owed EXCEPT ![h] = o]
  PROVE  \A g \in Hosts : g # h => pc'[g] = pc[g] /\ todo'[g] = todo[g] /\ owed'[g] = owed[g]
BY DEF SchedTypes

\* The host steps that neither begin nor end a wait.
LEMMA WaitSubmits ==
  ASSUME SchedInv, Forward, WaitInv, NEW h \in Hosts,
         \/ \E x \in Tasks : SubmitStreamTask(h, x) \/ SubmitConcurrentTask(h, x)
                             \/ SubmitNumaTask(h, x) \/ EnqueueToStream(h, x)
         \/ StreamPush(h) \/ StreamEnqueue(h) \/ CountAndNotify(h) \/ RingFull(h)
         \/ CountAndNotifyOne(h)
  PROVE  WaitInv'
<1>0. SchedTypes
  BY Parts
<1>1. pc' = pc \/ \E p : pc' = [pc EXCEPT ![h] = p]
  BY DEF SubmitStreamTask, SubmitConcurrentTask, SubmitNumaTask, EnqueueToStream, StreamPush,
         StreamEnqueue, CountAndNotify, RingFull, CountAndNotifyOne, Goto
<1>2. todo' = todo \/ \E t : todo' = [todo EXCEPT ![h] = t]
  BY DEF SubmitStreamTask, SubmitConcurrentTask, SubmitNumaTask, EnqueueToStream, StreamPush,
         StreamEnqueue, CountAndNotify, RingFull, CountAndNotifyOne
<1>3. owed' = owed
  BY DEF SubmitStreamTask, SubmitConcurrentTask, SubmitNumaTask, EnqueueToStream, StreamPush,
         StreamEnqueue, CountAndNotify, RingFull, CountAndNotifyOne, ghosts
<1>4. \A g \in Hosts : g # h => pc'[g] = pc[g] /\ todo'[g] = todo[g] /\ owed'[g] = owed[g]
  BY <1>0, <1>1, <1>2, <1>3, HostFrame
<1>5. owed[h] \subseteq accepted'
  BY DEF WaitInv, WaitGood, Forward
<1>6. pc'[h] \in {"streamPush", "streamEnqueue", "idle"} \cup Counting
  BY <1>0 DEF SubmitStreamTask, SubmitConcurrentTask, SubmitNumaTask, EnqueueToStream, StreamPush,
              StreamEnqueue, CountAndNotify, RingFull, CountAndNotifyOne, Goto, SchedTypes, Counting
<1>7. pc'[h] \in Counting => todo'[h] \notin StreamTasks
  <2>1. CASE \E x \in Tasks : SubmitStreamTask(h, x)
    BY <1>0, <2>1 DEF SubmitStreamTask, Goto, SchedTypes, Counting
  <2>2. CASE StreamPush(h) \/ StreamEnqueue(h) \/ CountAndNotify(h) \/ CountAndNotifyOne(h)
    BY <1>0, <2>2 DEF StreamPush, StreamEnqueue, CountAndNotify, CountAndNotifyOne, Goto,
                      SchedTypes, Counting
  <2>3. CASE \E x \in Tasks : SubmitConcurrentTask(h, x) \/ SubmitNumaTask(h, x)
                              \/ EnqueueToStream(h, x)
    <3>1. PICK x \in Tasks : /\ x \in SoloTasks \cup NumaTasks \cup RingTasks
                             /\ todo' = [todo EXCEPT ![h] = x]
      BY <2>3 DEF SubmitConcurrentTask, SubmitNumaTask, EnqueueToStream
    <3>2. todo'[h] = x
      BY <1>0, <3>1 DEF SchedTypes
    <3> QED BY <3>1, <3>2, SchedulerAssumption
  <2>4. CASE RingFull(h)
    BY <2>4 DEF RingFull, WaitInv, WaitGood, Counting
  <2> QED BY <2>1, <2>2, <2>3, <2>4
<1>8. WaitAfter(owed'[h], pc'[h], todo'[h])
  BY <1>3, <1>5, <1>6, <1>7 DEF WaitAfter, Counting
<1> QED BY <1>0, <1>4, <1>8, WaitPart

\* The host steps of a wait, except the end of a successful waitAll.
LEMMA WaitWaits ==
  ASSUME SchedInv, Forward, WaitInv, NEW h \in Hosts,
         \/ WaitAll(h) \/ WaitAllTick(h) \/ \E s \in Streams : WaitStream(h, s)
         \/ WaitStreamLook(h) \/ WaitStreamDone(h) \/ WaitTimeout(h) \/ WaitReturn(h)
  PROVE  WaitInv'
<1>0. SchedTypes /\ HostInv /\ WorkInv
  BY Parts
<1>1. pc' = pc \/ \E p : pc' = [pc EXCEPT ![h] = p]
  BY DEF WaitAll, WaitAllTick, WaitStream, WaitStreamLook, WaitStreamDone, WaitTimeout, WaitReturn,
         Goto
<1>2. todo' = todo \/ \E t : todo' = [todo EXCEPT ![h] = t]
  BY DEF WaitAll, WaitAllTick, WaitStream, WaitStreamLook, WaitStreamDone, WaitTimeout, WaitReturn
<1>3. owed' = owed \/ \E o : owed' = [owed EXCEPT ![h] = o]
  BY DEF WaitAll, WaitAllTick, WaitStream, WaitStreamLook, WaitStreamDone, WaitTimeout, WaitReturn,
         ghosts
<1>4. \A g \in Hosts : g # h => pc'[g] = pc[g] /\ todo'[g] = todo[g] /\ owed'[g] = owed[g]
  BY <1>0, <1>1, <1>2, <1>3, HostFrame
<1>5. /\ owed[h] \subseteq accepted' /\ owed[h] \subseteq accepted
      /\ WaitGood(owed[h], pc[h], todo[h]) /\ Submitted \subseteq accepted'
  BY DEF WaitInv, WaitGood, Forward, Submitted
<1>6. /\ h \in DOMAIN pc /\ h \in DOMAIN todo /\ h \in DOMAIN owed
  BY <1>0 DEF SchedTypes
<1>7. WaitAfter(owed'[h], pc'[h], todo'[h])
  <2>1. CASE WaitAll(h) \/ WaitAllTick(h)
    <3>1. pc'[h] = "waitAll" /\ owed'[h] \subseteq accepted'
      BY <1>5, <1>6, <2>1 DEF WaitAll, WaitAllTick, Goto, ghosts
    <3> QED BY <3>1 DEF WaitAfter, Counting
  <2>2. ASSUME NEW s \in Streams, WaitStream(h, s) PROVE WaitAfter(owed'[h], pc'[h], todo'[h])
    <3>1. /\ pc'[h] = "waitStream" /\ todo'[h] = s
          /\ owed'[h] = {x \in Submitted \cap StreamTasks : StreamOf[x] = s}
      BY <1>6, <2>2 DEF WaitStream, Goto
    <3> QED BY <1>5, <3>1 DEF WaitAfter, Counting
  <2>3. CASE WaitStreamLook(h)
    <3>1. pc[h] = "waitStream" /\ pc'[h] = "notProcessing" /\ UNCHANGED <<todo, owed>>
      BY <1>6, <2>3 DEF WaitStreamLook, Goto, ghosts
    <3> QED BY <1>5, <3>1 DEF WaitAfter, WaitGood, Counting
  <2>4. CASE WaitStreamDone(h)
    <3>1. pc[h] = "notProcessing" /\ UNCHANGED <<todo, owed, runs, accepted>>
      BY <2>4 DEF WaitStreamDone, ghosts
    <3>2. pc'[h] = IF pend[todo[h]] = <<>> THEN "waited" ELSE "waitStream"
      BY <1>6, <2>4 DEF WaitStreamDone, Goto
    <3>3. \A x \in owed[h] : x \in StreamTasks /\ StreamOf[x] = todo[h] /\ x \in accepted
      BY <1>5, <3>1 DEF WaitGood
    <3>4. pend[todo[h]] = <<>> => \A x \in owed[h] : runs[x] = 1
      <4> SUFFICES ASSUME pend[todo[h]] = <<>>, NEW x \in owed[h] PROVE runs[x] = 1
        OBVIOUS
      <4>1. ~In(pend[StreamOf[x]], x)
        BY <3>3 DEF In
      <4> QED BY <1>0, <3>3, <4>1 DEF WorkInv, RunInv
    <3> QED BY <1>5, <3>1, <3>2, <3>3, <3>4 DEF WaitAfter, Counting
  <2>5. CASE WaitTimeout(h) \/ WaitReturn(h)
    <3>1. pc'[h] \in {"waited", "idle"} /\ owed'[h] = {}
      BY <1>6, <2>5 DEF WaitTimeout, WaitReturn, Goto
    <3> QED BY <3>1 DEF WaitAfter, Counting
  <2> QED BY <2>1, <2>2, <2>3, <2>4, <2>5
<1> QED BY <1>0, <1>4, <1>7, WaitPart

\* waitAll sees zero: nothing is uncounted, since submitStreamTask counts a task before
\* anyone can run it.
LEMMA WaitAllEnds ==
  ASSUME SoloTasks \cup NumaTasks \cup RingTasks = {},
         SchedInv, CountInv, Forward, WaitInv, NEW h \in Hosts, WaitAllDone(h)
  PROVE  WaitInv'
<1>0. SchedTypes /\ HostInv /\ WorkInv
  BY Parts
<1>1. pending = 0 /\ pc' = [pc EXCEPT ![h] = "waited"] /\ UNCHANGED <<todo, owed, runs, accepted>>
  BY DEF WaitAllDone, Goto, ghosts
<1>2. Late = {}
  <2> SUFFICES ASSUME NEW g \in Hosts, pc[g] \in Counting PROVE FALSE
    BY DEF Late, Uncounted
  <2>1. todo[g] \in Tasks
    BY <1>0 DEF HostInv, Submitting, Counting
  <2>2. todo[g] \notin StreamTasks
    BY DEF WaitInv, WaitGood
  <2> QED BY <2>1, <2>2 DEF Tasks
<1>3. emptied = {}
  BY <1>0 DEF SchedTypes
<1>4. \A x \in accepted : runs[x] = 1
  BY <1>1, <1>2, <1>3, NothingOpen
<1>5. owed[h] \subseteq accepted
  BY DEF WaitInv, WaitGood
<1>6. pc'[h] = "waited"
  BY <1>0, <1>1 DEF SchedTypes
<1>7. WaitAfter(owed'[h], pc'[h], todo'[h])
  BY <1>1, <1>4, <1>5, <1>6 DEF WaitAfter, Counting
<1>8. \A g \in Hosts : g # h => pc'[g] = pc[g] /\ todo'[g] = todo[g] /\ owed'[g] = owed[g]
  BY <1>0, <1>1, HostFrame
<1> QED BY <1>0, <1>7, <1>8, WaitPart

LEMMA WaitStep ==
  ASSUME SoloTasks \cup NumaTasks \cup RingTasks = {},
         SchedInv, SchedInv', CountInv, WaitInv, [Step]_stepVars
  PROVE  WaitInv'
<1>0. SchedTypes /\ Forward
  BY Parts, StepsForward
<1>1. ASSUME NEW h \in Hosts, HostStep(h) PROVE WaitInv'
  BY <1>0, <1>1, WaitSubmits, WaitWaits, WaitAllEnds DEF HostStep
<1>2. ASSUME NEW r \in Runners, RunStep(r) PROVE WaitInv'
  <2>1. \E p : pc' = [pc EXCEPT ![r] = p]
    BY <1>2 DEF RunStep, RunItem, Finish, Spill, Account, Goto
  <2>2. UNCHANGED <<todo, owed>>
    BY <1>2 DEF RunStep, RunItem, Finish, Spill, Account, ghosts
  <2> QED BY <1>0, <2>1, <2>2, WaitRunners
<1>3. ASSUME NEW w \in Workers, WorkerStep(w), ~RunStep(w) PROVE WaitInv'
  <2>1. pc' = pc \/ \E p : pc' = [pc EXCEPT ![w] = p]
    BY <1>3 DEF WorkerStep, WorkerStart, PopOwn, TrySteal, PopRing, LockAndLook, Block, Unblock,
                Took, Goto
  <2>2. UNCHANGED <<todo, owed>>
    BY <1>3 DEF WorkerStep, WorkerStart, PopOwn, TrySteal, PopRing, LockAndLook, Block, Unblock,
                ghosts
  <2> QED BY <1>0, <2>1, <2>2, WaitRunners, SpotFacts
<1>4. CASE DtorStep /\ ~RunStep(Dtor)
  <2>1. pc' = pc \/ \E p : pc' = [pc EXCEPT ![Dtor] = p]
    BY <1>4 DEF DtorStep, BeginDtor, DrainWorker, DrainQueue, Join, Took, Goto
  <2>2. UNCHANGED <<todo, owed>>
    BY <1>4 DEF DtorStep, BeginDtor, DrainWorker, DrainQueue, Join, ghosts
  <2> QED BY <1>0, <2>1, <2>2, WaitRunners, SpotFacts
<1>5. CASE BuildNumaTopology \/ UNCHANGED stepVars
  <2>1. UNCHANGED <<pc, todo, owed>>
    BY <1>5 DEF BuildNumaTopology, stepVars, ghosts
  <2> QED BY <1>0, <2>1, WaitRunners, SpotFacts
<1>6. Workers \subseteq Runners /\ Dtor \in Runners
  BY SpotFacts
<1>7. CASE \E w \in Workers : WorkerStep(w)
  BY <1>2, <1>3, <1>6, <1>7
<1>8. CASE DtorStep
  BY <1>2, <1>4, <1>6, <1>8
<1> QED BY <1>1, <1>5, <1>7, <1>8 DEF Step

\* ~Scheduler has begun, and no host is in a call.
Gone ==
  /\ DOMAIN pc = Runners \cup Hosts
  /\ pc[Dtor] # "alive"
  /\ \A h \in Hosts : pc[h] = "idle"

\* A runner's step leaves the hosts where they are.
LEMMA RunnerGone ==
  ASSUME Gone, NEW r \in Runners, NEW p, pc' = [pc EXCEPT ![r] = p], p # "alive"
  PROVE  Gone'
BY SpotFacts DEF Gone

LEMMA StaysGone == Gone /\ [Next]_vars => Gone'
<1> SUFFICES ASSUME Gone, [Next]_vars PROVE Gone'
  OBVIOUS
<1>1. CASE UNCHANGED pc
  BY <1>1 DEF Gone
<1>2. ASSUME NEW h \in Hosts, HostStep(h) PROVE FALSE
  BY <1>2 DEF Gone, HostStep, SubmitStreamTask, SubmitConcurrentTask, SubmitNumaTask,
     EnqueueToStream, CanSubmit, StreamPush, StreamEnqueue, CountAndNotify, RingFull,
     CountAndNotifyOne, WaitAll, WaitAllDone, WaitAllTick, WaitStream, WaitStreamLook,
     WaitStreamDone, WaitTimeout, WaitReturn, BeginWait
<1>3. ASSUME NEW r \in Runners, RunStep(r) PROVE Gone'
  BY <1>3, RunnerGone DEF RunStep, RunItem, Finish, Spill, Account, Goto
<1>4. ASSUME NEW w \in Workers, WorkerStep(w) PROVE Gone'
  <2>1. w \in Runners
    BY SpotFacts
  <2> QED BY <1>1, <1>3, <1>4, <2>1, RunnerGone
          DEF WorkerStep, WorkerStart, PopOwn, TrySteal, PopRing, LockAndLook, Block, Unblock,
              Took, Goto
<1>5. ASSUME DtorStep PROVE Gone'
  <2>1. Dtor \in Runners
    BY SpotFacts
  <2> QED BY <1>1, <1>3, <1>5, <2>1, RunnerGone
          DEF DtorStep, BeginDtor, DrainWorker, DrainQueue, Join, Took, Goto, Gone
<1>6. CASE BuildNumaTopology
  BY <1>1, <1>6 DEF BuildNumaTopology
<1>7. CASE Race
  <2>1. ASSUME NEW w \in Workers, TakenTwice(w) \/ PopsOverlap(w) PROVE UNCHANGED pc
    BY <2>1 DEF TakenTwice, PopsOverlap, stepVars
  <2>2. ASSUME NEW w \in Workers, FinishLost(w) PROVE Gone'
    BY <2>2, RunnerGone, SpotFacts DEF FinishLost, Goto
  <2>3. ASSUME NEW h \in Hosts, PushOverlaps(h) PROVE FALSE
    BY <2>3 DEF PushOverlaps, Gone
  <2> QED BY <1>1, <1>7, <2>1, <2>2, <2>3 DEF Race
<1>8. CASE UNCHANGED vars
  BY <1>1, <1>8 DEF vars, stepVars
<1> QED BY <1>2, <1>4, <1>5, <1>6, <1>7, <1>8 DEF Next, Step

\* Where no ring is used, two owners of a deque meet in ~Scheduler only.
LEMMA RaceIsLate ==
  ASSUME RingTasks = {}, SchedInv, collided = "no", collided' # "no", [Next]_vars
  PROVE  Gone'
<1>0. SchedTypes /\ HostInv /\ DtorInv
  BY Parts
<1>1. Race
  BY DEF Next, Alone, vars
<1>2. ASSUME NEW h \in Hosts, pc[h] = "ringFull" PROVE FALSE
  BY <1>0, <1>2 DEF HostInv
<1>3. PICK w \in Workers : TakenTwice(w) \/ PopsOverlap(w)
  BY <1>1, <1>2 DEF Race, FinishLost, PushOverlaps
<1>4. pc[Dtor] = "drain" /\ UNCHANGED pc
  BY <1>2, <1>3 DEF TakenTwice, PopsOverlap, stepVars
<1> QED BY <1>0, <1>4 DEF SchedTypes, DtorInv, Gone

\* When every task is submitted with submitStreamTask, a waitAll or waitStream that
\* returns without having timed out has seen every task it was to wait for run: the
\* counter cannot be zero, nor the stream's queue empty, before that.
THEOREM WaitsAreSound ==
  ASSUME SoloTasks \cup NumaTasks \cup RingTasks = {}
  PROVE  Spec => []WaitSound
<1> DEFINE Good == IF collided = "no" THEN WaitInv ELSE Gone
<1>1. Spec => [](collided = "no" => SchedInv)
  BY SchedInvAlways
<1>2. Spec => [](collided = "no" => CountInv)
  BY PendingIsExact
<1>3. Init => Good
  BY SpotFacts DEF Init, WaitInv, WaitGood, Counting
<1>4. /\ collided = "no" => SchedInv
      /\ collided = "no" => CountInv
      /\ (collided = "no" => SchedInv)'
      /\ Good /\ [Next]_vars
      => Good'
  <2> SUFFICES ASSUME collided = "no" => SchedInv /\ CountInv, collided' = "no" => SchedInv',
                      Good, [Next]_vars
               PROVE  Good'
    OBVIOUS
  <2>1. CASE collided' = "no"
    <3>1. collided = "no" /\ [Step]_stepVars
      BY <2>1, AloneSoFar
    <3> QED BY <2>1, <3>1, WaitStep
  <2>2. CASE collided' # "no" /\ collided = "no"
    <3>1. RingTasks = {}
      OBVIOUS
    <3> QED BY <2>2, <3>1, RaceIsLate
  <2>3. CASE collided' # "no" /\ collided # "no"
    BY <2>3, StaysGone
  <2> QED BY <2>1, <2>2, <2>3
<1>5. Good => WaitSound
  BY DEF WaitInv, WaitGood, WaitSound, Gone
<1> HIDE DEF Good
<1> QED BY <1>1, <1>2, <1>3, <1>4, <1>5, PTL DEF Spec
=============================================================================
