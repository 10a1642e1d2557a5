--------------------------- MODULE ServiceProofs ---------------------------
(***************************************************************************)
(* The tables of the services around the engine, for every value of their  *)
(* parameters and every sequence of their operations: the token bucket     *)
(* keeps its rate, the partition of the device into MIG instances is       *)
(* exact, and the cluster's launches run with their own arguments, are     *)
(* counted exactly while in flight and answered at most once.              *)
(***************************************************************************)
EXTENDS RateLimiter, MigManager, ClusterDispatch, FiniteSetTheorems, TLAPS

-----------------------------------------------------------------------------
(* The token bucket *)

LimiterTypes ==
  /\ clock \in Nat /\ tokens \in Nat /\ lastMs \in Nat
  /\ started \in BOOLEAN
  /\ firstMs \in Nat /\ granted \in Nat

\* Before the first call nothing was given out and nothing refilled; from then on
\* the last time is not before the first one.  RateBounded alone is not inductive:
\* its difference would mean nothing.
LimiterInv ==
  /\ LimiterTypes
  /\ ~started => lastMs = 0 /\ firstMs = 0 /\ granted = 0 /\ tokens = Burst
  /\ firstMs <= lastMs
  /\ RateBounded

\* What two spans of time bring is what the whole of them brings.
LEMMA SpansAdd ==
  ASSUME NEW r \in Nat, NEW a \in Nat, NEW b \in Nat, NEW c \in Nat, a <= b, b <= c
  PROVE  /\ r * (b - a) \in Nat
         /\ r * (c - b) \in Nat
         /\ r * (c - a) = r * (b - a) + r * (c - b)
<1>1. PICK x \in Nat : b = a + x
  <2>1. b - a \in Nat /\ b = a + (b - a)
    OBVIOUS
  <2> QED BY <2>1
<1>2. PICK y \in Nat : c = b + y
  <2>1. c - b \in Nat /\ c = b + (c - b)
    OBVIOUS
  <2> QED BY <2>1
<1>3. b - a = x /\ c - b = y /\ c - a = x + y
  BY <1>1, <1>2
<1>4. r * x \in Nat /\ r * y \in Nat /\ r * (x + y) = r * x + r * y
  OBVIOUS
<1> QED BY <1>3, <1>4

\* The refill pays for the time that passed at most, and takes nothing away.
LEMMA RefillBounded ==
  ASSUME LimiterInv, NEW now \in Nat, started
  PROVE  /\ Refilled(now) \in Nat
         /\ RefilledAt(now) \in Nat
         /\ firstMs <= RefilledAt(now)
         /\ granted + Refilled(now) <= Burst + Rate * (RefilledAt(now) - firstMs)
<1> USE LimiterAssumption DEF LimiterInv, LimiterTypes
<1>1. CASE now > lastMs
  <2>1. RefilledAt(now) = now /\ Refilled(now) = Capped(tokens + Rate * (now - lastMs))
    BY <1>1 DEF RefilledAt, Refilled
  <2>2. /\ Rate * (lastMs - firstMs) \in Nat
        /\ Rate * (now - lastMs) \in Nat
        /\ Rate * (now - firstMs) = Rate * (lastMs - firstMs) + Rate * (now - lastMs)
    BY <1>1, SpansAdd
  <2>3. Refilled(now) \in Nat /\ Refilled(now) <= tokens + Rate * (now - lastMs)
    BY <2>1, <2>2 DEF Capped
  <2>4. granted + tokens <= Burst + Rate * (lastMs - firstMs)
    BY DEF RateBounded
  <2> QED BY <1>1, <2>1, <2>2, <2>3, <2>4
<1>2. CASE ~(now > lastMs)
  <2>1. RefilledAt(now) = lastMs /\ Refilled(now) = tokens
    BY <1>2 DEF RefilledAt, Refilled
  <2> QED BY <2>1 DEF RateBounded
<1> QED BY <1>1, <1>2

LEMMA LimiterInvInit == LimiterInit => LimiterInv
<1> SUFFICES ASSUME LimiterInit PROVE LimiterInv
  OBVIOUS
<1>1. Rate * (lastMs - firstMs) = 0
  BY LimiterAssumption DEF LimiterInit
<1>2. started \in BOOLEAN /\ (~started => lastMs = 0 /\ firstMs = 0 /\ granted = 0 /\ tokens = Burst)
  BY Zenon DEF LimiterInit
<1>3. clock \in Nat /\ tokens \in Nat /\ lastMs \in Nat /\ firstMs \in Nat /\ granted \in Nat
  BY LimiterAssumption DEF LimiterInit
<1>4. firstMs <= lastMs /\ RateBounded
  BY <1>1, LimiterAssumption DEF LimiterInit, RateBounded
<1> QED BY <1>2, <1>3, <1>4, Zenon DEF LimiterInv, LimiterTypes

\* A call keeps the bound: what it grants leaves the bucket.
LEMMA TryAcquireKeepsInv ==
  ASSUME LimiterInv, NEW now \in 0..clock, NEW n \in Nat, TryAcquire(now, n)
  PROVE  LimiterInv'
<1> USE LimiterAssumption DEF LimiterInv, LimiterTypes
<1>1. now \in Nat
  OBVIOUS
<1>2. CASE started
  <2>1. /\ Refilled(now) \in Nat /\ RefilledAt(now) \in Nat
        /\ firstMs <= RefilledAt(now)
        /\ granted + Refilled(now) <= Burst + Rate * (RefilledAt(now) - firstMs)
    BY <1>1, <1>2, RefillBounded
  <2>2. started' /\ firstMs' = firstMs /\ lastMs' = RefilledAt(now) /\ clock' = clock
    BY <1>2 DEF TryAcquire
  <2>3. tokens' \in Nat /\ granted' \in Nat /\ granted' + tokens' = granted + Refilled(now)
    BY <2>1 DEF TryAcquire
  <2>4. RateBounded'
    BY <2>1, <2>2, <2>3 DEF RateBounded
  <2> QED BY <2>1, <2>2, <2>3, <2>4 DEF TryAcquire
<1>3. CASE ~started
  <2>1. Refilled(now) = Burst /\ RefilledAt(now) = now
    BY <1>3 DEF Refilled, RefilledAt
  <2>2. started' = TRUE /\ firstMs' = now /\ lastMs' = now /\ clock' = clock
    BY <1>3, <2>1 DEF TryAcquire
  <2>3. tokens' \in Nat /\ granted' \in Nat /\ granted' + tokens' = Burst
    BY <1>3, <2>1 DEF TryAcquire
  <2>4. Rate * (lastMs' - firstMs') = 0
    BY <1>1, <2>2
  <2>5. RateBounded'
    <3>1. granted' + tokens' <= Burst + 0
      <4>1. Burst <= Burst + 0
        OBVIOUS
      <4> QED BY <2>3, <4>1, Zenon
    <3> QED BY <2>4, <3>1, Zenon DEF RateBounded
  <2>6. started' \in BOOLEAN /\ started'
    BY <2>2, Zenon
  <2> QED BY <1>1, <2>2, <2>3, <2>5, <2>6
<1> QED BY <1>2, <1>3

LEMMA LimiterInvNext == LimiterInv /\ [LimiterNext]_limiterVars => LimiterInv'
<1> SUFFICES ASSUME LimiterInv, [LimiterNext]_limiterVars PROVE LimiterInv'
  OBVIOUS
<1>1. CASE TickLimiter
  BY <1>1 DEF TickLimiter, LimiterInv, LimiterTypes, RateBounded
<1>2. ASSUME NEW now \in 0..clock, Available(now) PROVE LimiterInv'
  BY <1>2, TryAcquireKeepsInv DEF Available
<1>3. ASSUME NEW now \in 0..clock, NEW n \in TokenCounts, TryAcquire(now, n) PROVE LimiterInv'
  BY <1>3, TryAcquireKeepsInv, LimiterAssumption
<1>4. CASE UNCHANGED limiterVars
  BY <1>4 DEF limiterVars, LimiterInv, LimiterTypes, RateBounded
<1> QED BY <1>1, <1>2, <1>3, <1>4 DEF LimiterNext

\* The limiter never gives out more than one burst and what the time since the
\* first call brings, whatever clock values tryAcquire and available are given.
THEOREM LimiterRateBounded == LimiterSpec => []RateBounded
<1>1. LimiterInv => RateBounded
  BY DEF LimiterInv
<1> QED BY <1>1, LimiterInvInit, LimiterInvNext, PTL DEF LimiterSpec

-----------------------------------------------------------------------------
(* The partition of the device *)

MigTypes ==
  /\ seeding \in Seq(Requests)
  /\ instances \in [DOMAIN instances -> GpuInstance]
  /\ nextUuid \in Nat
  /\ DOMAIN instances \subseteq 0..(nextUuid - 1)

\* PartitionExact needs that a new UUID is fresh and that instances are records
\* whose ranges the other operations leave alone.
MigInv == MigTypes /\ PartitionExact

-----------------------------------------------------------------------------
(* Partitions of a set into the values of a function *)

Partition(used, parts) ==
  /\ used = UNION {parts[u] : u \in DOMAIN parts}
  /\ \A u, v \in DOMAIN parts : u # v => parts[u] \cap parts[v] = {}

\* new has one part more than parts, or one less.
Added(new, parts, n, part) ==
  /\ n \notin DOMAIN parts
  /\ DOMAIN new = DOMAIN parts \union {n}
  /\ new[n] = part
  /\ \A u \in DOMAIN parts : new[u] = parts[u]
Removed(new, parts, n) ==
  /\ n \in DOMAIN parts
  /\ DOMAIN new = DOMAIN parts \ {n}
  /\ \A u \in DOMAIN new : new[u] = parts[u]

\* Slots that are free make a new part.
LEMMA PartAdded ==
  ASSUME NEW used, NEW parts, Partition(used, parts),
         NEW n, NEW R, NEW new, Added(new, parts, n, R), R \cap used = {}
  PROVE  Partition(used \union R, new)
<1> USE DEF Added
<1>1. used = UNION {parts[u] : u \in DOMAIN parts}
  BY DEF Partition
<1>2. ASSUME NEW x PROVE x \in used \union R <=> x \in UNION {new[u] : u \in DOMAIN new}
  BY <1>1
<1>3. used \union R = UNION {new[u] : u \in DOMAIN new}
  BY <1>2
<1>4. ASSUME NEW u \in DOMAIN new, NEW v \in DOMAIN new, u # v
      PROVE  new[u] \cap new[v] = {}
  <2>1. CASE u \in DOMAIN parts /\ v \in DOMAIN parts
    BY <1>4, <2>1 DEF Partition
  <2>2. CASE u = n /\ v \in DOMAIN parts
    <3>1. parts[v] \subseteq used
      BY <1>1, <2>2
    <3> QED BY <2>2, <3>1
  <2>3. CASE v = n /\ u \in DOMAIN parts
    <3>1. parts[u] \subseteq used
      BY <1>1, <2>3
    <3> QED BY <2>3, <3>1
  <2> QED BY <1>4, <2>1, <2>2, <2>3
<1> QED BY <1>3, <1>4 DEF Partition

\* A part taken out leaves a partition of the rest.
LEMMA PartRemoved ==
  ASSUME NEW used, NEW parts, Partition(used, parts),
         NEW n, NEW new, Removed(new, parts, n)
  PROVE  Partition(used \ parts[n], new)
<1> USE DEF Removed
<1>1. ASSUME NEW x PROVE x \in used \ parts[n] <=> x \in UNION {new[u] : u \in DOMAIN new}
  <2>1. ASSUME x \in used, x \notin parts[n] PROVE \E u \in DOMAIN new : x \in new[u]
    BY <2>1 DEF Partition
  <2>2. ASSUME NEW u \in DOMAIN new, x \in new[u] PROVE x \in used /\ x \notin parts[n]
    BY <2>2 DEF Partition
  <2> QED BY <2>1, <2>2
<1>2. used \ parts[n] = UNION {new[u] : u \in DOMAIN new}
  BY <1>1
<1> QED BY <1>2 DEF Partition

-----------------------------------------------------------------------------
(* The invariant as two partitions *)

ComputeParts(inst) ==
  [u \in DOMAIN inst |-> SliceRange(inst[u].computeStart, inst[u].computeCount)]
MemParts(inst) ==
  [u \in DOMAIN inst |-> SliceRange(inst[u].memStart, inst[u].memCount)]

Exact(cu, mu, inst, act) ==
  /\ Partition(cu, ComputeParts(inst))
  /\ Partition(mu, MemParts(inst))
  /\ cu \subseteq 0..(ComputeSlices - 1) /\ mu \subseteq 0..(MemSlices - 1)
  /\ act \subseteq DOMAIN inst

LEMMA PartsUnfold ==
  ASSUME NEW cu, NEW inst, NEW C, C = ComputeParts(inst) \/ C = MemParts(inst)
  PROVE  Partition(cu, C) <=>
           /\ cu = UNION {C[u] : u \in DOMAIN inst}
           /\ \A u, v \in DOMAIN inst : u # v => C[u] \cap C[v] = {}
<1>1. DOMAIN C = DOMAIN inst
  BY DEF ComputeParts, MemParts
<1> QED BY <1>1 DEF Partition

LEMMA ExactIsPartitionExact ==
  PartitionExact <=> Exact(computeUsed, memUsed, instances, active)
<1> DEFINE C == ComputeParts(instances)
           M == MemParts(instances)
<1>1. \A u \in DOMAIN instances : C[u] = ComputeOf(u) /\ M[u] = MemOf(u)
  BY DEF ComputeParts, MemParts, ComputeOf, MemOf
<1>2. /\ {C[u] : u \in DOMAIN instances} = {ComputeOf(u) : u \in DOMAIN instances}
      /\ {M[u] : u \in DOMAIN instances} = {MemOf(u) : u \in DOMAIN instances}
  BY <1>1
<1>3. Partition(computeUsed, C) <=>
        /\ computeUsed = UNION {ComputeOf(u) : u \in DOMAIN instances}
        /\ \A u, v \in DOMAIN instances : u # v => ComputeOf(u) \cap ComputeOf(v) = {}
  BY <1>1, <1>2, PartsUnfold
<1>4. Partition(memUsed, M) <=>
        /\ memUsed = UNION {MemOf(u) : u \in DOMAIN instances}
        /\ \A u, v \in DOMAIN instances : u # v => MemOf(u) \cap MemOf(v) = {}
  BY <1>1, <1>2, PartsUnfold
<1> HIDE DEF C, M
<1>5. PartitionExact <=>
        /\ Partition(computeUsed, C) /\ Partition(memUsed, M)
        /\ computeUsed \subseteq 0..(ComputeSlices - 1) /\ memUsed \subseteq 0..(MemSlices - 1)
        /\ active \subseteq DOMAIN instances
  BY <1>3, <1>4, Zenon DEF PartitionExact
<1> QED BY <1>5, Zenon DEF Exact, C, M

LEMMA ExactAfterStep ==
  PartitionExact' <=> Exact(computeUsed', memUsed', instances', active')
<1>1. (PartitionExact <=> Exact(computeUsed, memUsed, instances, active))'
  BY ExactIsPartitionExact, PTL
<1> QED BY <1>1, Zenon

-----------------------------------------------------------------------------
(* Each operation keeps the invariant *)

LEMMA MemSlicesForType == \A p \in Profiles : p \in Nat /\ MemSlicesFor(p) \in Nat
BY DEF Profiles, MemSlicesFor

LEMMA MigInvInit == MigInit => MigInv
<1> SUFFICES ASSUME MigInit PROVE MigInv
  OBVIOUS
<1>1. DOMAIN instances = {}
  BY DEF MigInit
<1>2. MigTypes
  BY <1>1 DEF MigTypes, MigInit
<1>3. PartitionExact
  BY <1>1 DEF PartitionExact, MigInit
<1> QED BY <1>2, <1>3 DEF MigInv

\* Placing an instance, or giving its compute slots back when no memory range is
\* free, keeps the partition.
LEMMA PlaceKeepsInv ==
  ASSUME MigInv, NEW p \in Requests, Place(p), active' \subseteq DOMAIN instances',
         seeding' \in Seq(Requests)
  PROVE  MigInv'
<1> USE MigAssumption DEF MigInv
<1>1. p \in Nat /\ MemSlicesFor(p) \in Nat
  BY MemSlicesForType
<1>2. PICK cs \in 0..ComputeSlices :
        /\ FirstFit(cs, p, computeUsed, ComputeSlices)
        /\ \/ \E ms \in 0..MemSlices :
                /\ FirstFit(ms, MemSlicesFor(p), memUsed, MemSlices)
                /\ nextUuid < MaxUuids
                /\ computeUsed' = computeUsed \union SliceRange(cs, p)
                /\ memUsed' = memUsed \union SliceRange(ms, MemSlicesFor(p))
                /\ instances' = [u \in DOMAIN instances \union {nextUuid} |->
                                   IF u = nextUuid THEN NewInstance(p, cs, ms)
                                   ELSE instances[u]]
                /\ nextUuid' = nextUuid + 1
           \/ /\ NoFit(MemSlicesFor(p), memUsed, MemSlices)
              /\ computeUsed' = RollBack(computeUsed \union SliceRange(cs, p), cs, p)
              /\ UNCHANGED <<memUsed, instances, nextUuid>>
  BY DEF Place
<1>3. SliceRange(cs, p) \cap computeUsed = {} /\ SliceRange(cs, p) \subseteq 0..(ComputeSlices - 1)
  BY <1>1, <1>2 DEF FirstFit, Fits, SliceRange
<1>4. Exact(computeUsed, memUsed, instances, active)
  BY ExactIsPartitionExact
<1>5. CASE \E ms \in 0..MemSlices :
             /\ FirstFit(ms, MemSlicesFor(p), memUsed, MemSlices)
             /\ nextUuid < MaxUuids
             /\ computeUsed' = computeUsed \union SliceRange(cs, p)
             /\ memUsed' = memUsed \union SliceRange(ms, MemSlicesFor(p))
             /\ instances' = [u \in DOMAIN instances \union {nextUuid} |->
                                IF u = nextUuid THEN NewInstance(p, cs, ms)
                                ELSE instances[u]]
             /\ nextUuid' = nextUuid + 1
  <2>1. PICK ms \in 0..MemSlices :
             /\ FirstFit(ms, MemSlicesFor(p), memUsed, MemSlices)
             /\ nextUuid < MaxUuids
             /\ computeUsed' = computeUsed \union SliceRange(cs, p)
             /\ memUsed' = memUsed \union SliceRange(ms, MemSlicesFor(p))
             /\ instances' = [u \in DOMAIN instances \union {nextUuid} |->
                                IF u = nextUuid THEN NewInstance(p, cs, ms)
                                ELSE instances[u]]
             /\ nextUuid' = nextUuid + 1
    BY <1>5
  <2> DEFINE R == SliceRange(cs, p)
             S == SliceRange(ms, MemSlicesFor(p))
             C == ComputeParts(instances)
             M == MemParts(instances)
  <2>2. S \cap memUsed = {} /\ S \subseteq 0..(MemSlices - 1)
    BY <1>1, <2>1 DEF FirstFit, Fits, SliceRange
  <2>3. nextUuid \notin DOMAIN instances
    BY DEF MigTypes
  <2>4. DOMAIN C = DOMAIN instances /\ DOMAIN M = DOMAIN instances
    BY DEF ComputeParts, MemParts
  <2>5. /\ NewInstance(p, cs, ms).computeStart = cs /\ NewInstance(p, cs, ms).computeCount = p
        /\ NewInstance(p, cs, ms).memStart = ms
        /\ NewInstance(p, cs, ms).memCount = MemSlicesFor(p)
    BY DEF NewInstance
  <2>6. Added(ComputeParts(instances'), C, nextUuid, R)
    BY <2>1, <2>3, <2>4, <2>5 DEF ComputeParts, Added
  <2>7. Added(MemParts(instances'), M, nextUuid, S)
    BY <2>1, <2>3, <2>4, <2>5 DEF MemParts, Added
  <2>8. Partition(computeUsed \union R, ComputeParts(instances'))
    <3>1. Partition(computeUsed, C) /\ R \cap computeUsed = {}
      BY <1>3, <1>4 DEF Exact
    <3> HIDE DEF R, C
    <3> QED BY <2>6, <3>1, PartAdded
  <2>9. Partition(memUsed \union S, MemParts(instances'))
    <3>1. Partition(memUsed, M) /\ S \cap memUsed = {}
      BY <1>4, <2>2 DEF Exact
    <3> HIDE DEF S, M
    <3> QED BY <2>7, <3>1, PartAdded
  <2> HIDE DEF R, S, C, M
  <2>10. computeUsed' = computeUsed \union R /\ memUsed' = memUsed \union S
    BY <2>1 DEF R, S
  <2>11. computeUsed' \subseteq 0..(ComputeSlices - 1) /\ memUsed' \subseteq 0..(MemSlices - 1)
    BY <1>3, <1>4, <2>2, <2>10 DEF Exact, R
  <2>12. PartitionExact'
    BY <2>8, <2>9, <2>10, <2>11, ExactAfterStep DEF Exact
  <2>13. NewInstance(p, cs, ms) \in GpuInstance
    <3>1. SliceBytes * MemSlicesFor(p) \in Nat
      BY <1>1
    <3> QED BY <1>1, <3>1 DEF NewInstance, GpuInstance
  <2>14. MigTypes'
    BY <2>1, <2>13 DEF MigTypes
  <2> QED BY <2>12, <2>14
<1>6. CASE /\ computeUsed' = RollBack(computeUsed \union SliceRange(cs, p), cs, p)
           /\ UNCHANGED <<memUsed, instances, nextUuid>>
  <2>1. computeUsed' = computeUsed
    BY <1>3, <1>6 DEF RollBack
  <2>2. PartitionExact'
    BY <1>4, <1>6, <2>1, ExactAfterStep DEF Exact
  <2>3. MigTypes'
    BY <1>6 DEF MigTypes
  <2> QED BY <2>2, <2>3
<1> QED BY <1>2, <1>5, <1>6

\* Destroying an instance gives back its slots and no others'.
LEMMA DestroyKeepsInv ==
  ASSUME MigInv, NEW u \in DOMAIN instances, DestroyGpuInstance(u)
  PROVE  MigInv'
<1> DEFINE C == ComputeParts(instances)
           M == MemParts(instances)
<1>1. Exact(computeUsed, memUsed, instances, active)
  BY ExactIsPartitionExact DEF MigInv
<1>2. /\ instances' = [v \in DOMAIN instances \ {u} |-> instances[v]]
      /\ computeUsed' = computeUsed \ C[u] /\ memUsed' = memUsed \ M[u]
      /\ active' = active \ {u}
      /\ UNCHANGED <<seeding, nextUuid>>
  BY DEF DestroyGpuInstance, ComputeParts, MemParts
<1>3. Removed(ComputeParts(instances'), C, u) /\ Removed(MemParts(instances'), M, u)
  BY <1>2 DEF ComputeParts, MemParts, Removed
<1>4. Partition(computeUsed, C) /\ Partition(memUsed, M)
  BY <1>1 DEF Exact
<1>5. DOMAIN instances' = DOMAIN instances \ {u}
  BY <1>2
<1> HIDE DEF C, M
<1>6. Partition(computeUsed', ComputeParts(instances')) /\ Partition(memUsed', MemParts(instances'))
  BY <1>2, <1>3, <1>4, PartRemoved
<1>7. PartitionExact'
  <2>1. /\ computeUsed' \subseteq 0..(ComputeSlices - 1) /\ memUsed' \subseteq 0..(MemSlices - 1)
        /\ active' \subseteq DOMAIN instances'
    BY <1>1, <1>2, <1>5 DEF Exact
  <2> QED BY <1>6, <2>1, ExactAfterStep DEF Exact
<1>8. MigTypes'
  BY <1>2 DEF MigInv, MigTypes
<1> QED BY <1>7, <1>8 DEF MigInv

\* The operations on one instance's counters change no range.
LEMMA CountersKeepInv ==
  ASSUME MigInv, NEW u \in DOMAIN instances, NEW g \in GpuInstance,
         g.computeStart = instances[u].computeStart, g.computeCount = instances[u].computeCount,
         g.memStart = instances[u].memStart, g.memCount = instances[u].memCount,
         instances' = [instances EXCEPT ![u] = g],
         UNCHANGED <<seeding, computeUsed, memUsed, active, nextUuid>>
  PROVE  MigInv'
<1>1. Exact(computeUsed, memUsed, instances, active)
  BY ExactIsPartitionExact DEF MigInv
<1>2. DOMAIN instances' = DOMAIN instances
  OBVIOUS
<1>3. \A v \in DOMAIN instances : /\ instances'[v].computeStart = instances[v].computeStart
                                  /\ instances'[v].computeCount = instances[v].computeCount
                                  /\ instances'[v].memStart = instances[v].memStart
                                  /\ instances'[v].memCount = instances[v].memCount
  OBVIOUS
<1>4. ComputeParts(instances') = ComputeParts(instances) /\ MemParts(instances') = MemParts(instances)
  BY <1>2, <1>3 DEF ComputeParts, MemParts
<1>5. PartitionExact'
  BY <1>1, <1>2, <1>4, ExactAfterStep DEF Exact
<1>6. MigTypes'
  BY <1>2 DEF MigInv, MigTypes
<1> QED BY <1>5, <1>6 DEF MigInv

LEMMA MigInvNext == MigInv /\ [MigNext]_migVars => MigInv'
<1> SUFFICES ASSUME MigInv, [MigNext]_migVars PROVE MigInv'
  OBVIOUS
<1> USE MigAssumption
<1>1. ASSUME NEW seed \in Seeds, NEW device, ConfigureDevice(seed, device) PROVE MigInv'
  <2>1. seeding' \in Seq(Requests)
    BY <1>1 DEF ConfigureDevice
  <2> QED BY <1>1, <2>1 DEF ConfigureDevice, MigInv, MigTypes, PartitionExact, ComputeOf, MemOf
<1>2. CASE SeedNext
  <2>1. /\ seeding \in Seq(Requests) /\ seeding # <<>>
        /\ Head(seeding) \in Requests /\ seeding' \in Seq(Requests)
    BY <1>2 DEF SeedNext, MigInv, MigTypes
  <2>2. active \subseteq DOMAIN instances
    BY DEF MigInv, PartitionExact
  <2>3. CASE Place(Head(seeding))
    <3>1. DOMAIN instances \subseteq DOMAIN instances'
      BY <2>3 DEF Place
    <3>2. active' \subseteq DOMAIN instances'
      BY <1>2, <2>2, <3>1 DEF SeedNext
    <3> QED BY <2>1, <2>3, <3>2, PlaceKeepsInv
  <2>4. CASE UNCHANGED <<computeUsed, memUsed, instances, nextUuid>>
    <3>1. active' \subseteq DOMAIN instances'
      BY <1>2, <2>2, <2>4 DEF SeedNext
    <3> QED BY <2>1, <2>4, <3>1 DEF MigInv, MigTypes, PartitionExact, ComputeOf, MemOf
  <2> QED BY <1>2, <2>3, <2>4 DEF SeedNext
<1>3. ASSUME NEW p \in Requests, CreateGpuInstance(p) PROVE MigInv'
  <2>1. DOMAIN instances \subseteq DOMAIN instances'
    BY <1>3 DEF CreateGpuInstance, Place
  <2>2. active' \subseteq DOMAIN instances' /\ seeding' \in Seq(Requests)
    BY <1>3, <2>1 DEF CreateGpuInstance, MigInv, MigTypes, PartitionExact
  <2> QED BY <1>3, <2>2, PlaceKeepsInv DEF CreateGpuInstance
<1>4. ASSUME NEW u \in DOMAIN instances, DestroyGpuInstance(u) PROVE MigInv'
  BY <1>4, DestroyKeepsInv
<1>5. ASSUME NEW u \in DOMAIN instances, SetActiveInstance(u) PROVE MigInv'
  BY <1>5 DEF SetActiveInstance, MigInv, MigTypes, PartitionExact, ComputeOf, MemOf
<1>6. ASSUME NEW u \in DOMAIN instances, NEW n \in Requests, CreateComputeInstance(u, n)
      PROVE  MigInv'
  <2> DEFINE g == [instances[u] EXCEPT !.ciUsed = @ + n]
  <2>1. instances[u] \in GpuInstance /\ n \in Nat
    BY MemSlicesForType DEF MigInv, MigTypes
  <2>2. /\ g \in GpuInstance
        /\ g.computeStart = instances[u].computeStart /\ g.computeCount = instances[u].computeCount
        /\ g.memStart = instances[u].memStart /\ g.memCount = instances[u].memCount
    BY <2>1 DEF GpuInstance
  <2>3. /\ instances' = [instances EXCEPT ![u] = g]
        /\ UNCHANGED <<seeding, computeUsed, memUsed, active, nextUuid>>
    BY <1>6 DEF CreateComputeInstance
  <2> HIDE DEF g
  <2> QED BY <2>2, <2>3, CountersKeepInv
<1>7. ASSUME NEW u \in DOMAIN instances, NEW b \in Amounts,
             InstanceAllocate(u, b) \/ InstanceFree(u, b)
      PROVE  MigInv'
  <2>1. instances[u] \in GpuInstance /\ b \in Nat /\ instances[u].used \in Nat
    BY DEF MigInv, MigTypes, GpuInstance
  <2>2. PICK n \in Nat : /\ instances' = [instances EXCEPT ![u].used = n]
                         /\ UNCHANGED <<seeding, computeUsed, memUsed, active, nextUuid>>
    <3>1. CASE InstanceAllocate(u, b)
      <4>1. (instances[u].used + b) % Modulus \in Nat
        BY <2>1
      <4> QED BY <3>1, <4>1 DEF InstanceAllocate
    <3>2. CASE InstanceFree(u, b)
      <4>1. (IF b >= instances[u].used THEN 0 ELSE instances[u].used - b) \in Nat
        BY <2>1
      <4> QED BY <3>2, <4>1 DEF InstanceFree
    <3> QED BY <1>7, <3>1, <3>2
  <2> DEFINE g == [instances[u] EXCEPT !.used = n]
  <2>3. /\ g \in GpuInstance
        /\ g.computeStart = instances[u].computeStart /\ g.computeCount = instances[u].computeCount
        /\ g.memStart = instances[u].memStart /\ g.memCount = instances[u].memCount
    BY <2>1 DEF GpuInstance
  <2>4. instances' = [instances EXCEPT ![u] = g]
    BY <2>2
  <2> HIDE DEF g
  <2> QED BY <2>2, <2>3, <2>4, CountersKeepInv
<1>8. CASE ClearActiveInstance
  BY <1>8 DEF ClearActiveInstance, MigInv, MigTypes, PartitionExact, ComputeOf, MemOf
<1>9. CASE Reset
  <2>1. DOMAIN instances' = {} /\ computeUsed' = {} /\ memUsed' = {} /\ active' = {}
    BY <1>9 DEF Reset
  <2>2. PartitionExact'
    BY <2>1 DEF PartitionExact
  <2>3. MigTypes'
    BY <1>9, <2>1 DEF Reset, MigInv, MigTypes
  <2> QED BY <2>2, <2>3 DEF MigInv
<1>10. CASE UNCHANGED migVars
  BY <1>10 DEF migVars, MigInv, MigTypes, PartitionExact, ComputeOf, MemOf
<1> QED BY <1>1, <1>2, <1>3, <1>4, <1>5, <1>6, <1>7, <1>8, <1>9, <1>10 DEF MigNext

\* No sequence of seeding, half-failed creations, destructions, allocations and
\* resets makes two instances share a slot or the slot maps disagree with the
\* instances, whatever the device's geometry.
THEOREM MigPartitionExact == MigSpec => []PartitionExact
<1>1. MigInv => PartitionExact
  BY DEF MigInv
<1> QED BY <1>1, MigInvInit, MigInvNext, PTL DEF MigSpec

-----------------------------------------------------------------------------
(* The cluster *)

Packet == [launch : Nat, kernel : Kernels, args : [Indices -> Nat], early : BOOLEAN]

\* The arguments of a launch are its own, or missing if it was early.
Whole(p) ==
  \A i \in 1..Arity[p.kernel] : p.args[i] = p.launch \/ (p.early /\ p.args[i] = 0)

Id(p)       == <<p.launch, p.kernel>>
Ids(q)      == {Id(q[i]) : i \in 1..Len(q)}
Distinct(q) == \A i, j \in 1..Len(q) : q[i].launch = q[j].launch => i = j
Apart(S, T) == \A x \in S, y \in T : x[1] # y[1]
Among(S)    == \A x \in S : \E r \in executed : Id(r) = x

\* What is under way on a connection.
All(c) == Ids(txq[c]) \union Ids(toWorker[c]) \union Ids(toMaster[c])

ConnState == [active : BOOLEAN, ready : BOOLEAN, inFlight : Nat, lost : Nat]

ClusterTypes ==
  /\ made \in Nat /\ remotes \in Nat
  /\ conn \in [Conns -> ConnState]
  /\ txq \in [Conns -> Seq(Packet)]
  /\ toWorker \in [Conns -> Seq(Packet)]
  /\ toMaster \in [Conns -> Seq(Packet)]
  /\ tail \in [Conns -> [Indices -> Nat]]
  /\ remoteMap \in [Kernels -> Nat]
  /\ host = [h \in Hosts |-> host[h]]

\* A connection is made once: before it nothing was sent, and after its end the
\* queues stay empty.
Flight(c) ==
  /\ conn[c].active =>
       conn[c].inFlight = Len(txq[c]) + Len(toWorker[c]) + Len(toMaster[c]) + conn[c].lost
  /\ ~conn[c].active => txq[c] = <<>> /\ toWorker[c] = <<>> /\ toMaster[c] = <<>>
  /\ c > made => ~conn[c].active /\ conn[c].inFlight = 0 /\ conn[c].lost = 0

\* A launch still queued before the handshake has ended is an early one, so only
\* an early one can lose arguments.
Arguments(c) ==
  /\ \A i \in 1..Len(txq[c]) : Whole(txq[c][i]) /\ (~conn[c].ready => txq[c][i].early)
  /\ \A i \in 1..Len(toWorker[c]) : Whole(toWorker[c][i])

\* A launch is under way once; a response is one of a launch that was taken up.
Once(c) ==
  /\ Distinct(txq[c]) /\ Distinct(toWorker[c]) /\ Distinct(toMaster[c])
  /\ Apart(Ids(txq[c]), Ids(toWorker[c]))
  /\ Apart(Ids(txq[c]), Ids(toMaster[c]))
  /\ Apart(Ids(toWorker[c]), Ids(toMaster[c]))
  /\ Among(Ids(toMaster[c]))

ConnInv == \A c \in Conns : Flight(c) /\ Arguments(c) /\ Once(c)

-----------------------------------------------------------------------------
(* Queues *)

LEMMA IndexFacts ==
  /\ Indices \subseteq Nat /\ NoArgs \in [Indices -> Nat]
  /\ \A k \in Kernels : Arity[k] \in Nat /\ 1..Arity[k] \subseteq Indices
BY ClusterAssumption DEF Indices, NoArgs

LEMMA ConnsFacts == Conns \subseteq Nat
<1>1. Cardinality(Conns) \in Nat /\ Conns = 1..Cardinality(Conns)
  BY ClusterAssumption, FS_CardinalityType
<1> QED BY <1>1

LEMMA AppendQueue ==
  ASSUME NEW q \in Seq(Packet), NEW p \in Packet
  PROVE  /\ Append(q, p) \in Seq(Packet) /\ Len(Append(q, p)) = Len(q) + 1
         /\ Len(q) \in Nat
         /\ Append(q, p)[Len(q) + 1] = p
         /\ \A i \in 1..Len(q) : Append(q, p)[i] = q[i]
         /\ Ids(Append(q, p)) = Ids(q) \union {Id(p)}
         /\ Distinct(q) /\ (\A x \in Ids(q) : x[1] # p.launch) => Distinct(Append(q, p))
<1> DEFINE a == Append(q, p)
<1>1. /\ a \in Seq(Packet) /\ Len(a) = Len(q) + 1 /\ Len(q) \in Nat
      /\ a[Len(q) + 1] = p
      /\ \A i \in 1..Len(q) : a[i] = q[i]
  OBVIOUS
<1>2. PICK n \in Nat : n = Len(q)
  BY <1>1
<1> HIDE DEF a
<1>3. 1..Len(a) = 1..n \union {n + 1}
  BY <1>1, <1>2
<1>4. Ids(a) = Ids(q) \union {Id(p)}
  BY <1>1, <1>2, <1>3 DEF Ids
<1>5. ASSUME Distinct(q), \A x \in Ids(q) : x[1] # p.launch
      PROVE  Distinct(a)
  <2> SUFFICES ASSUME NEW i \in 1..Len(a), NEW j \in 1..Len(a), a[i].launch = a[j].launch
               PROVE  i = j
    BY DEF Distinct
  <2>1. \A m \in 1..n : q[m].launch # p.launch
    <3>1. \A m \in 1..n : Id(q[m]) \in Ids(q)
      BY <1>2 DEF Ids
    <3> QED BY <1>5, <3>1 DEF Id
  <2> QED BY <1>1, <1>2, <1>3, <1>5, <2>1 DEF Distinct
<1> QED BY <1>1, <1>4, <1>5 DEF a

LEMMA TailQueue ==
  ASSUME NEW q \in Seq(Packet), q # <<>>
  PROVE  /\ Tail(q) \in Seq(Packet) /\ Head(q) \in Packet /\ Head(q) = q[1]
         /\ Len(Tail(q)) \in Nat /\ Len(q) = Len(Tail(q)) + 1 /\ 1 \in 1..Len(q)
         /\ \A i \in 1..Len(Tail(q)) : i + 1 \in 1..Len(q) /\ Tail(q)[i] = q[i + 1]
         /\ Ids(Tail(q)) \subseteq Ids(q) /\ Id(Head(q)) \in Ids(q)
         /\ Ids(q) = Ids(Tail(q)) \union {Id(Head(q))}
         /\ Distinct(q) => Distinct(Tail(q)) /\ Apart({Id(Head(q))}, Ids(Tail(q)))
<1> DEFINE t == Tail(q)
<1>1. Len(q) \in Nat /\ Len(q) # 0
  OBVIOUS
<1>2. PICK n \in Nat : Len(q) = n + 1
  <2>1. Len(q) - 1 \in Nat /\ Len(q) = (Len(q) - 1) + 1
    BY <1>1
  <2> QED BY <2>1
<1>3. t \in Seq(Packet) /\ Len(t) = n /\ Head(q) \in Packet /\ Head(q) = q[1]
      /\ \A i \in 1..n : t[i] = q[i + 1]
  BY <1>2
<1> HIDE DEF t
<1>4. 1 \in 1..Len(q) /\ \A i \in 1..n : i + 1 \in 1..Len(q)
  BY <1>2
<1>5. Ids(t) \subseteq Ids(q) /\ Id(Head(q)) \in Ids(q)
  BY <1>3, <1>4 DEF Ids
<1>6. Ids(q) = Ids(t) \union {Id(Head(q))}
  <2> SUFFICES ASSUME NEW i \in 1..Len(q), i # 1
               PROVE  Id(q[i]) \in Ids(t)
    BY <1>3, <1>5 DEF Ids
  <2>1. i - 1 \in 1..n /\ (i - 1) + 1 = i
    BY <1>2
  <2>2. q[i] = t[i - 1]
    BY <1>3, <2>1
  <2> QED BY <1>3, <2>1, <2>2 DEF Ids
<1>7. ASSUME Distinct(q)
      PROVE  Distinct(t) /\ Apart({Id(Head(q))}, Ids(t))
  <2>1. Distinct(t)
    <3> SUFFICES ASSUME NEW i \in 1..n, NEW j \in 1..n, t[i].launch = t[j].launch
                 PROVE  i = j
      BY <1>3 DEF Distinct
    <3>1. i + 1 = j + 1
      BY <1>3, <1>4, <1>7 DEF Distinct
    <3> QED BY <3>1
  <2>2. \A i \in 1..n : q[i + 1].launch # q[1].launch
    BY <1>4, <1>7 DEF Distinct
  <2>3. \A i \in 1..n : t[i].launch # Head(q).launch
    BY <1>3, <2>2
  <2> QED BY <1>3, <2>1, <2>3 DEF Apart, Ids, Id
<1> QED BY <1>2, <1>3, <1>4, <1>5, <1>6, <1>7 DEF t

LEMMA EmptyQueue == Ids(<<>>) = {} /\ Distinct(<<>>) /\ Len(<<>>) = 0
BY DEF Ids, Distinct

LEMMA QueueTypes ==
  ASSUME ClusterTypes, NEW c \in Conns
  PROVE  /\ txq[c] \in Seq(Packet) /\ toWorker[c] \in Seq(Packet) /\ toMaster[c] \in Seq(Packet)
         /\ Len(txq[c]) \in Nat /\ Len(toWorker[c]) \in Nat /\ Len(toMaster[c]) \in Nat
         /\ conn[c] \in ConnState
         /\ conn[c].active \in BOOLEAN /\ conn[c].ready \in BOOLEAN
         /\ conn[c].inFlight \in Nat /\ conn[c].lost \in Nat
BY DEF ClusterTypes, ConnState

\* What does not touch a connection keeps its part of the invariant.
LEMMA ConnStays ==
  ASSUME NEW c \in Conns, Flight(c), Arguments(c), Once(c),
         txq'[c] = txq[c], toWorker'[c] = toWorker[c], toMaster'[c] = toMaster[c],
         conn'[c] = conn[c], executed \subseteq executed', made' = made
  PROVE  Flight(c)' /\ Arguments(c)' /\ Once(c)' /\ All(c)' = All(c)
<1>1. Flight(c)'
  BY DEF Flight
<1>2. Arguments(c)'
  BY DEF Arguments, Whole
<1>3. /\ Ids(txq[c])' = Ids(txq[c]) /\ Ids(toWorker[c])' = Ids(toWorker[c])
      /\ Ids(toMaster[c])' = Ids(toMaster[c])
  BY DEF Ids, Id
<1>4. /\ Distinct(txq[c])' /\ Distinct(toWorker[c])' /\ Distinct(toMaster[c])'
  BY DEF Once, Distinct
<1>5. Among(Ids(toMaster[c]))'
  BY <1>3 DEF Once, Among, Id
<1>6. Once(c)'
  BY <1>3, <1>4, <1>5 DEF Once, Apart
<1> QED BY <1>1, <1>2, <1>3, <1>6 DEF All

-----------------------------------------------------------------------------
(* One connection *)

LEMMA SendKeeps ==
  ASSUME ClusterTypes, NEW c \in Conns, NEW p \in Packet,
         Flight(c), Arguments(c), Once(c), conn[c].active,
         Whole(p), p.early = ~conn[c].ready, \A x \in All(c) : x[1] # p.launch,
         txq'[c] = Append(txq[c], p), UNCHANGED <<toWorker, toMaster, executed, made>>,
         conn'[c] = [conn[c] EXCEPT !.inFlight = @ + 1]
  PROVE  Flight(c)' /\ Arguments(c)' /\ Once(c)' /\ All(c)' = All(c) \union {Id(p)}
<1>1. /\ Len(txq[c])' = Len(txq[c]) + 1 /\ Ids(txq[c])' = Ids(txq[c]) \union {Id(p)}
      /\ txq'[c][Len(txq[c]) + 1] = p
      /\ \A i \in 1..Len(txq[c]) : txq'[c][i] = txq[c][i]
      /\ Distinct(txq[c]) /\ (\A x \in Ids(txq[c]) : x[1] # p.launch) => Distinct(txq[c])'
  <2>1. txq[c] \in Seq(Packet)
    BY QueueTypes
  <2>2. /\ Len(txq'[c]) = Len(txq[c]) + 1 /\ Ids(txq'[c]) = Ids(txq[c]) \union {Id(p)}
        /\ txq'[c][Len(txq[c]) + 1] = p
        /\ \A i \in 1..Len(txq[c]) : txq'[c][i] = txq[c][i]
        /\ Distinct(txq[c]) /\ (\A x \in Ids(txq[c]) : x[1] # p.launch) => Distinct(txq'[c])
    BY <2>1, AppendQueue
  <2>3. Ids(txq[c])' = Ids(txq'[c]) /\ (Distinct(txq[c])' <=> Distinct(txq'[c]))
    BY DEF Ids, Id, Distinct
  <2> QED BY <2>2, <2>3
<1>2. /\ conn'[c].active /\ conn'[c].ready = conn[c].ready
      /\ conn'[c].inFlight = conn[c].inFlight + 1 /\ conn'[c].lost = conn[c].lost
  BY QueueTypes DEF ConnState
<1>3. Flight(c)'
  <2>1. PICK a, b, d, e, f \in Nat :
          /\ Len(txq[c]) = a /\ Len(toWorker[c]) = b /\ Len(toMaster[c]) = d
          /\ conn[c].lost = e /\ conn[c].inFlight = f
    BY QueueTypes
  <2>2. Len(txq'[c]) = a + 1 /\ conn'[c].inFlight = f + 1
    BY <1>1, <1>2, <2>1
  <2>3. f = a + b + d + e => f + 1 = (a + 1) + b + d + e
    OBVIOUS
  <2> QED BY <1>2, <2>1, <2>2, <2>3 DEF Flight
<1>4. Arguments(c)'
  <2>1. ASSUME NEW i \in 1..Len(txq[c])'
        PROVE  Whole(txq'[c][i]) /\ (~conn[c].ready => txq'[c][i].early)
    <3>1. i \in 1..Len(txq[c]) \/ i = Len(txq[c]) + 1
      BY <1>1, QueueTypes
    <3> QED BY <1>1, <3>1 DEF Arguments
  <2> QED BY <1>2, <2>1 DEF Arguments, Whole
<1>5. Ids(toWorker[c])' = Ids(toWorker[c]) /\ Ids(toMaster[c])' = Ids(toMaster[c])
  BY DEF Ids, Id
<1>6. Distinct(txq[c])' /\ Distinct(toWorker[c])' /\ Distinct(toMaster[c])'
  BY <1>1 DEF Once, Distinct, All
<1>7. Once(c)'
  <2>1. Id(p)[1] = p.launch
    BY DEF Id
  <2>2. Apart(Ids(txq[c]) \union {Id(p)}, Ids(toWorker[c]))
        /\ Apart(Ids(txq[c]) \union {Id(p)}, Ids(toMaster[c]))
    BY <2>1 DEF Apart, Once, All
  <2>3. Among(Ids(toMaster[c]))'
    BY <1>5 DEF Among, Once, Id
  <2> QED BY <1>1, <1>5, <1>6, <2>2, <2>3 DEF Once, Apart
<1> QED BY <1>1, <1>3, <1>4, <1>5, <1>7 DEF All

\* The head of the transmit queue is dropped, or goes behind what was sent.
LEMMA FlushKeeps ==
  ASSUME ClusterTypes, NEW c \in Conns, Flight(c), Arguments(c), Once(c), Flush(c)
  PROVE  /\ Flight(c)' /\ Arguments(c)' /\ Once(c)' /\ All(c)' \subseteq All(c)
         /\ txq'[c] \in Seq(Packet) /\ toWorker'[c] \in Seq(Packet) /\ conn'[c] \in ConnState
<1> DEFINE p == Head(txq[c])
<1>1. /\ txq[c] # <<>> /\ txq[c] \in Seq(Packet) /\ toWorker[c] \in Seq(Packet)
      /\ Len(toMaster[c]) \in Nat /\ Len(toWorker[c]) \in Nat /\ conn[c] \in ConnState
      /\ conn[c].lost \in Nat /\ conn[c].inFlight \in Nat /\ conn[c].active \in BOOLEAN
      /\ conn[c].active
  BY QueueTypes DEF Flush, Flight
<1>2. txq'[c] = Tail(txq[c]) /\ toMaster' = toMaster /\ executed' = executed /\ made' = made
  BY DEF Flush, ClusterTypes
<1>3. /\ txq'[c] \in Seq(Packet) /\ p \in Packet /\ p = txq[c][1]
      /\ Len(txq'[c]) \in Nat /\ Len(txq[c]) = Len(txq'[c]) + 1 /\ 1 \in 1..Len(txq[c])
      /\ \A i \in 1..Len(txq'[c]) : i + 1 \in 1..Len(txq[c]) /\ txq'[c][i] = txq[c][i + 1]
      /\ Ids(txq[c]) = Ids(txq'[c]) \union {Id(p)}
      /\ Distinct(txq'[c]) /\ Apart({Id(p)}, Ids(txq'[c]))
  BY <1>1, <1>2, TailQueue DEF Once
<1>4. Id(p)[1] = p.launch /\ Whole(p)
  BY <1>3 DEF Id, Arguments
<1>5. /\ Ids(txq[c])' = Ids(txq'[c]) /\ Ids(toWorker[c])' = Ids(toWorker'[c])
      /\ Ids(toMaster[c])' = Ids(toMaster[c])
      /\ (Distinct(txq[c])' <=> Distinct(txq'[c])) /\ Distinct(toMaster[c])'
      /\ (Distinct(toWorker[c])' <=> Distinct(toWorker'[c]))
      /\ Among(Ids(toMaster[c]))'
  BY <1>2 DEF Ids, Id, Distinct, Once, Among
<1>6. \A i \in 1..Len(txq'[c]) : Whole(txq'[c][i]) /\ (~conn[c].ready => txq'[c][i].early)
  BY <1>3 DEF Arguments
<1> HIDE DEF p
<1>7. CASE conn[c].ready
  <2>1. toWorker'[c] = Append(toWorker[c], p) /\ conn' = conn
    BY <1>7 DEF Flush, ClusterTypes, p
  <2>2. \A x \in Ids(toWorker[c]) : x[1] # p.launch
    BY <1>3, <1>4 DEF Once, Apart
  <2>3. /\ toWorker'[c] \in Seq(Packet) /\ Len(toWorker'[c]) = Len(toWorker[c]) + 1
        /\ toWorker'[c][Len(toWorker[c]) + 1] = p
        /\ \A i \in 1..Len(toWorker[c]) : toWorker'[c][i] = toWorker[c][i]
        /\ Ids(toWorker'[c]) = Ids(toWorker[c]) \union {Id(p)}
        /\ Distinct(toWorker'[c])
    BY <1>1, <1>3, <2>1, <2>2, AppendQueue DEF Once
  <2>4. Flight(c)'
    <3>1. PICK a, b, d, e, f \in Nat :
            /\ Len(txq'[c]) = a /\ Len(toWorker[c]) = b /\ Len(toMaster[c]) = d
            /\ conn[c].lost = e /\ conn[c].inFlight = f
      BY <1>1, <1>3
    <3>2. Len(txq[c]) = a + 1 /\ Len(toWorker'[c]) = b + 1
      BY <1>3, <2>3, <3>1
    <3>3. f = (a + 1) + b + d + e => f = a + (b + 1) + d + e
      OBVIOUS
    <3> QED BY <1>1, <1>2, <2>1, <3>1, <3>2, <3>3 DEF Flight
  <2>5. Arguments(c)'
    <3>1. ASSUME NEW i \in 1..Len(toWorker'[c]) PROVE Whole(toWorker'[c][i])
      <4>1. i \in 1..Len(toWorker[c]) \/ i = Len(toWorker[c]) + 1
        BY <1>1, <2>3
      <4> QED BY <1>4, <2>3, <4>1 DEF Arguments
    <3> QED BY <1>6, <2>1, <3>1 DEF Arguments, Whole
  <2>6. Once(c)'
    BY <1>3, <1>5, <2>3 DEF Once, Apart
  <2>7. All(c)' \subseteq All(c)
    BY <1>3, <1>5, <2>3 DEF All
  <2> QED BY <1>1, <1>3, <2>1, <2>3, <2>4, <2>5, <2>6, <2>7
<1>8. CASE ~conn[c].ready
  <2>1. toWorker' = toWorker /\ conn'[c] = [conn[c] EXCEPT !.lost = @ + 1]
    BY <1>8 DEF Flush, ClusterTypes
  <2>2. /\ conn'[c] \in ConnState /\ conn'[c].active = conn[c].active
        /\ conn'[c].ready = conn[c].ready
        /\ conn'[c].inFlight = conn[c].inFlight /\ conn'[c].lost = conn[c].lost + 1
    <3>1. PICK a \in BOOLEAN, r \in BOOLEAN, f \in Nat, e \in Nat :
            conn[c] = [active |-> a, ready |-> r, inFlight |-> f, lost |-> e]
      BY <1>1 DEF ConnState
    <3>2. conn'[c] = [active |-> a, ready |-> r, inFlight |-> f, lost |-> e + 1]
      BY <2>1, <3>1
    <3> QED BY <3>1, <3>2 DEF ConnState
  <2>3. Flight(c)'
    <3>1. PICK a, b, d, e, f \in Nat :
            /\ Len(txq'[c]) = a /\ Len(toWorker[c]) = b /\ Len(toMaster[c]) = d
            /\ conn[c].lost = e /\ conn[c].inFlight = f
      BY <1>1, <1>3
    <3>2. Len(txq[c]) = a + 1 /\ conn'[c].lost = e + 1 /\ conn'[c].inFlight = f
      BY <1>3, <2>2, <3>1
    <3>3. f = (a + 1) + b + d + e => f = a + b + d + (e + 1)
      OBVIOUS
    <3> QED BY <1>1, <1>2, <2>1, <2>2, <3>1, <3>2, <3>3 DEF Flight
  <2>4. Arguments(c)'
    BY <1>6, <2>1, <2>2 DEF Arguments, Whole
  <2>5. Distinct(toWorker[c])' /\ Ids(toWorker'[c]) = Ids(toWorker[c])
    BY <1>5, <2>1 DEF Once
  <2>6. Once(c)'
    BY <1>3, <1>5, <2>5 DEF Once, Apart
  <2>7. All(c)' \subseteq All(c)
    BY <1>3, <1>5, <2>5 DEF All
  <2> QED BY <1>1, <1>3, <2>1, <2>2, <2>3, <2>4, <2>6, <2>7
<1> QED BY <1>1, <1>7, <1>8

\* A launch taken up moves behind the responses.
LEMMA WorkKeeps ==
  ASSUME ClusterTypes, NEW c \in Conns, Flight(c), Arguments(c), Once(c), Work(c)
  PROVE  /\ Flight(c)' /\ Arguments(c)' /\ Once(c)' /\ All(c)' \subseteq All(c)
         /\ toWorker'[c] \in Seq(Packet) /\ toMaster'[c] \in Seq(Packet)
         /\ Whole(Head(toWorker[c])) /\ Head(toWorker[c]) \in Packet
<1> DEFINE p == Head(toWorker[c])
<1>1. /\ toWorker[c] # <<>> /\ toMaster[c] \in Seq(Packet) /\ toWorker[c] \in Seq(Packet)
      /\ Len(txq[c]) \in Nat /\ Len(toMaster[c]) \in Nat
      /\ conn[c].lost \in Nat /\ conn[c].inFlight \in Nat
      /\ conn[c].active
  BY QueueTypes DEF Work, Flight
<1>2. /\ toWorker'[c] = Tail(toWorker[c]) /\ toMaster'[c] = Append(toMaster[c], p)
      /\ txq' = txq /\ conn' = conn /\ made' = made /\ executed' = executed \union {p}
  BY DEF Work, ClusterTypes
<1>3. /\ toWorker'[c] \in Seq(Packet) /\ p \in Packet /\ p = toWorker[c][1]
      /\ Len(toWorker'[c]) \in Nat /\ Len(toWorker[c]) = Len(toWorker'[c]) + 1
      /\ 1 \in 1..Len(toWorker[c])
      /\ \A i \in 1..Len(toWorker'[c]) : i + 1 \in 1..Len(toWorker[c])
                                         /\ toWorker'[c][i] = toWorker[c][i + 1]
      /\ Ids(toWorker[c]) = Ids(toWorker'[c]) \union {Id(p)}
      /\ Distinct(toWorker'[c]) /\ Apart({Id(p)}, Ids(toWorker'[c]))
  BY <1>1, <1>2, TailQueue DEF Once
<1>4. Id(p)[1] = p.launch /\ Whole(p)
  BY <1>3 DEF Id, Arguments
<1> HIDE DEF p
<1>5. \A x \in Ids(toMaster[c]) : x[1] # p.launch
  BY <1>3, <1>4 DEF Once, Apart
<1>6. /\ toMaster'[c] \in Seq(Packet) /\ Len(toMaster'[c]) = Len(toMaster[c]) + 1
      /\ Ids(toMaster'[c]) = Ids(toMaster[c]) \union {Id(p)}
      /\ Distinct(toMaster'[c])
  BY <1>1, <1>2, <1>3, <1>5, AppendQueue DEF Once
<1>7. /\ Ids(toMaster[c])' = Ids(toMaster'[c]) /\ Ids(toWorker[c])' = Ids(toWorker'[c])
      /\ Ids(txq[c])' = Ids(txq[c])
      /\ (Distinct(toMaster[c])' <=> Distinct(toMaster'[c])) /\ Distinct(txq[c])'
      /\ (Distinct(toWorker[c])' <=> Distinct(toWorker'[c]))
  BY <1>2 DEF Ids, Id, Distinct, Once
<1>8. Flight(c)'
  <2>1. PICK a, b, d, e, f \in Nat :
          /\ Len(txq[c]) = a /\ Len(toWorker'[c]) = b /\ Len(toMaster[c]) = d
          /\ conn[c].lost = e /\ conn[c].inFlight = f
    BY <1>1, <1>3
  <2>2. Len(toWorker[c]) = b + 1 /\ Len(toMaster'[c]) = d + 1
    BY <1>3, <1>6, <2>1
  <2>3. f = a + (b + 1) + d + e => f = a + b + (d + 1) + e
    OBVIOUS
  <2> QED BY <1>1, <1>2, <2>1, <2>2, <2>3 DEF Flight
<1>9. Arguments(c)'
  <2>1. \A i \in 1..Len(toWorker'[c]) : Whole(toWorker'[c][i])
    BY <1>3 DEF Arguments
  <2> QED BY <1>2, <2>1 DEF Arguments, Whole
<1>10. Among(Ids(toMaster[c]))'
  BY <1>2, <1>6, <1>7 DEF Among, Once, Id
<1>11. Once(c)'
  BY <1>3, <1>6, <1>7, <1>10 DEF Once, Apart
<1>12. All(c)' \subseteq All(c)
  BY <1>3, <1>6, <1>7 DEF All
<1> QED BY <1>3, <1>4, <1>6, <1>8, <1>9, <1>11, <1>12 DEF p

\* A response leaves its queue: counted by the master, or lost.
LEMMA LandKeeps ==
  ASSUME ClusterTypes, NEW c \in Conns, Flight(c), Arguments(c), Once(c),
         Receive(c) \/ Limited(c)
  PROVE  /\ Flight(c)' /\ Arguments(c)' /\ Once(c)'
         /\ All(c)' \subseteq All(c) \ {Id(Head(toMaster[c]))}
         /\ Apart({Id(Head(toMaster[c]))}, All(c)')
         /\ toMaster'[c] \in Seq(Packet) /\ conn'[c] \in ConnState
         /\ Head(toMaster[c]) \in Packet /\ Id(Head(toMaster[c])) \in All(c)
         /\ \E r \in executed : Id(r) = Id(Head(toMaster[c]))
<1> DEFINE p == Head(toMaster[c])
<1>1. /\ toMaster[c] # <<>> /\ toMaster[c] \in Seq(Packet)
      /\ Len(txq[c]) \in Nat /\ Len(toWorker[c]) \in Nat
      /\ conn[c].active
  BY QueueTypes DEF Receive, Limited, Flight
<1>2. PICK v \in BOOLEAN, r \in BOOLEAN, f \in Nat, e \in Nat :
        conn[c] = [active |-> v, ready |-> r, inFlight |-> f, lost |-> e]
  BY <1>1, QueueTypes DEF ConnState
<1>3. /\ toMaster'[c] = Tail(toMaster[c])
      /\ txq' = txq /\ toWorker' = toWorker /\ made' = made /\ executed' = executed
  BY DEF Receive, Limited, ClusterTypes
<1>4. /\ toMaster'[c] \in Seq(Packet) /\ p \in Packet
      /\ Len(toMaster'[c]) \in Nat /\ Len(toMaster[c]) = Len(toMaster'[c]) + 1
      /\ Ids(toMaster[c]) = Ids(toMaster'[c]) \union {Id(p)}
      /\ Distinct(toMaster'[c]) /\ Apart({Id(p)}, Ids(toMaster'[c]))
  BY <1>1, <1>3, TailQueue DEF Once
<1>5. PICK a, b, d \in Nat :
        Len(txq[c]) = a /\ Len(toWorker[c]) = b /\ Len(toMaster'[c]) = d
  BY <1>1, <1>4
<1>6. Len(toMaster[c]) = d + 1 /\ f = a + b + (d + 1) + e
  BY <1>1, <1>2, <1>4, <1>5 DEF Flight
<1>7. \/ conn'[c] = [active |-> v, ready |-> r, inFlight |-> f - 1, lost |-> e]
      \/ conn'[c] = [active |-> v, ready |-> r, inFlight |-> f, lost |-> e + 1]
  <2>1. CASE Limited(c)
    <3>1. conn'[c] = [conn[c] EXCEPT !.lost = @ + 1]
      BY <2>1 DEF Limited, ClusterTypes
    <3>2. conn'[c] = [active |-> v, ready |-> r, inFlight |-> f, lost |-> e + 1]
      BY <1>2, <3>1
    <3> QED BY <3>2
  <2>2. CASE Receive(c)
    <3>1. conn'[c] = [conn[c] EXCEPT !.inFlight = Landed(@)]
      BY <2>2 DEF Receive, ClusterTypes
    <3>2. f > 0
      BY <1>6
    <3>3. Landed(f) = f - 1
      BY <3>2 DEF Landed
    <3>4. conn[c].inFlight = f
      BY <1>2
    <3>5. conn'[c] = [conn[c] EXCEPT !.inFlight = f - 1]
      BY <3>1, <3>3, <3>4
    <3>6. conn'[c] = [active |-> v, ready |-> r, inFlight |-> f - 1, lost |-> e]
      BY <1>2, <3>5
    <3> QED BY <3>6
  <2> QED BY <2>1, <2>2
<1>8. conn'[c] \in ConnState /\ conn'[c].active /\ conn'[c].ready = conn[c].ready
  <2>1. f - 1 \in Nat
    BY <1>6
  <2>2. e + 1 \in Nat
    OBVIOUS
  <2>3. \A g \in Nat, l \in Nat :
          [active |-> v, ready |-> r, inFlight |-> g, lost |-> l] \in ConnState
    BY DEF ConnState
  <2> QED BY <1>1, <1>2, <1>7, <2>1, <2>2, <2>3
<1>9. Flight(c)'
  <2>1. conn'[c].inFlight = a + b + d + conn'[c].lost
    <3>1. CASE conn'[c] = [active |-> v, ready |-> r, inFlight |-> f - 1, lost |-> e]
      <4>1. f - 1 = a + b + d + e
        BY <1>6
      <4> QED BY <3>1, <4>1
    <3>2. CASE conn'[c] = [active |-> v, ready |-> r, inFlight |-> f, lost |-> e + 1]
      <4>1. f = a + b + d + (e + 1)
        BY <1>6
      <4> QED BY <3>2, <4>1
    <3> QED BY <1>7, <3>1, <3>2
  <2> QED BY <1>1, <1>3, <1>5, <1>8, <2>1 DEF Flight
<1>10. Arguments(c)'
  BY <1>3, <1>8 DEF Arguments, Whole
<1>11. /\ Ids(txq[c])' = Ids(txq[c]) /\ Ids(toWorker[c])' = Ids(toWorker[c])
       /\ Ids(toMaster[c])' = Ids(toMaster'[c])
       /\ Distinct(txq[c])' /\ Distinct(toWorker[c])'
       /\ (Distinct(toMaster[c])' <=> Distinct(toMaster'[c]))
  BY <1>3 DEF Ids, Id, Distinct, Once
<1> HIDE DEF p
<1>12. Among(Ids(toMaster[c]))'
  BY <1>3, <1>4, <1>11 DEF Among, Once, Id
<1>13. Once(c)'
  BY <1>4, <1>11, <1>12 DEF Once, Apart
<1>14. Apart({Id(p)}, All(c)')
  BY <1>4, <1>11 DEF Once, Apart, All
<1>15. /\ All(c)' \subseteq All(c) /\ Id(p) \in All(c)
  BY <1>4, <1>11 DEF All
<1>16. All(c)' \subseteq All(c) \ {Id(p)}
  BY <1>14, <1>15 DEF Apart
<1>17. \E q \in executed : Id(q) = Id(p)
  BY <1>4 DEF Once, Among
<1> QED BY <1>4, <1>8, <1>9, <1>10, <1>13, <1>14, <1>15, <1>16, <1>17 DEF p

LEMMA DropKeeps ==
  ASSUME ClusterTypes, NEW c \in Conns, Flight(c), Once(c), Drop(c)
  PROVE  Flight(c)' /\ Arguments(c)' /\ Once(c)' /\ All(c)' = {} /\ conn'[c] \in ConnState
<1>1. /\ txq'[c] = <<>> /\ toWorker'[c] = <<>> /\ toMaster'[c] = <<>> /\ made' = made
      /\ conn'[c] = [conn[c] EXCEPT !.active = FALSE] /\ conn[c].active
  BY DEF Drop, ClusterTypes
<1>2. ~conn'[c].active /\ conn'[c] \in ConnState
  BY <1>1, QueueTypes DEF ConnState
<1>3. Flight(c)'
  BY <1>1, <1>2 DEF Flight
<1>4. Len(txq'[c]) = 0 /\ Len(toWorker'[c]) = 0 /\ Len(toMaster'[c]) = 0
  BY <1>1, EmptyQueue
<1>5. Arguments(c)'
  BY <1>4 DEF Arguments
<1>6. /\ Ids(txq[c])' = {} /\ Ids(toWorker[c])' = {} /\ Ids(toMaster[c])' = {}
      /\ Distinct(txq[c])' /\ Distinct(toWorker[c])' /\ Distinct(toMaster[c])'
  BY <1>4 DEF Ids, Distinct
<1>7. Once(c)' /\ All(c)' = {}
  BY <1>6 DEF Once, Apart, Among, All
<1> QED BY <1>2, <1>3, <1>5, <1>7

LEMMA ConnectKeeps ==
  ASSUME ClusterTypes, NEW c \in Conns, Flight(c), Arguments(c), Once(c), Connect
  PROVE  /\ Flight(c)' /\ Arguments(c)' /\ Once(c)' /\ All(c)' = All(c)
         /\ conn' \in [Conns -> ConnState]
<1>1. /\ made \in Nat /\ made' = made + 1 /\ made + 1 \in Conns /\ c \in Nat
      /\ UNCHANGED <<txq, toWorker, toMaster, executed>>
  BY ConnsFacts DEF Connect, ClusterTypes
<1>2. PICK r \in BOOLEAN :
        conn' = [conn EXCEPT ![made + 1].active = TRUE, ![made + 1].ready = r]
  BY DEF Connect
<1>3. conn' \in [Conns -> ConnState]
  <2>1. [conn[made + 1] EXCEPT !.active = TRUE, !.ready = r] \in ConnState
    BY <1>1, QueueTypes DEF ConnState
  <2> QED BY <1>1, <1>2, <2>1 DEF ClusterTypes
<1>4. /\ Ids(txq[c])' = Ids(txq[c]) /\ Ids(toWorker[c])' = Ids(toWorker[c])
      /\ Ids(toMaster[c])' = Ids(toMaster[c])
      /\ Distinct(txq[c])' /\ Distinct(toWorker[c])' /\ Distinct(toMaster[c])'
      /\ Among(Ids(toMaster[c]))'
  BY <1>1 DEF Ids, Id, Distinct, Once, Among
<1>5. Once(c)' /\ All(c)' = All(c)
  BY <1>4 DEF Once, Apart, All
<1>6. CASE c # made + 1
  <2>1. conn'[c] = conn[c]
    BY <1>1, <1>2, <1>6 DEF ClusterTypes
  <2>2. Flight(c)'
    <3>1. c > made + 1 => c > made
      BY <1>1
    <3> QED BY <1>1, <2>1, <3>1 DEF Flight
  <2>3. Arguments(c)'
    BY <1>1, <2>1 DEF Arguments, Whole
  <2> QED BY <1>3, <1>5, <2>2, <2>3
<1>7. CASE c = made + 1
  <2>1. conn[c] = [active |-> conn[c].active, ready |-> conn[c].ready,
                   inFlight |-> conn[c].inFlight, lost |-> conn[c].lost]
    BY QueueTypes DEF ConnState
  <2>2. conn'[c].active /\ conn'[c].inFlight = conn[c].inFlight /\ conn'[c].lost = conn[c].lost
    BY <1>1, <1>2, <1>7, <2>1 DEF ClusterTypes
  <2>3. c > made /\ ~(c > made + 1)
    BY <1>1, <1>7
  <2>4. /\ conn[c].inFlight = 0 /\ conn[c].lost = 0
        /\ txq[c] = <<>> /\ toWorker[c] = <<>> /\ toMaster[c] = <<>>
    BY <2>3 DEF Flight
  <2>5. Len(txq'[c]) = 0 /\ Len(toWorker'[c]) = 0 /\ Len(toMaster'[c]) = 0
    BY <1>1, <2>4, EmptyQueue
  <2>6. Flight(c)'
    BY <1>1, <2>2, <2>3, <2>4, <2>5 DEF Flight
  <2>7. Arguments(c)'
    BY <2>5 DEF Arguments
  <2> QED BY <1>3, <1>5, <2>6, <2>7
<1> QED BY <1>6, <1>7

\* The packet at the head of the queue may lose arguments: it is an early one.
LEMMA SecuredKeeps ==
  ASSUME ClusterTypes, NEW c \in Conns, Flight(c), Arguments(c), Once(c), Secured(c)
  PROVE  /\ Flight(c)' /\ Arguments(c)' /\ Once(c)' /\ All(c)' = All(c)
         /\ txq'[c] \in Seq(Packet) /\ conn'[c] \in ConnState
<1>1. /\ UNCHANGED <<toWorker, toMaster, executed, made>> /\ conn[c].active /\ ~conn[c].ready
      /\ conn'[c] = [conn[c] EXCEPT !.ready = TRUE]
      /\ txq[c] \in Seq(Packet) /\ conn[c] \in ConnState
  BY QueueTypes DEF Secured, ClusterTypes
<1>2. /\ conn'[c] \in ConnState /\ conn'[c].active /\ conn'[c].ready
      /\ conn'[c].inFlight = conn[c].inFlight /\ conn'[c].lost = conn[c].lost
  BY <1>1 DEF ConnState
<1>3. /\ txq'[c] \in Seq(Packet) /\ Len(txq'[c]) = Len(txq[c])
      /\ \A i \in 1..Len(txq[c]) : Id(txq'[c][i]) = Id(txq[c][i]) /\ Whole(txq'[c][i])
                                  /\ txq'[c][i].launch = txq[c][i].launch
  <2>1. CASE txq' = txq
    BY <1>1, <2>1 DEF Arguments
  <2>2. ASSUME txq[c] # <<>>, NEW n \in 1..Arity[Head(txq[c]).kernel],
               txq' = [txq EXCEPT ![c] = <<Cut(Head(@), n)>> \o Tail(@)]
        PROVE  /\ txq'[c] \in Seq(Packet) /\ Len(txq'[c]) = Len(txq[c])
               /\ \A i \in 1..Len(txq[c]) : Id(txq'[c][i]) = Id(txq[c][i]) /\ Whole(txq'[c][i])
                                  /\ txq'[c][i].launch = txq[c][i].launch
    <3> DEFINE p == Head(txq[c])
               x == Cut(p, n)
               t == Tail(txq[c])
    <3>1. /\ p \in Packet /\ p = txq[c][1] /\ t \in Seq(Packet) /\ 1 \in 1..Len(txq[c])
          /\ Len(t) \in Nat /\ Len(txq[c]) = Len(t) + 1
          /\ \A i \in 1..Len(t) : t[i] = txq[c][i + 1]
      BY <1>1, <2>2, TailQueue
    <3>2. /\ x \in Packet /\ x.launch = p.launch /\ x.kernel = p.kernel /\ x.early = p.early
          /\ \A i \in Indices : x.args[i] = 0 \/ x.args[i] = p.args[i]
      BY <3>1 DEF Cut, Packet
    <3>3. txq'[c] = <<x>> \o t
      BY <2>2 DEF ClusterTypes
    <3> HIDE DEF x, t
    <3>4. PICK m \in Nat : m = Len(t)
      BY <3>1
    <3>5. /\ txq'[c] \in Seq(Packet) /\ Len(txq'[c]) = m + 1 /\ txq'[c][1] = x
          /\ \A i \in 2..(m + 1) : txq'[c][i] = t[i - 1]
      <4>1. <<x>> \in Seq(Packet) /\ Len(<<x>>) = 1 /\ <<x>>[1] = x
        BY <3>2
      <4> QED BY <3>1, <3>3, <3>4, <4>1
    <3>6. \A i \in 2..(m + 1) : txq'[c][i] = txq[c][i]
      <4> SUFFICES ASSUME NEW i \in 2..(m + 1) PROVE txq'[c][i] = txq[c][i]
        OBVIOUS
      <4>1. i - 1 \in 1..m /\ (i - 1) + 1 = i
        OBVIOUS
      <4> QED BY <3>1, <3>4, <3>5, <4>1
    <3>7. p.early /\ Whole(p)
      BY <1>1, <3>1 DEF Arguments
    <3>8. Whole(x)
      <4>1. \A i \in 1..Arity[p.kernel] : i \in Indices
        BY <3>1, IndexFacts DEF Packet
      <4> QED BY <3>2, <3>7, <4>1 DEF Whole
    <3>9. Id(x) = Id(p)
      BY <3>2 DEF Id
    <3> HIDE DEF p
    <3>10. \A i \in 1..Len(txq[c]) : i = 1 \/ i \in 2..(m + 1)
      BY <3>1, <3>4
    <3> QED BY <3>1, <3>2, <3>4, <3>5, <3>6, <3>8, <3>9, <3>10 DEF Arguments
  <2> QED BY <2>1, <2>2 DEF Secured
<1>4. Flight(c)'
  BY <1>1, <1>2, <1>3 DEF Flight
<1>5. Arguments(c)'
  BY <1>1, <1>2, <1>3 DEF Arguments, Whole
<1>6. Ids(txq[c])' = Ids(txq[c])
  BY <1>3 DEF Ids, Id
<1>7. Distinct(txq[c])'
  BY <1>3 DEF Once, Distinct
<1>8. /\ Ids(toWorker[c])' = Ids(toWorker[c]) /\ Ids(toMaster[c])' = Ids(toMaster[c])
      /\ Distinct(toWorker[c])' /\ Distinct(toMaster[c])' /\ Among(Ids(toMaster[c]))'
  BY <1>1 DEF Ids, Id, Distinct, Once, Among
<1>9. Once(c)' /\ All(c)' = All(c)
  BY <1>6, <1>7, <1>8 DEF Once, Apart, All
<1> QED BY <1>2, <1>3, <1>4, <1>5, <1>9

-----------------------------------------------------------------------------
(* All connections: types, flight counters, arguments *)

\* The steps that concern one connection's queues.
LEMMA LaunchSends ==
  ASSUME ClusterTypes, NEW h \in Hosts, Launch(h)
  PROVE  \E c \in Conns, k \in Kernels : \E p \in Packet :
           /\ conn[c].active /\ p.launch = remotes + 1 /\ p.kernel = k
           /\ p.early = ~conn[c].ready /\ Whole(p)
           /\ txq' = [txq EXCEPT ![c] = Append(@, p)]
           /\ conn' = [conn EXCEPT ![c].inFlight = @ + 1]
           /\ tail' = [tail EXCEPT ![c] = NoArgs]
           /\ remotes' = remotes + 1
           /\ \E waits \in BOOLEAN :
                /\ host' = [host EXCEPT ![h] = IF waits
                              THEN [at |-> k, idx |-> 0, launch |-> remotes + 1] ELSE NoLaunch]
                /\ shared' = IF ~waits \/ \E g \in Hosts \ {h} : host[g].at = k
                             THEN shared \union {k} ELSE shared
<1>1. PICK c \in Open(host[h].idx), k \in Kernels :
        /\ Send(h, c, k, Streamed(c, remotes + 1, Arity[k]))
        /\ tail' = [tail EXCEPT ![c] = NoArgs]
  BY DEF Launch
<1>2. c \in Conns /\ conn[c].active /\ remotes + 1 \in Nat
  BY DEF Open, ClusterTypes
<1> DEFINE args == Streamed(c, remotes + 1, Arity[k])
           p == [launch |-> remotes + 1, kernel |-> k, args |-> args, early |-> ~conn[c].ready]
<1>3. args \in [Indices -> Nat] /\ \A i \in 1..Arity[k] : args[i] = remotes + 1
  <2>1. tail[c] \in [Indices -> Nat] /\ Arity[k] \in Nat /\ 1..Arity[k] \subseteq Indices
    BY <1>2, IndexFacts DEF ClusterTypes
  <2>2. args = [i \in Indices |-> IF i <= Arity[k] THEN remotes + 1 ELSE tail[c][i]]
    BY DEF Streamed
  <2>3. args \in [Indices -> Nat]
    BY <1>2, <2>1, <2>2
  <2>4. \A i \in 1..Arity[k] : i \in Indices /\ i <= Arity[k]
    BY <2>1
  <2> HIDE DEF args
  <2> QED BY <2>2, <2>3, <2>4
<1> HIDE DEF args
<1>4. p \in Packet /\ Whole(p)
  BY <1>2, <1>3 DEF Packet, Whole
<1>5. /\ txq' = [txq EXCEPT ![c] = Append(@, p)]
      /\ conn' = [conn EXCEPT ![c].inFlight = @ + 1]
      /\ remotes' = remotes + 1
      /\ \E waits \in BOOLEAN :
           /\ host' = [host EXCEPT ![h] = IF waits
                         THEN [at |-> k, idx |-> 0, launch |-> remotes + 1] ELSE NoLaunch]
           /\ shared' = IF ~waits \/ \E g \in Hosts \ {h} : host[g].at = k
                        THEN shared \union {k} ELSE shared
  BY <1>1 DEF Send, args
<1>6. p.launch = remotes + 1 /\ p.kernel = k /\ p.early = ~conn[c].ready
  OBVIOUS
<1> HIDE DEF p
<1>7. /\ conn[c].active /\ p.launch = remotes + 1 /\ p.kernel = k
      /\ p.early = ~conn[c].ready /\ Whole(p)
      /\ txq' = [txq EXCEPT ![c] = Append(@, p)]
      /\ conn' = [conn EXCEPT ![c].inFlight = @ + 1]
      /\ tail' = [tail EXCEPT ![c] = NoArgs]
      /\ remotes' = remotes + 1
      /\ \E waits \in BOOLEAN :
           /\ host' = [host EXCEPT ![h] = IF waits
                         THEN [at |-> k, idx |-> 0, launch |-> remotes + 1] ELSE NoLaunch]
           /\ shared' = IF ~waits \/ \E g \in Hosts \ {h} : host[g].at = k
                        THEN shared \union {k} ELSE shared
  BY <1>1, <1>2, <1>4, <1>5, <1>6
<1> QED BY <1>2, <1>4, <1>7

LEMMA ClusterTypesInit == ClusterInit => ClusterTypes
<1> SUFFICES ASSUME ClusterInit PROVE ClusterTypes
  OBVIOUS
<1>1. conn \in [Conns -> ConnState]
  BY DEF ClusterInit, ConnState
<1>2. <<>> \in Seq(Packet)
  OBVIOUS
<1> QED BY <1>1, <1>2, IndexFacts DEF ClusterInit, ClusterTypes

LEMMA ConnInvInit ==
  ASSUME ClusterInit
  PROVE  ConnInv /\ \A c \in Conns : All(c) = {}
<1> SUFFICES ASSUME NEW c \in Conns
             PROVE  Flight(c) /\ Arguments(c) /\ Once(c) /\ All(c) = {}
  BY DEF ConnInv
<1>1. txq[c] = <<>> /\ toWorker[c] = <<>> /\ toMaster[c] = <<>>
      /\ ~conn[c].active /\ conn[c].inFlight = 0 /\ conn[c].lost = 0
  BY DEF ClusterInit
<1>2. Flight(c)
  BY <1>1 DEF Flight
<1>3. Arguments(c)
  BY <1>1, EmptyQueue DEF Arguments
<1> QED BY <1>1, <1>2, <1>3, EmptyQueue DEF Once, Apart, Among, All

\* The steps that leave every queue and every connection as it is.
Elsewhere ==
  \/ Purge
  \/ \E c \in Conns : FlushLeft(c)
  \/ \E h \in Hosts : Choose(h) \/ LaunchGone(h) \/ LaunchBusy(h) \/ TakeReply(h)
                      \/ ReplyTimesOut(h)

LEMMA ElsewhereQueues ==
  ASSUME Elsewhere \/ UNCHANGED clusterVars
  PROVE  UNCHANGED <<conn, txq, toWorker, toMaster, executed, made>>
BY DEF Elsewhere, Purge, FlushLeft, Choose, LaunchGone, LaunchBusy, TakeReply, ReplyTimesOut,
       clusterVars

LEMMA ElsewhereTypes ==
  ASSUME ClusterTypes, Elsewhere \/ UNCHANGED clusterVars
  PROVE  ClusterTypes' /\ remotes <= remotes'
<1>1. UNCHANGED <<conn, txq, toWorker, toMaster, executed, made>>
  BY ElsewhereQueues
<1>2. ASSUME tail' \in [Conns -> [Indices -> Nat]], remoteMap' \in [Kernels -> Nat],
             host' = [h \in Hosts |-> host'[h]], remotes' \in Nat, remotes <= remotes'
      PROVE  ClusterTypes' /\ remotes <= remotes'
  BY <1>1, <1>2 DEF ClusterTypes
<1>3. remotes \in Nat /\ remotes <= remotes /\ remotes + 1 \in Nat /\ remotes <= remotes + 1
  BY DEF ClusterTypes
<1>4. \A h \in Hosts : \A x : LET g == [host EXCEPT ![h] = x] IN g = [i \in Hosts |-> g[i]]
  BY DEF ClusterTypes
<1>5. CASE Purge \/ UNCHANGED clusterVars
  BY <1>2, <1>3, <1>5 DEF Purge, clusterVars, ClusterTypes
<1>6. ASSUME NEW c \in Conns, FlushLeft(c) PROVE ClusterTypes' /\ remotes <= remotes'
  BY <1>2, <1>3, <1>6, IndexFacts DEF FlushLeft, ClusterTypes
<1>7. ASSUME NEW h \in Hosts, Choose(h) \/ LaunchGone(h) \/ ReplyTimesOut(h)
      PROVE  ClusterTypes' /\ remotes <= remotes'
  <2>1. \E x : host' = [host EXCEPT ![h] = x]
    BY <1>7 DEF Choose, LaunchGone, ReplyTimesOut
  <2>2. host' = [g \in Hosts |-> host'[g]]
    BY <1>4, <2>1
  <2>3. UNCHANGED <<tail, remoteMap, remotes>>
    BY <1>7 DEF Choose, LaunchGone, ReplyTimesOut
  <2> QED BY <1>2, <1>3, <2>2, <2>3 DEF ClusterTypes
<1>8. ASSUME NEW h \in Hosts, LaunchBusy(h) PROVE ClusterTypes' /\ remotes <= remotes'
  <2>1. PICK c \in Open(host[h].idx), k \in Kernels : \E n \in 0..Arity[k] :
          tail' = [tail EXCEPT ![c] = Streamed(c, remotes + 1, n)]
    BY <1>8 DEF LaunchBusy
  <2> c \in Conns
    BY DEF Open
  <2>a. PICK n \in 0..Arity[k] : tail' = [tail EXCEPT ![c] = Streamed(c, remotes + 1, n)]
    BY <2>1
  <2> n \in Nat
    BY IndexFacts
  <2>2. Streamed(c, remotes + 1, n) \in [Indices -> Nat]
    BY <1>3, IndexFacts DEF Streamed, ClusterTypes
  <2>3. tail' \in [Conns -> [Indices -> Nat]]
    BY <2>a, <2>2 DEF ClusterTypes
  <2>4. host' = [g \in Hosts |-> host'[g]]
    BY <1>4, <1>8 DEF LaunchBusy
  <2> QED BY <1>2, <1>3, <1>8, <2>3, <2>4 DEF LaunchBusy, ClusterTypes
<1>9. ASSUME NEW h \in Hosts, TakeReply(h) PROVE ClusterTypes' /\ remotes <= remotes'
  <2>1. host' = [g \in Hosts |-> host'[g]]
    BY <1>4, <1>9 DEF TakeReply
  <2>2. remoteMap' \in [Kernels -> Nat]
    BY <1>9 DEF TakeReply, Erased, ClusterTypes
  <2> QED BY <1>2, <1>3, <1>9, <2>1, <2>2 DEF TakeReply, ClusterTypes
<1> QED BY <1>5, <1>6, <1>7, <1>8, <1>9 DEF Elsewhere

\* The steps of one connection's queues, other than a launch.
QueueStep(c) ==
  Secured(c) \/ Drop(c) \/ Flush(c) \/ Work(c) \/ Receive(c) \/ Limited(c)

LEMMA OtherQueues ==
  ASSUME ClusterTypes, NEW c \in Conns, QueueStep(c)
  PROVE  /\ \A b \in Conns \ {c} : /\ txq'[b] = txq[b] /\ toWorker'[b] = toWorker[b]
                                   /\ toMaster'[b] = toMaster[b] /\ conn'[b] = conn[b]
         /\ executed \subseteq executed' /\ made' = made /\ host' = host /\ remotes' = remotes
         /\ replied' = replied /\ shared' = shared
BY DEF QueueStep, Secured, Drop, Flush, Work, Receive, Limited, ClusterTypes

LEMMA QueueStepTypes ==
  ASSUME ClusterTypes, NEW c \in Conns, QueueStep(c), ConnInv
  PROVE  ClusterTypes'
<1>1. Flight(c) /\ Arguments(c) /\ Once(c)
  BY DEF ConnInv
<1>2. ASSUME txq' \in [Conns -> Seq(Packet)], toWorker' \in [Conns -> Seq(Packet)],
             toMaster' \in [Conns -> Seq(Packet)], conn' \in [Conns -> ConnState],
             tail' \in [Conns -> [Indices -> Nat]], remoteMap' \in [Kernels -> Nat]
      PROVE  ClusterTypes'
  BY <1>2, OtherQueues DEF ClusterTypes
<1>3. CASE Secured(c)
  <2>1. txq'[c] \in Seq(Packet) /\ conn'[c] \in ConnState
    BY <1>1, <1>3, SecuredKeeps
  <2>2. \E x : conn' = [conn EXCEPT ![c] = x]
    BY <1>3 DEF Secured
  <2>3. \E x : txq' = [txq EXCEPT ![c] = x]
    BY <1>3 DEF Secured, ClusterTypes
  <2>4. txq' \in [Conns -> Seq(Packet)] /\ conn' \in [Conns -> ConnState]
    BY <2>1, <2>2, <2>3 DEF ClusterTypes
  <2> QED BY <1>2, <1>3, <2>4 DEF Secured, ClusterTypes
<1>4. CASE Drop(c)
  <2>1. conn'[c] \in ConnState
    BY <1>1, <1>4, DropKeeps
  <2>2. <<>> \in Seq(Packet) /\ NoArgs \in [Indices -> Nat]
    BY IndexFacts
  <2>3. \E x : conn' = [conn EXCEPT ![c] = x]
    BY <1>4 DEF Drop
  <2>4. conn' \in [Conns -> ConnState]
    BY <2>1, <2>3 DEF ClusterTypes
  <2> QED BY <1>2, <1>4, <2>2, <2>4 DEF Drop, ClusterTypes
<1>5. CASE Flush(c)
  <2>1. txq'[c] \in Seq(Packet) /\ toWorker'[c] \in Seq(Packet) /\ conn'[c] \in ConnState
    BY <1>1, <1>5, FlushKeeps
  <2>2. \E x : conn' = [conn EXCEPT ![c] = x]
    BY <1>5 DEF Flush, ClusterTypes
  <2>3. \E x : toWorker' = [toWorker EXCEPT ![c] = x]
    BY <1>5 DEF Flush, ClusterTypes
  <2>4. \E x : txq' = [txq EXCEPT ![c] = x]
    BY <1>5 DEF Flush
  <2>5. /\ txq' \in [Conns -> Seq(Packet)] /\ conn' \in [Conns -> ConnState]
        /\ toWorker' \in [Conns -> Seq(Packet)]
    BY <2>1, <2>2, <2>3, <2>4 DEF ClusterTypes
  <2> QED BY <1>2, <1>5, <2>5 DEF Flush, ClusterTypes
<1>6. CASE Work(c)
  <2>1. toMaster'[c] \in Seq(Packet) /\ toWorker'[c] \in Seq(Packet)
    BY <1>1, <1>6, WorkKeeps
  <2>2. (\E x : toMaster' = [toMaster EXCEPT ![c] = x])
        /\ \E x : toWorker' = [toWorker EXCEPT ![c] = x]
    BY <1>6 DEF Work
  <2>3. toMaster' \in [Conns -> Seq(Packet)] /\ toWorker' \in [Conns -> Seq(Packet)]
    BY <2>1, <2>2 DEF ClusterTypes
  <2> QED BY <1>2, <1>6, <2>3 DEF Work, ClusterTypes
<1>7. CASE Receive(c) \/ Limited(c)
  <2>1. toMaster'[c] \in Seq(Packet) /\ conn'[c] \in ConnState /\ Head(toMaster[c]) \in Packet
    BY <1>1, <1>7, LandKeeps
  <2>2. (\E x : toMaster' = [toMaster EXCEPT ![c] = x])
        /\ \E x : conn' = [conn EXCEPT ![c] = x]
    BY <1>7 DEF Receive, Limited
  <2>3. toMaster' \in [Conns -> Seq(Packet)] /\ conn' \in [Conns -> ConnState]
    BY <2>1, <2>2 DEF ClusterTypes
  <2>4. Head(toMaster[c]).kernel \in Kernels /\ Head(toMaster[c]).launch \in Nat
    BY <2>1 DEF Packet
  <2>5. remoteMap' \in [Kernels -> Nat]
    BY <1>7, <2>4 DEF Receive, Limited, ClusterTypes
  <2> QED BY <1>2, <1>7, <2>3, <2>5 DEF Receive, Limited, ClusterTypes
<1> QED BY <1>3, <1>4, <1>5, <1>6, <1>7 DEF QueueStep

LEMMA QueueStepKeeps ==
  ASSUME ClusterTypes, NEW c \in Conns, QueueStep(c), ConnInv, ArgumentsOwn
  PROVE  ConnInv' /\ ArgumentsOwn' /\ \A b \in Conns : All(b)' \subseteq All(b)
<1>1. Flight(c) /\ Arguments(c) /\ Once(c)
  BY DEF ConnInv
<1>2. Flight(c)' /\ Arguments(c)' /\ Once(c)' /\ All(c)' \subseteq All(c)
  BY <1>1, SecuredKeeps, DropKeeps, FlushKeeps, WorkKeeps, LandKeeps DEF QueueStep
<1>3. ASSUME NEW b \in Conns \ {c}
      PROVE  Flight(b)' /\ Arguments(b)' /\ Once(b)' /\ All(b)' = All(b)
  <2>1. Flight(b) /\ Arguments(b) /\ Once(b)
    BY DEF ConnInv
  <2> QED BY <2>1, OtherQueues, ConnStays
<1>4. ConnInv' /\ \A b \in Conns : All(b)' \subseteq All(b)
  BY <1>2, <1>3 DEF ConnInv
<1>5. ArgumentsOwn'
  <2>1. CASE Work(c)
    <3>1. Whole(Head(toWorker[c]))
      BY <1>1, <2>1, WorkKeeps
    <3>2. executed' = executed \union {Head(toWorker[c])}
      BY <2>1 DEF Work
    <3> QED BY <3>1, <3>2 DEF ArgumentsOwn, Whole
  <2>2. CASE Secured(c) \/ Drop(c) \/ Flush(c) \/ Receive(c) \/ Limited(c)
    <3>1. executed' = executed
      BY <2>2 DEF Secured, Drop, Flush, Receive, Limited
    <3> QED BY <3>1 DEF ArgumentsOwn
  <2> QED BY <2>1, <2>2 DEF QueueStep
<1> QED BY <1>4, <1>5

\* Everything under way has a number that was given out.
Numbered ==
  \A c \in Conns : \A x \in All(c) :
    x[1] \in Nat /\ 0 < x[1] /\ x[1] <= remotes /\ x[2] \in Kernels

LEMMA LaunchKeeps ==
  ASSUME ClusterTypes, ConnInv, ArgumentsOwn, Numbered, NEW h \in Hosts, Launch(h)
  PROVE  /\ ClusterTypes' /\ ConnInv' /\ ArgumentsOwn'
         /\ \E c \in Conns, k \in Kernels :
              /\ All(c)' = All(c) \union {<<remotes + 1, k>>}
              /\ \A b \in Conns \ {c} : All(b)' = All(b)
              /\ \E waits \in BOOLEAN :
                   /\ host' = [host EXCEPT ![h] = IF waits
                                 THEN [at |-> k, idx |-> 0, launch |-> remotes + 1] ELSE NoLaunch]
                   /\ shared' = IF ~waits \/ \E g \in Hosts \ {h} : host[g].at = k
                                THEN shared \union {k} ELSE shared
<1>1. PICK c \in Conns, k \in Kernels, p \in Packet :
        /\ conn[c].active /\ p.launch = remotes + 1 /\ p.kernel = k
        /\ p.early = ~conn[c].ready /\ Whole(p)
        /\ txq' = [txq EXCEPT ![c] = Append(@, p)]
        /\ conn' = [conn EXCEPT ![c].inFlight = @ + 1]
        /\ tail' = [tail EXCEPT ![c] = NoArgs]
        /\ remotes' = remotes + 1
        /\ \E waits \in BOOLEAN :
             /\ host' = [host EXCEPT ![h] = IF waits
                           THEN [at |-> k, idx |-> 0, launch |-> remotes + 1] ELSE NoLaunch]
             /\ shared' = IF ~waits \/ \E g \in Hosts \ {h} : host[g].at = k
                          THEN shared \union {k} ELSE shared
  BY LaunchSends
<1>2. UNCHANGED <<toWorker, toMaster, executed, made, remoteMap>>
  BY DEF Launch
<1>3. /\ txq'[c] = Append(txq[c], p) /\ conn'[c] = [conn[c] EXCEPT !.inFlight = @ + 1]
      /\ \A b \in Conns \ {c} : txq'[b] = txq[b] /\ conn'[b] = conn[b]
  BY <1>1 DEF ClusterTypes
<1>4. Flight(c) /\ Arguments(c) /\ Once(c)
  BY DEF ConnInv
<1>5. \A x \in All(c) : x[1] # p.launch
  BY <1>1 DEF Numbered, ClusterTypes
<1>6. Flight(c)' /\ Arguments(c)' /\ Once(c)' /\ All(c)' = All(c) \union {Id(p)}
  BY <1>1, <1>2, <1>3, <1>4, <1>5, SendKeeps
<1>7. ASSUME NEW b \in Conns \ {c}
      PROVE  Flight(b)' /\ Arguments(b)' /\ Once(b)' /\ All(b)' = All(b)
  <2>1. Flight(b) /\ Arguments(b) /\ Once(b)
    BY DEF ConnInv
  <2> QED BY <1>2, <1>3, <2>1, ConnStays
<1>8. ConnInv'
  BY <1>6, <1>7 DEF ConnInv
<1>9. ArgumentsOwn'
  BY <1>2 DEF ArgumentsOwn
<1>10. Id(p) = <<remotes + 1, k>>
  BY <1>1 DEF Id
<1>11. ClusterTypes'
  <2>1. txq' \in [Conns -> Seq(Packet)]
    <3>1. Append(txq[c], p) \in Seq(Packet)
      BY QueueTypes, AppendQueue
    <3> QED BY <1>1, <3>1 DEF ClusterTypes
  <2>2. conn' \in [Conns -> ConnState]
    <3>1. [conn[c] EXCEPT !.inFlight = @ + 1] \in ConnState
      BY QueueTypes DEF ConnState
    <3> QED BY <1>1, <3>1 DEF ClusterTypes
  <2>3. host' = [g \in Hosts |-> host'[g]]
    <3>1. \E x : host' = [host EXCEPT ![h] = x]
      BY <1>1
    <3> QED BY <3>1 DEF ClusterTypes
  <2>4. tail' \in [Conns -> [Indices -> Nat]]
    BY <1>1, IndexFacts DEF ClusterTypes
  <2> QED BY <1>1, <1>2, <2>1, <2>2, <2>3, <2>4 DEF ClusterTypes
<1> QED BY <1>1, <1>6, <1>7, <1>8, <1>9, <1>10, <1>11

-----------------------------------------------------------------------------
(* The flight counters and the arguments *)

ClusterInv == ClusterTypes /\ ConnInv /\ ArgumentsOwn /\ Numbered

LEMMA ClusterInvInit == ClusterInit => ClusterInv
<1> SUFFICES ASSUME ClusterInit PROVE ClusterInv
  OBVIOUS
<1>1. ClusterTypes
  BY ClusterTypesInit
<1>2. ConnInv /\ \A c \in Conns : All(c) = {}
  BY ConnInvInit
<1>3. ArgumentsOwn
  BY DEF ClusterInit, ArgumentsOwn
<1> QED BY <1>1, <1>2, <1>3 DEF ClusterInv, Numbered

\* No step but a launch puts anything under way.
LEMMA QuietSteps ==
  ASSUME ClusterInv,
         \/ Connect \/ Elsewhere \/ (\E c \in Conns : QueueStep(c)) \/ UNCHANGED clusterVars
  PROVE  /\ ClusterInv' /\ remotes <= remotes' /\ executed \subseteq executed'
         /\ \A c \in Conns : All(c)' \subseteq All(c)
<1>0. ClusterTypes /\ ConnInv /\ ArgumentsOwn /\ Numbered /\ remotes \in Nat
  BY DEF ClusterInv, ClusterTypes
<1>1. ASSUME ClusterTypes', ConnInv', ArgumentsOwn', remotes <= remotes', executed \subseteq executed',
             \A c \in Conns : All(c)' \subseteq All(c)
      PROVE  /\ ClusterInv' /\ remotes <= remotes' /\ executed \subseteq executed'
             /\ \A c \in Conns : All(c)' \subseteq All(c)
  <2>1. Numbered'
    <3>1. remotes' \in Nat
      BY <1>1 DEF ClusterTypes
    <3> QED BY <1>0, <1>1, <3>1 DEF Numbered
  <2> QED BY <1>1, <2>1 DEF ClusterInv
<1>2. CASE Connect
  <2>1. \A c \in Conns : Flight(c)' /\ Arguments(c)' /\ Once(c)' /\ All(c)' = All(c)
    BY <1>0, <1>2, ConnectKeeps DEF ConnInv
  <2>2. conn' \in [Conns -> ConnState]
    <3>1. made + 1 \in Conns
      BY <1>2 DEF Connect
    <3> QED BY <1>0, <1>2, <3>1, ConnectKeeps DEF ConnInv
  <2>3. ClusterTypes' /\ remotes' = remotes /\ executed' = executed
    <3>1. /\ UNCHANGED <<txq, tail, toWorker, toMaster, remoteMap, host, remotes, executed>>
          /\ made' = made + 1
      BY <1>2 DEF Connect
    <3>2. made' \in Nat
      BY <1>0, <3>1 DEF ClusterTypes
    <3> QED BY <1>0, <2>2, <3>1, <3>2 DEF ClusterTypes
  <2>4. ArgumentsOwn'
    BY <1>0, <2>3 DEF ArgumentsOwn
  <2> QED BY <1>0, <1>1, <2>1, <2>3, <2>4 DEF ConnInv
<1>3. CASE Elsewhere \/ UNCHANGED clusterVars
  <2>1. UNCHANGED <<conn, txq, toWorker, toMaster, executed, made>>
    BY <1>3, ElsewhereQueues
  <2>2. ClusterTypes' /\ remotes <= remotes'
    BY <1>0, <1>3, ElsewhereTypes
  <2>3. \A c \in Conns : Flight(c)' /\ Arguments(c)' /\ Once(c)' /\ All(c)' = All(c)
    BY <1>0, <2>1, ConnStays DEF ConnInv
  <2>4. ArgumentsOwn'
    BY <1>0, <2>1 DEF ArgumentsOwn
  <2> QED BY <1>1, <2>1, <2>2, <2>3, <2>4 DEF ConnInv
<1>4. ASSUME NEW c \in Conns, QueueStep(c)
      PROVE  /\ ClusterInv' /\ remotes <= remotes' /\ executed \subseteq executed'
             /\ \A b \in Conns : All(b)' \subseteq All(b)
  BY <1>0, <1>1, <1>4, QueueStepTypes, QueueStepKeeps, OtherQueues
<1> QED BY <1>2, <1>3, <1>4

LEMMA LaunchKeepsInv ==
  ASSUME ClusterInv, NEW h \in Hosts, Launch(h)
  PROVE  ClusterInv'
<1>1. ClusterTypes' /\ ConnInv' /\ ArgumentsOwn'
  BY LaunchKeeps DEF ClusterInv
<1>2. PICK c \in Conns, k \in Kernels :
        /\ All(c)' = All(c) \union {<<remotes + 1, k>>}
        /\ \A b \in Conns \ {c} : All(b)' = All(b)
  BY LaunchKeeps DEF ClusterInv
<1>3. remotes' = remotes + 1 /\ remotes \in Nat
  BY DEF Launch, Send, ClusterInv, ClusterTypes
<1>4. Numbered'
  BY <1>2, <1>3 DEF Numbered, ClusterInv
<1> QED BY <1>1, <1>4 DEF ClusterInv

LEMMA StepsSplit ==
  ASSUME [ClusterNext]_clusterVars
  PROVE  \/ Connect \/ Elsewhere \/ (\E c \in Conns : QueueStep(c)) \/ UNCHANGED clusterVars
         \/ \E h \in Hosts : Launch(h)
BY DEF ClusterNext, Elsewhere, QueueStep

LEMMA ClusterInvNext ==
  ASSUME ClusterInv, [ClusterNext]_clusterVars
  PROVE  ClusterInv'
BY StepsSplit, QuietSteps, LaunchKeepsInv

\* Whatever is refused, sent, dropped, answered, rate-limited, lost or purged, the
\* flight counter of an open connection is the number of launches under way on it
\* and of packets dropped on it: Landed's "never below 0" is never needed.
THEOREM InFlightIsExact == ClusterSpec => []InFlightExact
<1>1. ClusterInv => InFlightExact
  BY DEF ClusterInv, ConnInv, Flight, InFlightExact
<1> QED BY <1>1, ClusterInvInit, ClusterInvNext, PTL DEF ClusterSpec

\* However many launches a full queue broke off before it, and however many
\* arguments the kernels have, no kernel is enqueued with arguments of another
\* launch, and none misses one unless it was queued before the handshake's end.
THEOREM ArgumentsAreOwn == ClusterSpec => []ArgumentsOwn
<1>1. ClusterInv => ArgumentsOwn
  BY DEF ClusterInv
<1> QED BY <1>1, ClusterInvInit, ClusterInvNext, PTL DEF ClusterSpec

-----------------------------------------------------------------------------
(* The responses *)

Under(l)   == \E c \in Conns : \E x \in All(c) : x[1] = l
Held(l)    == \E k \in Kernels : remoteMap[k] = l
Waiting(k, l) == \E h \in Hosts : host[h].at = k /\ host[h].launch = l

\* A launch is under way on one connection, or its response is held, or has ended a
\* wait: never two of these.
Separate ==
  \A b, c \in Conns : b # c => Apart(All(b), All(c))
HeldSound ==
  \A k \in Kernels : remoteMap[k] # 0 =>
    /\ remoteMap[k] <= remotes /\ ~Under(remoteMap[k])
    /\ \E r \in executed : r.launch = remoteMap[k] /\ r.kernel = k
    /\ \A j \in Kernels : remoteMap[j] = remoteMap[k] => j = k
RepliedSound ==
  \A p \in replied :
    p.got \in Nat /\ p.got # 0 /\ p.got <= remotes /\ ~Under(p.got) /\ ~Held(p.got)

\* While the launches of a kernel are waited for, one at a time, what is under way
\* or held of it belongs to the one wait there is.
WaitedFor ==
  \A k \in Kernels \ shared :
    /\ \A g, h \in Hosts : host[g].at = k /\ host[h].at = k => g = h
    /\ \A c \in Conns : \A x \in All(c) : x[2] = k => Waiting(k, x[1])
    /\ remoteMap[k] # 0 => Waiting(k, remoteMap[k])

ReplyInv == Separate /\ HeldSound /\ RepliedSound /\ WaitedFor /\ RepliesSound

LEMMA ReplyInvInit == ASSUME ClusterInit PROVE ReplyInv
<1>1. \A c \in Conns : All(c) = {}
  BY ConnInvInit
<1>2. (\A k \in Kernels : remoteMap[k] = 0) /\ replied = {}
  BY DEF ClusterInit
<1>3. \A h \in Hosts : host[h].at \notin Kernels
  BY ClusterAssumption DEF ClusterInit, NoLaunch
<1> QED BY <1>1, <1>2, <1>3 DEF ReplyInv, Separate, Apart, HeldSound, RepliedSound, WaitedFor,
                                RepliesSound

\* Steps that add nothing and take no response.
LEMMA ReplyStays ==
  ASSUME ReplyInv, ClusterTypes, remotes' \in Nat, remotes <= remotes', executed \subseteq executed',
         \A c \in Conns : All(c)' \subseteq All(c),
         UNCHANGED <<remoteMap, replied>>, shared \subseteq shared',
         \A h \in Hosts, k \in Kernels \ shared' :
           (host[h].at = k <=> host'[h].at = k)
           /\ (host[h].at = k => host'[h].launch = host[h].launch)
  PROVE  ReplyInv'
<1>1. Separate'
  BY DEF ReplyInv, Separate, Apart
<1>2. \A l : ~Under(l) => ~Under(l)'
  BY DEF Under
<1>3. \A l : Held(l)' <=> Held(l)
  BY DEF Held
<1>4. HeldSound'
  <2> SUFFICES ASSUME NEW k \in Kernels, remoteMap[k] # 0
               PROVE  /\ remoteMap[k] <= remotes' /\ ~Under(remoteMap[k])'
                      /\ \E r \in executed' : r.launch = remoteMap[k] /\ r.kernel = k
                      /\ \A j \in Kernels : remoteMap[j] = remoteMap[k] => j = k
    BY DEF HeldSound
  <2>1. /\ remoteMap[k] <= remotes /\ ~Under(remoteMap[k])
        /\ \E r \in executed : r.launch = remoteMap[k] /\ r.kernel = k
        /\ \A j \in Kernels : remoteMap[j] = remoteMap[k] => j = k
    BY DEF ReplyInv, HeldSound
  <2>2. remoteMap[k] \in Nat /\ remotes \in Nat
    BY DEF ClusterTypes
  <2>3. remoteMap[k] <= remotes'
    BY <2>1, <2>2
  <2>4. ~Under(remoteMap[k])'
    BY <1>2, <2>1 DEF Under
  <2> QED BY <2>1, <2>3, <2>4
<1>5. RepliedSound'
  <2> SUFFICES ASSUME NEW p \in replied
               PROVE  /\ p.got \in Nat /\ p.got # 0 /\ p.got <= remotes'
                      /\ ~Under(p.got)' /\ ~Held(p.got)'
    BY DEF RepliedSound
  <2>1. p.got \in Nat /\ p.got # 0 /\ p.got <= remotes /\ ~Under(p.got) /\ ~Held(p.got)
    BY DEF ReplyInv, RepliedSound
  <2>2. p.got <= remotes'
    BY <2>1 DEF ClusterTypes
  <2> QED BY <1>2, <1>3, <2>1, <2>2
<1>6. WaitedFor'
  <2> SUFFICES ASSUME NEW k \in Kernels \ shared'
               PROVE  /\ \A g, h \in Hosts : host'[g].at = k /\ host'[h].at = k => g = h
                      /\ \A c \in Conns : \A x \in All(c)' : x[2] = k => Waiting(k, x[1])'
                      /\ remoteMap[k] # 0 => Waiting(k, remoteMap[k])'
    BY DEF WaitedFor
  <2>1. \A l : Waiting(k, l) => Waiting(k, l)'
    BY DEF Waiting
  <2>2. /\ \A g, h \in Hosts : host[g].at = k /\ host[h].at = k => g = h
        /\ \A c \in Conns : \A x \in All(c) : x[2] = k => Waiting(k, x[1])
        /\ remoteMap[k] # 0 => Waiting(k, remoteMap[k])
    BY DEF ReplyInv, WaitedFor
  <2>3. \A g, h \in Hosts : host'[g].at = k /\ host'[h].at = k => g = h
    BY <2>2
  <2>4. \A c \in Conns : \A x \in All(c)' : x[2] = k => Waiting(k, x[1])'
    BY <2>1, <2>2
  <2>5. remoteMap[k] # 0 => Waiting(k, remoteMap[k])'
    BY <2>1, <2>2 DEF Waiting
  <2> QED BY <2>3, <2>4, <2>5
<1>7. RepliesSound'
  BY DEF ReplyInv, RepliesSound
<1> QED BY <1>1, <1>4, <1>5, <1>6, <1>7 DEF ReplyInv

LEMMA LaunchReplies ==
  ASSUME ClusterInv, ReplyInv, NEW h \in Hosts, Launch(h)
  PROVE  ReplyInv'
<1>1. PICK c \in Conns, k \in Kernels :
        /\ All(c)' = All(c) \union {<<remotes + 1, k>>}
        /\ \A b \in Conns \ {c} : All(b)' = All(b)
        /\ \E waits \in BOOLEAN :
             /\ host' = [host EXCEPT ![h] = IF waits
                           THEN [at |-> k, idx |-> 0, launch |-> remotes + 1] ELSE NoLaunch]
             /\ shared' = IF ~waits \/ \E g \in Hosts \ {h} : host[g].at = k
                          THEN shared \union {k} ELSE shared
  BY LaunchKeeps DEF ClusterInv
<1>2. /\ remotes' = remotes + 1 /\ remotes \in Nat /\ host[h].at = "chosen"
      /\ UNCHANGED <<executed, replied, remoteMap>>
  BY DEF Launch, Send, ClusterInv, ClusterTypes
<1>3. \A b \in Conns : \A x \in All(b) : x[1] \in Nat /\ x[1] # remotes + 1
  BY <1>2 DEF ClusterInv, Numbered
<1>4. \A b \in Conns : \A x \in All(b)' : x \in All(b) \/ (b = c /\ x = <<remotes + 1, k>>)
  BY <1>1
<1>5. Separate'
  <2> SUFFICES ASSUME NEW a \in Conns, NEW b \in Conns, a # b,
                      NEW x \in All(a)', NEW y \in All(b)'
               PROVE  x[1] # y[1]
    BY DEF Separate, Apart
  <2>1. CASE x \in All(a) /\ y \in All(b)
    BY <2>1 DEF ReplyInv, Separate, Apart
  <2>2. CASE x = <<remotes + 1, k>> /\ a = c
    BY <1>3, <1>4, <2>2
  <2>3. CASE y = <<remotes + 1, k>> /\ b = c
    BY <1>3, <1>4, <2>3
  <2> QED BY <1>4, <2>1, <2>2, <2>3
<1>6. \A l : l # remotes + 1 /\ ~Under(l) => ~Under(l)'
  BY <1>4 DEF Under
<1>7. HeldSound'
  <2> SUFFICES ASSUME NEW j \in Kernels, remoteMap[j] # 0
               PROVE  /\ remoteMap[j] <= remotes' /\ ~Under(remoteMap[j])'
                      /\ \E r \in executed : r.launch = remoteMap[j] /\ r.kernel = j
                      /\ \A i \in Kernels : remoteMap[i] = remoteMap[j] => i = j
    BY <1>2 DEF HeldSound
  <2>1. /\ remoteMap[j] <= remotes /\ ~Under(remoteMap[j])
        /\ \E r \in executed : r.launch = remoteMap[j] /\ r.kernel = j
        /\ \A i \in Kernels : remoteMap[i] = remoteMap[j] => i = j
    BY DEF ReplyInv, HeldSound
  <2>2. remoteMap[j] \in Nat
    BY DEF ClusterInv, ClusterTypes
  <2>3. remoteMap[j] <= remotes' /\ remoteMap[j] # remotes + 1
    BY <1>2, <2>1, <2>2
  <2>4. ~Under(remoteMap[j])'
    BY <1>2, <1>6, <2>1, <2>3 DEF Under
  <2> QED BY <2>1, <2>3, <2>4
<1>8. RepliedSound'
  <2> SUFFICES ASSUME NEW p \in replied
               PROVE  /\ p.got \in Nat /\ p.got # 0 /\ p.got <= remotes'
                      /\ ~Under(p.got)' /\ ~Held(p.got)'
    BY <1>2 DEF RepliedSound
  <2>1. p.got \in Nat /\ p.got # 0 /\ p.got <= remotes /\ ~Under(p.got) /\ ~Held(p.got)
    BY DEF ReplyInv, RepliedSound
  <2>2. p.got <= remotes' /\ p.got # remotes + 1
    BY <1>2, <2>1
  <2>3. ~Held(p.got)'
    BY <1>2, <2>1 DEF Held
  <2> QED BY <1>6, <2>1, <2>2, <2>3
<1>9. WaitedFor'
  <2> SUFFICES ASSUME NEW j \in Kernels \ shared'
               PROVE  /\ \A a, g \in Hosts : host'[a].at = j /\ host'[g].at = j => a = g
                      /\ \A b \in Conns : \A x \in All(b)' : x[2] = j => Waiting(j, x[1])'
                      /\ remoteMap[j] # 0 => Waiting(j, remoteMap[j])'
    BY <1>2 DEF WaitedFor
  <2>1. j \in Kernels \ shared /\ host[h].at # j
    BY <1>1, <1>2, ClusterAssumption
  <2>2. /\ \A a, g \in Hosts : host[a].at = j /\ host[g].at = j => a = g
        /\ \A b \in Conns : \A x \in All(b) : x[2] = j => Waiting(j, x[1])
        /\ remoteMap[j] # 0 => Waiting(j, remoteMap[j])
    BY <2>1 DEF ReplyInv, WaitedFor
  <2>3. \A g \in Hosts \ {h} : host'[g] = host[g]
    BY <1>1 DEF ClusterInv, ClusterTypes
  <2>4. \A l : Waiting(j, l) => Waiting(j, l)'
    BY <2>1, <2>3 DEF Waiting
  <2>5. CASE j # k
    <3>1. host'[h].at # j
      <4>1. host'[h].at = k \/ host'[h].at = "idle"
        BY <1>1 DEF NoLaunch, ClusterInv, ClusterTypes
      <4> QED BY <2>5, <4>1, ClusterAssumption
    <3>2. \A a, g \in Hosts : host'[a].at = j /\ host'[g].at = j => a = g
      BY <2>2, <2>3, <3>1
    <3>3. \A b \in Conns : \A x \in All(b)' : x[2] = j => x \in All(b)
      BY <1>4, <2>5
    <3>4. remoteMap[j] # 0 => Waiting(j, remoteMap[j])'
      BY <1>2, <2>2, <2>4 DEF Waiting
    <3> QED BY <2>2, <2>4, <3>2, <3>3, <3>4
  <2>6. CASE j = k
    <3>1. /\ host'[h] = [at |-> k, idx |-> 0, launch |-> remotes + 1]
          /\ \A g \in Hosts \ {h} : host[g].at # k
      BY <1>1, <2>6 DEF ClusterInv, ClusterTypes
    <3>2. \A l : ~Waiting(j, l)
      BY <2>1, <2>6, <3>1 DEF Waiting
    <3>3. \A a, g \in Hosts : host'[a].at = j /\ host'[g].at = j => a = g
      BY <2>3, <2>6, <3>1
    <3>4. host'[h].at = j /\ host'[h].launch = remotes + 1
      BY <2>6, <3>1
    <3>5. \A b \in Conns : \A x \in All(b)' : x[2] = j => Waiting(j, x[1])'
      <4> SUFFICES ASSUME NEW b \in Conns, NEW x \in All(b)', x[2] = j
                   PROVE  Waiting(j, x[1])'
        OBVIOUS
      <4>1. x = <<remotes + 1, k>>
        BY <1>4, <2>2, <3>2
      <4>2. x[1] = remotes + 1
        BY <4>1
      <4> QED BY <3>4, <4>2 DEF Waiting
    <3> QED BY <2>2, <3>2, <3>3, <3>5
  <2> QED BY <2>5, <2>6
<1>10. RepliesSound'
  <2>1. shared \subseteq shared'
    BY <1>1
  <2> QED BY <1>2, <2>1 DEF ReplyInv, RepliesSound
<1> QED BY <1>5, <1>7, <1>8, <1>9, <1>10 DEF ReplyInv

\* The response of a launch is stored, in place of whatever was there.
LEMMA ReceiveReplies ==
  ASSUME ClusterInv, ReplyInv, NEW c \in Conns, Receive(c)
  PROVE  ReplyInv'
<1> DEFINE p == Head(toMaster[c])
<1>1. Flight(c) /\ Arguments(c) /\ Once(c) /\ ClusterTypes /\ remotes \in Nat
  BY DEF ClusterInv, ConnInv, ClusterTypes
<1>2. /\ Id(p) \in All(c) /\ \A x \in All(c)' : x[1] # p.launch
      /\ \E r \in executed : r.launch = p.launch /\ r.kernel = p.kernel
  <2>1. /\ Id(p) \in All(c) /\ Apart({Id(p)}, All(c)')
        /\ \E r \in executed : Id(r) = Id(p)
    BY <1>1, LandKeeps
  <2> QED BY <2>1 DEF Apart, Id
<1>3. /\ remoteMap' = [remoteMap EXCEPT ![p.kernel] = p.launch]
      /\ UNCHANGED <<host, remotes, executed, replied, shared>>
  BY DEF Receive
<1>4. /\ p.launch \in Nat /\ 0 < p.launch /\ p.launch <= remotes /\ p.kernel \in Kernels
      /\ Id(p)[1] = p.launch /\ Id(p)[2] = p.kernel
  BY <1>2 DEF ClusterInv, Numbered, Id
<1>5. /\ remoteMap'[p.kernel] = p.launch
      /\ \A k \in Kernels \ {p.kernel} : remoteMap'[k] = remoteMap[k]
  BY <1>1, <1>3, <1>4 DEF ClusterTypes
<1>6. \A b \in Conns : All(b)' \subseteq All(b)
  BY QuietSteps DEF QueueStep
<1>7. Separate'
  BY <1>6 DEF ReplyInv, Separate, Apart
<1>8. \A l : ~Under(l) => ~Under(l)'
  BY <1>6 DEF Under
<1>9. Under(p.launch)
  BY <1>2, <1>4 DEF Under
<1>10. \A b \in Conns : \A x \in All(b)' : x[1] # p.launch
  <2> SUFFICES ASSUME NEW b \in Conns, NEW x \in All(b)' PROVE x[1] # p.launch
    OBVIOUS
  <2>1. CASE b = c
    BY <1>2, <2>1
  <2>2. CASE b # c
    BY <1>2, <1>4, <1>6, <2>2 DEF ReplyInv, Separate, Apart
  <2> QED BY <2>1, <2>2
<1>11. HeldSound'
  <2> SUFFICES ASSUME NEW k \in Kernels, remoteMap'[k] # 0
               PROVE  /\ remoteMap'[k] <= remotes /\ ~Under(remoteMap[k])'
                      /\ \E r \in executed : r.launch = remoteMap'[k] /\ r.kernel = k
                      /\ \A j \in Kernels : remoteMap'[j] = remoteMap'[k] => j = k
    BY <1>3 DEF HeldSound
  <2>0. \A j \in Kernels \ {p.kernel} : remoteMap[j] # p.launch
    BY <1>4, <1>9 DEF ReplyInv, HeldSound
  <2>1. CASE k = p.kernel
    <3>1. ~Under(remoteMap[k])'
      BY <1>5, <1>10, <2>1 DEF Under
    <3>2. \A j \in Kernels : remoteMap'[j] = remoteMap'[k] => j = k
      BY <1>5, <2>0, <2>1
    <3>3. \E r \in executed : r.launch = remoteMap'[k] /\ r.kernel = k
      BY <1>2, <1>5, <2>1
    <3> QED BY <1>4, <1>5, <2>1, <3>1, <3>2, <3>3
  <2>2. CASE k # p.kernel
    <3>1. /\ remoteMap[k] <= remotes /\ ~Under(remoteMap[k])
          /\ \E r \in executed : r.launch = remoteMap[k] /\ r.kernel = k
          /\ \A j \in Kernels : remoteMap[j] = remoteMap[k] => j = k
      BY <1>5, <2>2 DEF ReplyInv, HeldSound
    <3>2. ~Under(remoteMap[k])'
      BY <1>5, <1>6, <2>2, <3>1 DEF Under
    <3>3. \A j \in Kernels : remoteMap'[j] = remoteMap'[k] => j = k
      BY <1>5, <2>0, <2>2, <3>1
    <3> QED BY <1>5, <2>2, <3>1, <3>2, <3>3
  <2> QED BY <2>1, <2>2
<1>12. RepliedSound'
  <2> SUFFICES ASSUME NEW q \in replied
               PROVE  /\ q.got \in Nat /\ q.got # 0 /\ q.got <= remotes
                      /\ ~Under(q.got)' /\ ~Held(q.got)'
    BY <1>3 DEF RepliedSound
  <2>1. q.got \in Nat /\ q.got # 0 /\ q.got <= remotes /\ ~Under(q.got) /\ ~Held(q.got)
    BY DEF ReplyInv, RepliedSound
  <2>2. q.got # p.launch
    BY <1>9, <2>1
  <2>3. ~Held(q.got)'
    BY <1>5, <2>1, <2>2 DEF Held
  <2> QED BY <1>8, <2>1, <2>3
<1>13. WaitedFor'
  <2> SUFFICES ASSUME NEW k \in Kernels \ shared
               PROVE  /\ \A g, h \in Hosts : host[g].at = k /\ host[h].at = k => g = h
                      /\ \A b \in Conns : \A x \in All(b)' : x[2] = k => Waiting(k, x[1])
                      /\ remoteMap'[k] # 0 => Waiting(k, remoteMap'[k])
    BY <1>3 DEF WaitedFor, Waiting
  <2>1. /\ \A g, h \in Hosts : host[g].at = k /\ host[h].at = k => g = h
        /\ \A b \in Conns : \A x \in All(b) : x[2] = k => Waiting(k, x[1])
        /\ remoteMap[k] # 0 => Waiting(k, remoteMap[k])
    BY DEF ReplyInv, WaitedFor
  <2>2. k = p.kernel => Waiting(k, p.launch)
    BY <1>2, <1>4, <2>1
  <2>3. remoteMap'[k] # 0 => Waiting(k, remoteMap'[k])
    BY <1>5, <2>1, <2>2
  <2> QED BY <1>6, <2>1, <2>3
<1>14. RepliesSound'
  BY <1>3 DEF ReplyInv, RepliesSound
<1> QED BY <1>7, <1>11, <1>12, <1>13, <1>14 DEF ReplyInv

LEMMA TakeReplies ==
  ASSUME ClusterInv, ReplyInv, NEW h \in Hosts, TakeReply(h)
  PROVE  ReplyInv'
<1> DEFINE k == host[h].at
           p == [kernel |-> k, waited |-> host[h].launch, got |-> remoteMap[k]]
<1>1. /\ k \in Kernels /\ remoteMap[k] # 0 /\ replied' = replied \union {p}
      /\ remoteMap' = [remoteMap EXCEPT ![k] = 0] /\ host' = [host EXCEPT ![h] = NoLaunch]
      /\ UNCHANGED <<remotes, executed, shared>>
  BY DEF TakeReply, Erased
<1>2. \A c \in Conns : All(c)' = All(c)
  BY ElsewhereQueues DEF Elsewhere, All
<1>3. remoteMap \in [Kernels -> Nat] /\ host = [g \in Hosts |-> host[g]]
  BY DEF ClusterInv, ClusterTypes
<1>4. /\ remoteMap'[k] = 0 /\ \A j \in Kernels \ {k} : remoteMap'[j] = remoteMap[j]
      /\ host'[h] = NoLaunch /\ \A g \in Hosts \ {h} : host'[g] = host[g]
  BY <1>1, <1>3
<1>5. /\ remoteMap[k] <= remotes /\ ~Under(remoteMap[k]) /\ remoteMap[k] \in Nat
      /\ \E r \in executed : r.launch = remoteMap[k] /\ r.kernel = k
      /\ \A j \in Kernels : remoteMap[j] = remoteMap[k] => j = k
  BY <1>1, <1>3 DEF ReplyInv, HeldSound
<1>6. \A l : Under(l)' <=> Under(l)
  BY <1>2 DEF Under
<1>7. Separate'
  BY <1>2 DEF ReplyInv, Separate
<1>8. HeldSound'
  <2> SUFFICES ASSUME NEW j \in Kernels, remoteMap'[j] # 0
               PROVE  /\ remoteMap'[j] <= remotes /\ ~Under(remoteMap[j])'
                      /\ \E r \in executed : r.launch = remoteMap'[j] /\ r.kernel = j
                      /\ \A i \in Kernels : remoteMap'[i] = remoteMap'[j] => i = j
    BY <1>1 DEF HeldSound
  <2>1. j # k /\ remoteMap'[j] = remoteMap[j]
    BY <1>4
  <2>2. /\ remoteMap[j] <= remotes /\ ~Under(remoteMap[j])
        /\ \E r \in executed : r.launch = remoteMap[j] /\ r.kernel = j
        /\ \A i \in Kernels : remoteMap[i] = remoteMap[j] => i = j
    BY <2>1 DEF ReplyInv, HeldSound
  <2>3. ~Under(remoteMap[j])'
    BY <1>2, <2>1, <2>2 DEF Under
  <2>4. \A i \in Kernels : remoteMap'[i] = remoteMap'[j] => i = j
    BY <1>4, <2>1, <2>2
  <2> QED BY <2>1, <2>2, <2>3, <2>4
<1>9. RepliedSound'
  <2> SUFFICES ASSUME NEW q \in replied'
               PROVE  /\ q.got \in Nat /\ q.got # 0 /\ q.got <= remotes
                      /\ ~Under(q.got)' /\ ~Held(q.got)'
    BY <1>1 DEF RepliedSound
  <2>1. CASE q \in replied
    <3>1. q.got \in Nat /\ q.got # 0 /\ q.got <= remotes /\ ~Under(q.got) /\ ~Held(q.got)
      BY <2>1 DEF ReplyInv, RepliedSound
    <3>2. ~Held(q.got)'
      BY <1>4, <3>1 DEF Held
    <3> QED BY <1>6, <3>1, <3>2
  <2>2. CASE q = p
    <3>1. q.got = remoteMap[k]
      BY <2>2
    <3>2. ~Held(q.got)'
      BY <1>1, <1>4, <1>5, <3>1 DEF Held
    <3> QED BY <1>1, <1>5, <1>6, <3>1, <3>2
  <2> QED BY <1>1, <2>1, <2>2
<1>10. WaitedFor'
  <2> SUFFICES ASSUME NEW j \in Kernels \ shared
               PROVE  /\ \A a, g \in Hosts : host'[a].at = j /\ host'[g].at = j => a = g
                      /\ \A b \in Conns : \A x \in All(b)' : x[2] = j => Waiting(j, x[1])'
                      /\ remoteMap'[j] # 0 => Waiting(j, remoteMap[j])'
    BY <1>1 DEF WaitedFor
  <2>1. /\ \A a, g \in Hosts : host[a].at = j /\ host[g].at = j => a = g
        /\ \A b \in Conns : \A x \in All(b) : x[2] = j => Waiting(j, x[1])
        /\ remoteMap[j] # 0 => Waiting(j, remoteMap[j])
    BY DEF ReplyInv, WaitedFor
  <2>2. host'[h].at \notin Kernels
    BY <1>4, ClusterAssumption DEF NoLaunch
  <2>3. \A a, g \in Hosts : host'[a].at = j /\ host'[g].at = j => a = g
    BY <1>4, <2>1, <2>2
  <2>4. CASE j # k
    <3>1. \A l : Waiting(j, l) => Waiting(j, l)'
      BY <1>4, <2>4 DEF Waiting
    <3>2. remoteMap'[j] # 0 => Waiting(j, remoteMap[j])'
      BY <1>4, <2>1, <2>4, <3>1 DEF Waiting
    <3> QED BY <1>2, <2>1, <2>3, <3>1, <3>2
  <2>5. CASE j = k
    <3>1. \A l : Waiting(k, l) => l = host[h].launch
      BY <2>1, <2>5 DEF Waiting
    <3>2. host[h].launch = remoteMap[k]
      BY <1>1, <2>1, <2>5, <3>1
    <3>3. \A b \in Conns : \A x \in All(b) : x[2] # j
      BY <1>5, <2>1, <2>5, <3>1, <3>2 DEF Under
    <3> QED BY <1>2, <1>4, <2>3, <2>5, <3>3
  <2> QED BY <2>4, <2>5
<1>11. RepliesSound'
  <2>1. k \notin shared => remoteMap[k] = host[h].launch
    <3> SUFFICES ASSUME k \notin shared PROVE remoteMap[k] = host[h].launch
      OBVIOUS
    <3>1. /\ \A a, g \in Hosts : host[a].at = k /\ host[g].at = k => a = g
          /\ Waiting(k, remoteMap[k])
      BY <1>1 DEF ReplyInv, WaitedFor
    <3> QED BY <3>1 DEF Waiting
  <2>2. \A q \in replied : q.got # remoteMap[k]
    BY <1>1 DEF ReplyInv, RepliedSound, Held
  <2>3. p.kernel = k /\ p.waited = host[h].launch /\ p.got = remoteMap[k]
    OBVIOUS
  <2> HIDE DEF p
  <2>4. \A q \in replied' :
          /\ \E r \in executed : r.launch = q.got /\ r.kernel = q.kernel
          /\ q.kernel \notin shared => q.got = q.waited
    BY <1>1, <1>5, <2>1, <2>3 DEF ReplyInv, RepliesSound
  <2>5. \A q, r \in replied' : q.got = r.got => q = r
    BY <1>1, <2>2, <2>3 DEF ReplyInv, RepliesSound
  <2> QED BY <1>1, <2>4, <2>5 DEF RepliesSound
<1> QED BY <1>7, <1>8, <1>9, <1>10, <1>11 DEF ReplyInv

\* The other steps neither store nor take a response.
LEMMA OtherReplies ==
  ASSUME ClusterInv, ReplyInv,
         \/ Connect \/ Purge \/ UNCHANGED clusterVars
         \/ \E c \in Conns : \/ Secured(c) \/ Drop(c) \/ Flush(c) \/ FlushLeft(c)
                             \/ Work(c) \/ Limited(c)
         \/ \E h \in Hosts : Choose(h) \/ LaunchGone(h) \/ LaunchBusy(h) \/ ReplyTimesOut(h)
  PROVE  ReplyInv'
<1>1. /\ ClusterInv' /\ remotes <= remotes' /\ executed \subseteq executed'
      /\ \A c \in Conns : All(c)' \subseteq All(c)
  BY QuietSteps DEF Elsewhere, QueueStep
<1>2. ClusterTypes /\ remotes' \in Nat
  BY <1>1 DEF ClusterInv, ClusterTypes
<1>3. UNCHANGED <<remoteMap, replied>> /\ shared \subseteq shared'
  BY DEF Connect, Purge, clusterVars, Secured, Drop, Flush, FlushLeft, Work, Limited, Choose,
         LaunchGone, LaunchBusy, ReplyTimesOut
<1>4. \A h \in Hosts, k \in Kernels \ shared' :
        (host[h].at = k <=> host'[h].at = k)
        /\ (host[h].at = k => host'[h].launch = host[h].launch)
  <2>1. CASE host' = host
    BY <2>1
  <2>2. ASSUME NEW h \in Hosts,
               Choose(h) \/ LaunchGone(h) \/ LaunchBusy(h) \/ ReplyTimesOut(h)
        PROVE  <1>4
    <3>0. NoLaunch.at = "idle" /\ \A i : [NoLaunch EXCEPT !.at = "chosen", !.idx = i].at = "chosen"
      BY DEF NoLaunch
    <3>1. host[h].at \in {"idle", "chosen"} \union shared'
      BY <2>2 DEF Choose, LaunchGone, LaunchBusy, ReplyTimesOut
    <3>2. host'[h].at \in {"idle", "chosen"} /\ \A g \in Hosts \ {h} : host'[g] = host[g]
      <4>1. CASE Choose(h)
        <5>1. PICK i \in DOMAIN clients :
                host' = [host EXCEPT ![h] = [NoLaunch EXCEPT !.at = "chosen", !.idx = i]]
          BY <4>1 DEF Choose
        <5> QED BY <1>2, <3>0, <5>1 DEF ClusterTypes
      <4>2. CASE LaunchGone(h) \/ LaunchBusy(h) \/ ReplyTimesOut(h)
        BY <1>2, <3>0, <4>2 DEF LaunchGone, LaunchBusy, ReplyTimesOut, ClusterTypes
      <4> QED BY <2>2, <4>1, <4>2
    <3> QED BY <3>1, <3>2, ClusterAssumption
  <2>3. host' = host \/ \E h \in Hosts :
          Choose(h) \/ LaunchGone(h) \/ LaunchBusy(h) \/ ReplyTimesOut(h)
    BY DEF Connect, Purge, clusterVars, Secured, Drop, Flush, FlushLeft, Work, Limited
  <2> QED BY <2>1, <2>2, <2>3
<1> QED BY <1>1, <1>2, <1>3, <1>4, ReplyStays

LEMMA ReplyInvNext ==
  ASSUME ClusterInv, ReplyInv, [ClusterNext]_clusterVars
  PROVE  ReplyInv'
BY LaunchReplies, ReceiveReplies, TakeReplies, OtherReplies DEF ClusterNext

\* For any number of workers, threads and launches: a response ends at most one wait,
\* for its own kernel, and the wait of its own launch while the kernel's launches are
\* waited for one at a time to their end.
THEOREM RepliesAreSound == ClusterSpec => []RepliesSound
<1>1. ClusterInv /\ ReplyInv => RepliesSound
  BY DEF ReplyInv
<1>2. ClusterInit => ClusterInv /\ ReplyInv
  BY ClusterInvInit, ReplyInvInit
<1>3. ClusterInv /\ ReplyInv /\ [ClusterNext]_clusterVars => (ClusterInv /\ ReplyInv)'
  BY ClusterInvNext, ReplyInvNext
<1> QED BY <1>1, <1>2, <1>3, PTL DEF ClusterSpec
=============================================================================
