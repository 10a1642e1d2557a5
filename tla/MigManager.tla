----------------------------- MODULE MigManager -----------------------------
(***************************************************************************)
(* Multi-instance partitioning of the device (MigManager in                *)
(* src/mig/mig_manager.cpp): the device's compute and memory slices are    *)
(* handed to GPU instances in contiguous ranges, first fit.  Every method  *)
(* runs under mu_ and is one step; configureDevice, which seeds instances  *)
(* from the environment, is one step per entry, with nothing in between.   *)
(*                                                                         *)
(* A UUID is a number never used before (it is random in the code); the    *)
(* order of instances_ is that of the numbers.                             *)
(***************************************************************************)
EXTENDS Integers, Sequences

CONSTANTS
  ComputeSlices,  \* computeSlices_, 7 in the code
  MemSlices,      \* memSlices_, 8 in the code
  Requests,       \* the profiles that are asked for
  SliceBytes,     \* totalMem_ / memSlices_
  Modulus,        \* 2^64: byte counts are unsigned
  Amounts,        \* byte counts of allocations and frees
  Seeds,          \* contents of VGRE_MIG_PROFILE, sequences of profiles
  MaxUuids        \* bound: instances created

\* A profile is named by its compute slices; parseProfile accepts these.
Profiles == {1, 2, 3, 4, 7}
\* memSlicesFor: the memory slices of a profile.
MemSlicesFor(p) == CASE p \in {1, 2} -> p [] p \in {3, 4} -> 4 [] p = 7 -> 8

ASSUME MigAssumption ==
  /\ ComputeSlices \in Nat /\ MemSlices \in Nat
  /\ Requests \subseteq Profiles
  /\ SliceBytes \in Nat
  /\ Modulus \in Nat \ {0}
  /\ Amounts \subseteq Nat
  /\ Seeds \subseteq Seq(Requests)
  /\ MaxUuids \in Nat

Unpinned == -1
Uuids  == 0..(MaxUuids - 1)

VARIABLES
  configured,   \* configured_
  seeding,      \* the profiles configureDevice has still to place
  pin,          \* VGRE_MIG_DEVICE as an index, Unpinned when it is not set
  computeUsed,  \* computeUsed_, the slots that are set
  memUsed,      \* memUsed_
  instances,    \* instances_, by UUID
  active,       \* active_, a set of at most one UUID
  nextUuid      \* the next UUID

migVars == <<configured, seeding, pin, computeUsed, memUsed, instances, active, nextUuid>>

GpuInstance == [computeStart : Nat, computeCount : Nat, memStart : Nat, memCount : Nat,
                budget : Nat, used : Nat, ciUsed : Nat]

MigInit ==
  /\ configured = FALSE
  /\ seeding = <<>> /\ pin = Unpinned
  /\ computeUsed = {} /\ memUsed = {}
  /\ instances = [u \in {} |-> {}]
  /\ active = {}
  /\ nextUuid = 0

Configured == configured /\ seeding = <<>>

-----------------------------------------------------------------------------
\* The slots of a range.
SliceRange(start, count) == start..(start + count - 1)

\* placeContiguous_locked finds the first free range.
Fits(start, count, used, total) ==
  start + count <= total /\ SliceRange(start, count) \cap used = {}
FirstFit(start, count, used, total) ==
  /\ Fits(start, count, used, total)
  /\ \A s \in 0..(start - 1) : ~Fits(s, count, used, total)
NoFit(count, used, total) == \A s \in 0..total : ~Fits(s, count, used, total)

NewInstance(p, cs, ms) ==
  [computeStart |-> cs, computeCount |-> p, memStart |-> ms, memCount |-> MemSlicesFor(p),
   budget |-> SliceBytes * MemSlicesFor(p), used |-> 0, ciUsed |-> 0]

\* Mutant: the compute slots stay taken when there is no memory.
KeepCompute(used, cs, p) == used
\* The compute slots are given back when there is no memory for the instance.
RollBack(used, cs, p) == used \ SliceRange(cs, p)

\* Placing an instance of profile p; without a free compute range nothing changes.
Place(p) ==
  \E cs \in 0..ComputeSlices :
    /\ FirstFit(cs, p, computeUsed, ComputeSlices)
    /\ \/ \E ms \in 0..MemSlices :
            /\ FirstFit(ms, MemSlicesFor(p), memUsed, MemSlices)
            /\ nextUuid < MaxUuids
            /\ computeUsed' = computeUsed \union SliceRange(cs, p)
            /\ memUsed' = memUsed \union SliceRange(ms, MemSlicesFor(p))
            /\ instances' = [u \in DOMAIN instances \union {nextUuid} |->
                               IF u = nextUuid THEN NewInstance(p, cs, ms) ELSE instances[u]]
            /\ nextUuid' = nextUuid + 1
       \/ /\ NoFit(MemSlicesFor(p), memUsed, MemSlices)
          /\ computeUsed' = RollBack(computeUsed \union SliceRange(cs, p), cs, p)
          /\ UNCHANGED <<memUsed, instances, nextUuid>>

\* The first call wins.
ConfigureDevice(seed, device) ==
  /\ ~configured
  /\ configured' = TRUE
  /\ seeding' = seed /\ pin' = device
  /\ UNCHANGED <<computeUsed, memUsed, instances, active, nextUuid>>

\* One entry of VGRE_MIG_PROFILE is placed or, when it does not fit, skipped.
SeedNext ==
  /\ seeding # <<>>
  /\ seeding' = Tail(seeding)
  /\ \/ Place(Head(seeding))
     \/ /\ NoFit(Head(seeding), computeUsed, ComputeSlices)
        /\ UNCHANGED <<computeUsed, memUsed, instances, nextUuid>>
  /\ active' = IF Len(seeding) = 1 /\ pin \in DOMAIN instances' THEN {pin} ELSE active
  /\ UNCHANGED <<configured, pin>>

CreateGpuInstance(p) ==
  /\ Configured
  /\ Place(p)
  /\ UNCHANGED <<configured, seeding, pin, active>>

DestroyGpuInstance(u) ==
  /\ Configured
  /\ computeUsed' = computeUsed \ SliceRange(instances[u].computeStart, instances[u].computeCount)
  /\ memUsed' = memUsed \ SliceRange(instances[u].memStart, instances[u].memCount)
  /\ active' = active \ {u}
  /\ instances' = [v \in DOMAIN instances \ {u} |-> instances[v]]
  /\ UNCHANGED <<configured, seeding, pin, nextUuid>>

CreateComputeInstance(u, slices) ==
  /\ Configured
  /\ instances[u].ciUsed + slices <= instances[u].computeCount
  /\ instances' = [instances EXCEPT ![u].ciUsed = @ + slices]
  /\ UNCHANGED <<configured, seeding, pin, computeUsed, memUsed, active, nextUuid>>

\* The sum is tested, and stored, as it wraps.
InstanceAllocate(u, bytes) ==
  /\ Configured
  /\ (instances[u].used + bytes) % Modulus <= instances[u].budget
  /\ instances' = [instances EXCEPT ![u].used = (@ + bytes) % Modulus]
  /\ UNCHANGED <<configured, seeding, pin, computeUsed, memUsed, active, nextUuid>>

InstanceFree(u, bytes) ==
  /\ Configured
  /\ instances' = [instances EXCEPT ![u].used = IF bytes >= @ THEN 0 ELSE @ - bytes]
  /\ UNCHANGED <<configured, seeding, pin, computeUsed, memUsed, active, nextUuid>>

SetActiveInstance(u) ==
  /\ Configured
  /\ active' = {u}
  /\ UNCHANGED <<configured, seeding, pin, computeUsed, memUsed, instances, nextUuid>>

ClearActiveInstance ==
  /\ Configured
  /\ active' = {}
  /\ UNCHANGED <<configured, seeding, pin, computeUsed, memUsed, instances, nextUuid>>

\* reset keeps the geometry; the device stays configured.
Reset ==
  /\ Configured
  /\ instances' = [u \in {} |-> {}]
  /\ active' = {}
  /\ computeUsed' = {} /\ memUsed' = {}
  /\ UNCHANGED <<configured, seeding, pin, nextUuid>>

MigNext ==
  \/ \E seed \in Seeds, device \in Uuids \union {Unpinned} : ConfigureDevice(seed, device)
  \/ SeedNext
  \/ \E p \in Requests : CreateGpuInstance(p)
  \/ \E u \in DOMAIN instances :
       \/ DestroyGpuInstance(u) \/ SetActiveInstance(u)
       \/ \E n \in Requests : CreateComputeInstance(u, n)
       \/ \E b \in Amounts : InstanceAllocate(u, b) \/ InstanceFree(u, b)
  \/ ClearActiveInstance \/ Reset

MigSpec == MigInit /\ [][MigNext]_migVars

-----------------------------------------------------------------------------
ComputeOf(u) == SliceRange(instances[u].computeStart, instances[u].computeCount)
MemOf(u)     == SliceRange(instances[u].memStart, instances[u].memCount)

\* Isolation: the slot maps hold exactly the instances' slots, no slot has two
\* instances, all slots are the device's, and the pinned instance exists, after
\* any sequence of seeding, creations that fail half-way, destructions and resets.
PartitionExact ==
  /\ computeUsed = UNION {ComputeOf(u) : u \in DOMAIN instances}
  /\ memUsed = UNION {MemOf(u) : u \in DOMAIN instances}
  /\ \A u, v \in DOMAIN instances :
       u # v => ComputeOf(u) \cap ComputeOf(v) = {} /\ MemOf(u) \cap MemOf(v) = {}
  /\ computeUsed \subseteq 0..(ComputeSlices - 1) /\ memUsed \subseteq 0..(MemSlices - 1)
  /\ active \subseteq DOMAIN instances
=============================================================================
