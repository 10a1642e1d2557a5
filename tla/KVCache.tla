------------------------------ MODULE KVCache ------------------------------
(***************************************************************************)
(* The paged KV cache (KVCacheManager in src/core/kv_cache.cpp): a pool of *)
(* blocks, a free list used as a stack, an owner tag per block and a block *)
(* table per sequence.  The cache is not thread-safe; each of its methods  *)
(* is a function of the cache, kv, that its users apply.                   *)
(*                                                                         *)
(* What a token's K and V hold is left out: a sequence is its length and   *)
(* the blocks its tokens lie in.                                           *)
(***************************************************************************)
EXTENDS Naturals, SequencesExt, FiniteSetsExt

CONSTANTS
  TotalBlocks,  \* blocks of the pool
  BlockSize,    \* tokens per block
  SeqIds        \* sequence identifiers

ASSUME KVAssumption ==
  /\ TotalBlocks \in Nat
  /\ BlockSize \in Nat \ {0}

Blocks == 0..(TotalBlocks - 1)

VARIABLE kv  \* [free: freeList_, state: blockState_, seqs: seqs_]

NoSeq == [table |-> <<>>, length |-> 0]

\* The constructor pushes the blocks so that the lowest is on top.
KVInit ==
  kv = [free  |-> [i \in 1..TotalBlocks |-> TotalBlocks - i],
        state |-> [b \in Blocks |-> "free"],
        seqs  |-> [s \in {} |-> NoSeq]]

HasSequence(s)   == s \in DOMAIN kv.seqs
FreeBlocks(c)    == Len(c.free)
\* blocksFor, and requiredBlocks in reserveSequenceCapacity.
BlocksFor(n)     == (n + BlockSize - 1) \div BlockSize

\* The sequence's record, created empty by the first use of its id.
SeqRec(c, s)      == IF s \in DOMAIN c.seqs THEN c.seqs[s] ELSE NoSeq
WithSeq(c, s, q) == [c EXCEPT !.seqs = [x \in DOMAIN c.seqs \union {s} |->
                                          IF x = s THEN q ELSE c.seqs[x]]]

\* n blocks move from the top of the free list to the end of s's table.
Taken(c, s, n) ==
  LET top   == Reverse(SubSeq(c.free, Len(c.free) - n + 1, Len(c.free)))
      q     == SeqRec(c, s)
  IN WithSeq([c EXCEPT !.free = SubSeq(@, 1, Len(@) - n),
                       !.state = [b \in Blocks |-> IF b \in ToSet(top) THEN "sequence" ELSE @[b]]],
             s, [q EXCEPT !.table = @ \o top])

\* allocateBlock, when the pool is not exhausted.
Allocated(c) == [c EXCEPT !.free = Front(@), !.state[Last(c.free)] = "raw"]

\* Mutant: no look at the tag.
ReleasedUnchecked(c, b, expected) ==
  IF b \notin Blocks THEN c ELSE [c EXCEPT !.free = Append(@, b), !.state[b] = "free"]

\* releaseBlock: a block that is not tagged as expected is left alone.
Released(c, b, expected) ==
  IF b \notin Blocks \/ c.state[b] # expected THEN c
  ELSE [c EXCEPT !.free = Append(@, b), !.state[b] = "free"]

\* reserveSequenceCapacity and whether it succeeds.  A failed call on an
\* existing sequence changes nothing, on a new one it adds nothing either.
CanReserve(c, s, n) ==
  /\ BlocksFor(n) <= Len(SeqRec(c, s).table) + FreeBlocks(c)
  /\ n >= SeqRec(c, s).length
Reserved(c, s, n) ==
  LET more == BlocksFor(n) - Len(SeqRec(c, s).table)
  IN IF BlocksFor(n) <= Len(SeqRec(c, s).table) THEN WithSeq(c, s, SeqRec(c, s))
     ELSE Taken(c, s, more)

\* appendToken: a token that does not fit its table takes one more block.  When
\* the pool is empty the call fails, but it has created the sequence.
Full(c, s)      == SeqRec(c, s).length \div BlockSize >= Len(SeqRec(c, s).table)
CanAppend(c, s) == Full(c, s) => FreeBlocks(c) > 0
Appended(c, s) ==
  IF ~CanAppend(c, s) THEN WithSeq(c, s, SeqRec(c, s))
  ELSE LET d == IF Full(c, s) THEN Taken(c, s, 1) ELSE c
       IN WithSeq(d, s, [SeqRec(d, s) EXCEPT !.length = @ + 1])

\* The cache after each of the blocks of a table is released, in table order.
Returned(c, table) ==
  LET back[i \in 0..Len(table)] ==
        IF i = 0 THEN c ELSE Released(back[i - 1], table[i], "sequence")
  IN back

\* freeSequence: its blocks go back and its record is erased.
Freed(c, s) ==
  IF s \notin DOMAIN c.seqs THEN c
  ELSE LET table == c.seqs[s].table
           d     == Returned(c, table)[Len(table)]
       IN [d EXCEPT !.seqs = [x \in DOMAIN d.seqs \ {s} |-> d.seqs[x]]]

-----------------------------------------------------------------------------
\* Every block is in exactly one place: once in the free list, once in the table
\* of one sequence, or handed out raw, as its tag says; a release of a block that
\* is free or owned by a sequence cannot put it in two places.
Partitioned(c) ==
  /\ \A b \in Blocks :
       /\ c.state[b] = "free" <=> \E i \in DOMAIN c.free : c.free[i] = b
       /\ c.state[b] = "sequence" <=>
            \E s \in DOMAIN c.seqs : \E i \in DOMAIN c.seqs[s].table : c.seqs[s].table[i] = b
  /\ \A i, j \in DOMAIN c.free : c.free[i] = c.free[j] => i = j
  /\ \A s, t \in DOMAIN c.seqs :
       \A i \in DOMAIN c.seqs[s].table, j \in DOMAIN c.seqs[t].table :
         c.seqs[s].table[i] = c.seqs[t].table[j] => s = t /\ i = j
BlocksPartitioned == Partitioned(kv)
=============================================================================
