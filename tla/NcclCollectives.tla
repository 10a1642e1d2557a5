-------------------------- MODULE NcclCollectives --------------------------
(***************************************************************************)
(* The in-process NCCL shim: the ranks of one communicator meet in a       *)
(* shared NcclGroupState (src/api/nccl/nccl_collectives.cpp, nccl_p2p.cpp, *)
(* include/vgre/api/nccl_internal.h).  ncclAllReduce's tensor-parallel     *)
(* path and its delegation to the cluster are not part of it.              *)
(*                                                                         *)
(* A program is the sequence of collectives every rank calls, in the same  *)
(* order.  The whole of a call runs under mu except its cv waits, so what  *)
(* a rank does between two waits is one step; every change of a waited-for *)
(* predicate is followed by notify_all under mu, so a wait is a guard.     *)
(* A wait gives up after 30 s: TimeOut may cut any of them short, at most  *)
(* MaxTimeouts times.                                                      *)
(*                                                                         *)
(* A buffer is a function from chunk positions to bags of contributions    *)
(* <<rank, round, chunk>>; a reduction is the bag sum.  sendbufs holds     *)
(* pointers: what is read through one is what its rank's buffer holds      *)
(* then, the data of the round the rank is in.                             *)
(***************************************************************************)
EXTENDS Naturals, Bags, FiniteSetsExt

CONSTANTS
  N,            \* nranks
  Kinds,        \* the collectives programs are made of
  Roots,        \* the ranks used as root
  MaxCalls,     \* bound: collectives per program
  MaxTimeouts   \* bound: waits that give up

ASSUME NcclAssumption ==
  /\ N \in Nat \ {0, 1}
  /\ Roots \subseteq 0..(N - 1)
  /\ MaxCalls \in Nat
  /\ MaxTimeouts \in Nat

Ranks == 0..(N - 1)

\* Above 64 KB, ncclAllReduce and ncclReduceScatter take the ring.
Ring     == {"RingAllReduce", "RingReduceScatter"}
\* SendRecv: the root calls ncclSend, the next rank ncclRecv.
OnePhase == {"Gather", "Scatter", "SendRecv"}

VARIABLES
  program,     \* the collective and the root of each round
  arrived0,    \* arrived_phase0
  arrived1,    \* arrived_phase1
  generation,  \* generation
  resultBuf,   \* result_buf
  slots,       \* gather_slots and p2p_slots: by owner and position
  accum,       \* ring_accum
  ringArrived, \* ring_arrived
  ringGen,     \* ring_gen
  rankPc,      \* "out", or waiting in "wait0", "ring" or "wait1"
  round,       \* the round each rank is in or has returned from
  gen,         \* the local gen (flat) or target (ring)
  step,        \* the ring barrier a rank waits at
  recv,        \* recvbuff of each rank's call
  status,      \* what each rank's last call returned
  timeouts     \* history: waits that gave up

ncclVars == <<program, arrived0, arrived1, generation, resultBuf, slots, accum,
              ringArrived, ringGen, rankPc, round, gen, step, recv, status,
              timeouts>>

Empty == <<>>
Unset == [c \in Ranks |-> EmptyBag]

NcclInit ==
  /\ program \in [1..MaxCalls -> Kinds \X Roots]
  /\ arrived0 = 0 /\ arrived1 = 0 /\ generation = 0
  /\ resultBuf = Empty
  /\ slots = [r \in Ranks |-> Unset]
  /\ accum = [r \in Ranks |-> Unset]
  /\ ringArrived = 0 /\ ringGen = 0
  /\ rankPc = [r \in Ranks |-> "out"]
  /\ round = [r \in Ranks |-> 0]
  /\ gen = [r \in Ranks |-> 0]
  /\ step = [r \in Ranks |-> 0]
  /\ recv = [r \in Ranks |-> Unset]
  /\ status = [r \in Ranks |-> "success"]
  /\ timeouts = 0

-----------------------------------------------------------------------------
\* What rank r's send buffer holds in round k.
Data(r, k) == [c \in Ranks |-> SetToBag({<<r, k, c>>})]

\* apply_reduce over the buffers of all ranks.
Reduced(bufs) ==
  [c \in Ranks |-> FoldSet(LAMBDA r, b : b (+) bufs[r][c], EmptyBag, Ranks)]

\* The deposits of ncclSend and ncclAllToAll, and with them ncclAllGather's.
SentToPeer(r, k)  == [slots EXCEPT ![(r + 1) % N] = Data(r, k)]
SentToAll(r, k)   == [p \in Ranks |-> [slots[p] EXCEPT ![r] = Data(r, k)[p]]]
Deposited(r, k, op) ==
  CASE op[1] = "AllGather" -> [slots EXCEPT ![r] = Data(r, k)]
    [] op[1] = "AllToAll"  -> SentToAll(r, k)
    [] op[1] = "SendRecv" /\ r = op[2] -> SentToPeer(r, k)
    [] OTHER -> slots

\* result_buf once the last rank is in; bufs is what sendbufs points to.
Assembled(op, bufs, sl) ==
  CASE op[1] \in {"AllReduce", "Reduce", "ReduceScatter"} -> Reduced(bufs)
    [] op[1] = "AllGather" -> [c \in Ranks |-> sl[c][c]]
    [] op[1] = "Broadcast" -> bufs[op[2]]
    [] OTHER -> resultBuf

\* What a rank copies into recvbuff: ncclRecv and ncclAllToAll from its slot, the root
\* of ncclReduce, the ranks of ncclReduceScatter and the others from result_buf.
PeerCopy(r, op, sl)   == IF r = op[2] THEN Unset ELSE sl[r]
ToAllCopy(r, sl)      == sl[r]
RootCopy(r, op, res)  == IF r = op[2] THEN res ELSE Unset
SliceCopy(r, res)     == [Unset EXCEPT ![r] = res[r]]
CopiedOut(r, op, res, sl) ==
  CASE op[1] = "AllToAll" -> ToAllCopy(r, sl)
    [] op[1] = "SendRecv" -> PeerCopy(r, op, sl)
    [] op[1] \in {"Gather", "Scatter"} \/ res = Empty -> Unset
    [] op[1] = "Reduce" -> RootCopy(r, op, res)
    [] op[1] = "ReduceScatter" -> SliceCopy(r, res)
    [] OTHER -> res

\* What only the last rank to arrive copies: ncclGather and ncclScatter.
LastCopies(r, op, bufs) ==
  CASE op[1] = "Gather"  -> [c \in Ranks |-> bufs[c][c]]
    [] op[1] = "Scatter" -> [Unset EXCEPT ![r] = bufs[op[2]][r]]
    [] OTHER -> Unset

ReturnCall(r, s) ==
  /\ rankPc' = [rankPc EXCEPT ![r] = "out"]
  /\ status' = [status EXCEPT ![r] = s]

\* Phase 1 of a flat collective: copy, count, and clear or wait.
CopyOut(r, op, res, sl) ==
  /\ recv' = [recv EXCEPT ![r] = CopiedOut(r, op, res, sl)]
  /\ IF op[1] \in OnePhase
     THEN ReturnCall(r, "success") /\ resultBuf' = res /\ slots' = sl /\ UNCHANGED arrived1
     ELSE IF arrived1 + 1 = N
     THEN /\ arrived1' = 0
          /\ resultBuf' = IF op[1] = "AllToAll" THEN res ELSE Empty
          /\ slots' = IF op[1] \in {"AllGather", "AllToAll"}
                      THEN [p \in Ranks |-> Unset] ELSE sl
          /\ ReturnCall(r, "success")
     ELSE /\ arrived1' = arrived1 + 1
          /\ rankPc' = [rankPc EXCEPT ![r] = "wait1"]
          /\ resultBuf' = res /\ slots' = sl
          /\ UNCHANGED status

-----------------------------------------------------------------------------
(* The ring: N - 1 accumulation steps, each with a barrier, one more        *)
(* barrier, then the copies; ncclAllReduce adds a barrier after them.       *)
Before(r)     == (r + N - 1) % N
\* Mutant: the chunk is one off.
ChunkUnshifted(r, s) == (r + 2 * N - s) % N
\* The chunk rank r adds in step s.
Chunk(r, s)   == (r + 2 * N - s - 1) % N
Barriers(op)  == IF op[1] = "RingAllReduce" THEN N + 1 ELSE N

Worked(r, s, acc) ==
  IF s < N - 1
  THEN [acc EXCEPT ![r][Chunk(r, s)] = @ (+) acc[Before(r)][Chunk(r, s)]]
  ELSE acc

\* The copies, step N: every chunk from the rank that owns it, or the rank's own.
Copied(r, op, s, acc, buf) ==
  IF s # N THEN buf
  ELSE IF op[1] = "RingAllReduce" THEN [c \in Ranks |-> acc[Before(c)][c]]
                                  ELSE [Unset EXCEPT ![r] = acc[Before(r)][r]]

\* Rank r, holding mu, does step s and waits at its barrier.
RingWait(r, op, s, acc, buf, arrived, g) ==
  /\ accum' = Worked(r, s, acc)
  /\ recv' = [recv EXCEPT ![r] = Copied(r, op, s, acc, buf)]
  /\ ringArrived' = arrived + 1
  /\ ringGen' = g
  /\ gen' = [gen EXCEPT ![r] = g + 1]
  /\ step' = [step EXCEPT ![r] = s]
  /\ rankPc' = [rankPc EXCEPT ![r] = "ring"]
  /\ UNCHANGED <<arrived1, status>>

\* Past the last barrier: the teardown, where the last rank clears ring_accum.
RingLeave(r, op, s, acc, buf, arrived, g) ==
  /\ recv' = [recv EXCEPT ![r] = Copied(r, op, s, acc, buf)]
  /\ ringArrived' = arrived
  /\ ringGen' = g
  /\ IF arrived1 + 1 = N
     THEN arrived1' = 0 /\ accum' = [q \in Ranks |-> Unset] /\ ReturnCall(r, "success")
     ELSE /\ arrived1' = arrived1 + 1
          /\ accum' = acc
          /\ rankPc' = [rankPc EXCEPT ![r] = "wait1"]
          /\ UNCHANGED status
  /\ UNCHANGED <<gen, step>>

RingAt(r, op, s, acc, buf, arrived, g) ==
  IF s = Barriers(op) THEN RingLeave(r, op, s, acc, buf, arrived, g)
                      ELSE RingWait(r, op, s, acc, buf, arrived, g)

\* From step s on: the last rank at a barrier opens it and goes on.
RingRun(r, op, s, acc, buf) ==
  IF s < Barriers(op) /\ ringArrived + 1 = N
  THEN RingAt(r, op, s + 1, Worked(r, s, acc), Copied(r, op, s, acc, buf), 0, ringGen + 1)
  ELSE RingAt(r, op, s, acc, buf, ringArrived, ringGen)

-----------------------------------------------------------------------------
\* A rank counts itself in and waits for the others.
WaitForAll(r, count, sl) ==
  /\ arrived0' = count
  /\ slots' = sl
  /\ gen' = [gen EXCEPT ![r] = generation]
  /\ rankPc' = [rankPc EXCEPT ![r] = "wait0"]
  /\ recv' = [recv EXCEPT ![r] = Unset]
  /\ UNCHANGED <<arrived1, generation, resultBuf, accum, ringArrived, ringGen, step,
                 status>>

\* The last rank in, or the root of a broadcast, completes a flat collective.
CompleteFlat(r, op, bufs, sl) ==
  /\ generation' = generation + 1
  /\ IF op[1] \in {"Gather", "Scatter"}
     THEN /\ recv' = [recv EXCEPT ![r] = LastCopies(r, op, bufs)]
          /\ ReturnCall(r, "success")
          /\ UNCHANGED <<arrived1, resultBuf, slots>>
     ELSE CopyOut(r, op, Assembled(op, bufs, sl), sl)
  /\ UNCHANGED <<accum, ringArrived, ringGen, gen, step>>

\* The root of a broadcast waits for nobody.
EnterRoot(r, op, bufs, sl) ==
  /\ arrived0' = IF arrived1 + 1 = N THEN 0 ELSE N
  /\ CompleteFlat(r, op, bufs, sl)

\* The last rank in sets up ring_accum and starts stepping.
EnterRing(r, op, bufs) ==
  /\ arrived0' = 0 /\ generation' = generation + 1
  /\ RingRun(r, op, 0, bufs, Unset)
  /\ UNCHANGED <<resultBuf, slots>>

\* A call up to its first wait.  A rank that got an error makes no more calls.
Enter(r) ==
  LET k    == round[r] + 1
      op   == program[k]
      at   == [round EXCEPT ![r] = k]
      bufs == [q \in Ranks |-> Data(q, at[q])]
      sl   == Deposited(r, k, op)
  IN /\ rankPc[r] = "out" /\ status[r] = "success" /\ k <= MaxCalls
     /\ round' = at
     /\ UNCHANGED <<program, timeouts>>
     /\ CASE op[1] = "Broadcast" /\ r = op[2] -> EnterRoot(r, op, bufs, sl)
          [] op[1] # "Broadcast" /\ arrived0 + 1 = N /\ op[1] \notin Ring ->
                arrived0' = 0 /\ CompleteFlat(r, op, bufs, sl)
          [] op[1] \in Ring /\ arrived0 + 1 = N -> EnterRing(r, op, bufs)
          [] OTHER -> WaitForAll(r, arrived0 + 1, sl)

\* Mutant: waits for a count that the last rank resets.
AllInByCount(r, op) == arrived0 = N

\* The predicate of the first wait.
AllIn(r, op) ==
  \/ op[1] \in Ring /\ arrived0 = 0
  \/ op[1] \notin Ring /\ generation # gen[r]
  \/ op[1] = "AllReduce" /\ resultBuf # Empty

\* The first wait ends: a flat rank copies, a ring rank starts stepping.
Leave0(r) ==
  LET op == program[round[r]]
  IN /\ rankPc[r] = "wait0"
     /\ AllIn(r, op)
     /\ IF op[1] \in Ring
        THEN RingRun(r, op, 0, accum, Unset) /\ UNCHANGED <<arrived0, resultBuf, slots>>
        ELSE /\ CopyOut(r, op, resultBuf, slots)
             /\ arrived0' = IF op[1] = "Broadcast" /\ arrived1 + 1 = N THEN 0 ELSE arrived0
             /\ UNCHANGED <<accum, ringArrived, ringGen, gen, step>>
     /\ UNCHANGED <<program, generation, round, timeouts>>

\* A ring barrier opens.
RingBarrier(r) ==
  LET op == program[round[r]]
  IN /\ rankPc[r] = "ring" /\ ringGen = gen[r]
     /\ RingRun(r, op, step[r] + 1, accum, recv[r])
     /\ UNCHANGED <<program, arrived0, generation, resultBuf, slots, round, timeouts>>

\* The second wait ends once the last rank has reset arrived_phase1.
Leave1(r) ==
  /\ rankPc[r] = "wait1" /\ arrived1 = 0
  /\ ReturnCall(r, "success")
  /\ UNCHANGED <<program, arrived0, arrived1, generation, resultBuf, slots, accum,
                 ringArrived, ringGen, round, gen, step, recv, timeouts>>

\* A wait lasts 30 s: the first and the ring's report it, the second does not.
TimeOut(r) ==
  /\ timeouts < MaxTimeouts
  /\ \/ rankPc[r] = "wait0" /\ ~AllIn(r, program[round[r]]) /\ ReturnCall(r, "systemError")
     \/ rankPc[r] = "ring" /\ ringGen # gen[r] /\ ReturnCall(r, "systemError")
     \/ rankPc[r] = "wait1" /\ arrived1 # 0 /\ ReturnCall(r, "success")
  /\ timeouts' = timeouts + 1
  /\ UNCHANGED <<program, arrived0, arrived1, generation, resultBuf, slots, accum,
                 ringArrived, ringGen, round, gen, step, recv>>

RankStep(r) == Enter(r) \/ Leave0(r) \/ RingBarrier(r) \/ Leave1(r)
NcclNext == \E r \in Ranks : RankStep(r) \/ TimeOut(r)

NcclFairness == \A r \in Ranks : WF_ncclVars(RankStep(r))
NcclSpec == NcclInit /\ [][NcclNext]_ncclVars /\ NcclFairness

-----------------------------------------------------------------------------
\* The recvbuff rank r must get from round k.
Wanted(r, k) ==
  LET op   == program[k]
      bufs == [q \in Ranks |-> Data(q, k)]
  IN CASE op[1] \in {"AllReduce", "RingAllReduce"} -> Reduced(bufs)
       [] op[1] = "Reduce" -> IF r = op[2] THEN Reduced(bufs) ELSE Unset
       [] op[1] \in {"ReduceScatter", "RingReduceScatter"} ->
            [Unset EXCEPT ![r] = Reduced(bufs)[r]]
       [] op[1] = "AllGather" -> [c \in Ranks |-> bufs[c][c]]
       [] op[1] = "AllToAll" -> [c \in Ranks |-> bufs[c][r]]
       [] op[1] = "Broadcast" -> bufs[op[2]]
       [] op[1] = "Gather" -> IF r = op[2] THEN [c \in Ranks |-> bufs[c][c]] ELSE Unset
       [] op[1] = "Scatter" -> [Unset EXCEPT ![r] = bufs[op[2]][r]]
       [] op[1] = "SendRecv" -> IF r = op[2] THEN Unset ELSE bufs[op[2]]

\* A call that returned success delivered exactly the data of this round: every
\* rank's contribution once, in its place, nothing left over from an earlier
\* collective (as long as no wait has timed out).
CollectiveRight ==
  \A r \in Ranks :
    (timeouts = 0 /\ rankPc[r] = "out" /\ round[r] > 0) =>
      status[r] = "success" /\ recv[r] = Wanted(r, round[r])

\* Once a rank has entered a call, and unless a wait times out, every rank gets
\* through its whole program: no rank is left behind by a counter reset, a
\* generation or a ring barrier it did not see.
CollectivesFinish ==
  <>[](timeouts = 0 =>
         \A q, r \in Ranks : rankPc[r] = "out" /\ (round[q] > 0 => round[r] = MaxCalls))
=============================================================================
