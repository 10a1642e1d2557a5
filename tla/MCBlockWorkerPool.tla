------------------------- MODULE MCBlockWorkerPool -------------------------
(***************************************************************************)
(* Two dispatchers.  The first is the JIT wrapper of a kernel of two       *)
(* threads with a barrier.  In MCOneGang the second has a block without    *)
(* one, launched by either way in, or one that is wider than the pool and  *)
(* guarded; in MCTwoGangs it is another wrapper with a barrier.            *)
(***************************************************************************)
EXTENDS BlockWorkerPool

CONSTANTS d1, d2, w1, w2

Kernel(width, syncs, jit) == [width |-> width, syncs |-> syncs, jit |-> jit]
With(k) == [d \in Dispatchers |-> IF d = d1 THEN Kernel(2, 1, TRUE) ELSE k]

MCOneGang  == {With(Kernel(2, 0, TRUE)), With(Kernel(2, 0, FALSE)), With(Kernel(3, 1, FALSE))}
MCTwoGangs == {With(Kernel(2, 1, TRUE))}
=============================================================================
