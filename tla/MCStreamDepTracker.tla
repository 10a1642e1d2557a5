------------------------- MODULE MCStreamDepTracker -------------------------
(***************************************************************************)
(* Instances of StreamDepTracker: trees of 2 and of 4 slots.  The word     *)
(* behind tree_ is the first of slotMu_, 0 when free and small when held.  *)
(***************************************************************************)
EXTENDS StreamDepTracker, TLC

CONSTANTS p1, p2, a, b, c, e1

MCBelow ==
  LET below[i \in Nodes] ==
        IF i >= S THEN {i}
        ELSE below[2 * i + 1] \cup (IF 2 * i + 2 < 2 * S THEN below[2 * i + 2] ELSE {})
  IN below

MCSymmetry == Permutations({p1, p2}) \cup Permutations({a, b, c})
=============================================================================
