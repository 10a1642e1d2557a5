------------------------- MODULE MCContinuousBatch -------------------------
(***************************************************************************)
(* ContinuousBatch with requests that need no block, one, two or all.      *)
(***************************************************************************)
EXTENDS ContinuousBatch

MCShapes == {<<0, 0>>, <<1, 1>>, <<2, 2>>}
=============================================================================
