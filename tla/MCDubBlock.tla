----------------------------- MODULE MCDubBlock -----------------------------
(* Model-checking instance of DubBlock: a few tile values chosen so that  *)
(* DELTA, REF and REPEAT codes of one and of several 3-bit groups occur,  *)
(* negative deltas included, and the extremes 0 and 65535.                *)
EXTENDS DubBlock

MCTiles == {0, 1, 9, 65535}

=============================================================================
