----------------------------- MODULE MCDubAsset -----------------------------
(* Model-checking instance of DubAsset.  With BLOCK_SIZE 2, a 3 x 3 frame *)
(* has all four block shapes (2x2, 2x1, 1x2 and 1x1) in an even number of  *)
(* blocks, and a 5 x 1 frame has three blocks, an odd number, which the   *)
(* 8-bit index pads; zero frames give an asset with no blocks at all.     *)
EXTENDS DubAsset

MCDims == {<<3, 3>>, <<5, 1>>}

=============================================================================
