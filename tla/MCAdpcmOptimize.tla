--------------------------- MODULE MCAdpcmOptimize ---------------------------
(* Model-checking instance of AdpcmOptimize.  Inputs have up to three      *)
(* samples and the optimizer's prefix two, so the prefix is shorter than   *)
(* the longest input.                                                      *)
EXTENDS AdpcmOptimize

\* Small samples of both signs: the scan, the hill climb (which moves the
\* sample by 1 per step) and the final encode on every input of them.
MCSamples == {-20, 0, 33}

\* Samples at both ends of the int16 range: steps near index 88 and the
\* predictor's saturation matter, and the climb can leave the range.
MCEdgeSamples == {-32768, 32760, 32767}

=============================================================================
