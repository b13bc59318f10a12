------------------------------- MODULE MCAdpcm ------------------------------
(* Model-checking instance of Adpcm: the extremes of the 16-bit range, so  *)
(* that the predictor saturates both ways, a large and a small step away  *)
(* from 0, and initial conditions at both ends of the index range.        *)
EXTENDS Adpcm

MCSamples   == {-32768, -3000, 0, 20, 32767}
MCICSamples == {-32768, -1, 0, 32767}
MCICIndexes == {0, 40, 88}

=============================================================================
