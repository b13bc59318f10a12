------------------------------- MODULE Adpcm --------------------------------
(***************************************************************************)
(* The ADPCM-A audio encoder (src/stir/src/audioencoder.cpp):              *)
(* ADPCMEncoder::encodeSample, encodePair and encodeWithIC.                *)
(*                                                                         *)
(* A behaviour is one call of encodeWithIC for NumSamples samples, each   *)
(* any value of Samples, from the initial conditions (sample, index) it   *)
(* is given: the header is written first, then one Pair step per two      *)
(* samples, and an OddTail step that encodes a last odd sample twice.     *)
(* The error metric encodeWithIC returns is left to AdpcmOptimize, which  *)
(* is the only caller that reads it.                                      *)
(***************************************************************************)
EXTENDS AdpcmCodec

CONSTANTS
    Samples,     \* the 16-bit sample values the input may hold
    NumSamples,  \* inBytes / sizeof(int16_t)
    ICSamples,   \* initial predictor values encodeWithIC may be given
    ICIndexes    \* initial step indexes encodeWithIC may be given

ASSUME Samples \cup ICSamples \subseteq -32768..32767
ASSUME ICIndexes \subseteq 0..INDEX_MAX
ASSUME NumSamples \in Nat

VARIABLES
    state,   \* the codec State: [sample, index]
    out,     \* the output bytes
    pos      \* samples consumed

vars == <<state, out, pos>>

Init ==
    /\ state \in [sample : ICSamples, index : ICIndexes]
    /\ out = Header(state)
    /\ pos = 0

Pair(s1, s2) ==
    /\ pos + 2 <= NumSamples
    /\ state' = encodePair(state, s1, s2).state
    /\ out' = Append(out, encodePair(state, s1, s2).byte)
    /\ pos' = pos + 2

\* numSamples is odd: the last sample is encoded twice.
OddTail(s1) ==
    /\ pos + 1 = NumSamples
    /\ state' = encodePair(state, s1, s1).state
    /\ out' = Append(out, encodePair(state, s1, s1).byte)
    /\ pos' = pos + 1

Next == \E s1, s2 \in Samples : Pair(s1, s2) \/ OddTail(s1)

Spec == Init /\ [][Next]_vars /\ WF_vars(Next)

-----------------------------------------------------------------------------
(* Properties.                                                             *)

TypeOK ==
    /\ state.sample \in -32768..32767
    /\ state.index \in 0..INDEX_MAX
    /\ out \in Seq(0..255)
    /\ pos \in 0..NumSamples

\* A decoder that reads the header and the nybbles written so far ends in
\* the encoder's state: the encoder's predictor never drifts from what the
\* device reconstructs.  This rests on the header's byte split of a
\* signed sample, the low-nybble-first packing, the int8/unsigned/shift
\* arithmetic of the candidate deltas agreeing with floor(m * step / 8),
\* and the index adjustments taken from the code table by >> 8.
DecoderTracksEncoder == DecodeStream(out) = state

=============================================================================
