------------------------------ MODULE AdpcmCodec -----------------------------
(***************************************************************************)
(* The ADPCM-A codec of src/stir/src/audioencoder.cpp as pure operators:   *)
(* the tables, ADPCMEncoder::encodeSample, encodePair, the header          *)
(* encodeWithIC writes, and a reference decoder written from the format    *)
(* of the specification.  Adpcm and AdpcmOptimize build on it.             *)
(***************************************************************************)
EXTENDS Integers, Sequences, SequencesExt

INDEX_MAX == 88

stepSizeTable == <<
    7, 8, 9, 10, 11, 12, 13, 14, 16, 17, 19, 21, 23, 25, 28, 31,
    34, 37, 41, 45, 50, 55, 60, 66, 73, 80, 88, 97, 107, 118, 130,
    143, 157, 173, 190, 209, 230, 253, 279, 307, 337, 371, 408, 449,
    494, 544, 598, 658, 724, 796, 876, 963, 1060, 1166, 1282, 1411,
    1552, 1707, 1878, 2066, 2272, 2499, 2749, 3024, 3327, 3660, 4026,
    4428, 4871, 5358, 5894, 6484, 7132, 7845, 8630, 9493, 10442, 11487,
    12635, 13899, 15289, 16818, 18500, 20350, 22385, 24623, 27086, 29794, 32767 >>

\* codeTable, as the ints the code stores (0xFFFFFF01 is -255, ...).
codeTable == << -255, -253, -251, -249, 521, 1035, 1549, 2063,
                 -1, -3, -5, -7, 759, 1269, 1779, 2289 >>

StepSize(index) == stepSizeTable[index + 1]
CodeWord(code)  == codeTable[code + 1]

\* int8_t(codeTable[code]): the low byte, as a signed byte.
Int8(x) == IF (x % 256) >= 128 THEN (x % 256) - 256 ELSE x % 256

Clamp(lo, x, hi) == IF x < lo THEN lo ELSE IF x > hi THEN hi ELSE x

\* int(unsigned(int8_t(codeTable[code])) * unsigned(step)) >> 3.  The
\* unsigned product taken back to int is the signed product m * step
\* (|m * step| < 2^31), and >> 3 on a negative int shifts in sign bits,
\* which is floor division by 8 (TLA+ \div rounds down).
CandidateDiffTrunc(code, step) ==
    LET p == Int8(CodeWord(code)) * step
    IN  IF p < 0 THEN -((-p) \div 8) ELSE p \div 8

CandidateDiff(code, step) == (Int8(CodeWord(code)) * step) \div 8

-----------------------------------------------------------------------------
(* ADPCMEncoder::encodeSample: the result record holds the nybble and the  *)
(* updated State.                                                          *)

BEST_DIFF_INIT == 16^5   \* 0x100000

\* The search loop: the later code wins a tie in error.
BestCode(diff, step) ==
    LET Err(d) == IF d - diff > diff - d THEN d - diff ELSE diff - d
        Better(best, code) ==
            IF Err(CandidateDiff(code, step)) <= Err(best.diff)
            THEN [code |-> code, diff |-> CandidateDiff(code, step)]
            ELSE best
    IN  FoldLeft(Better, [code |-> 0, diff |-> BEST_DIFF_INIT], [k \in 1..16 |-> k - 1])

\* Plausible fault, a mutant of encodeSample: the new sample is not
\* saturated to the int16 range.
encodeSampleNoSaturate(st, sample) ==
    LET step == StepSize(st.index)
        best == BestCode(sample - st.sample, step)
    IN  [nybble |-> best.code,
         state  |-> [sample |-> st.sample + best.diff,
                     index  |-> Clamp(0, st.index + (CodeWord(best.code) \div 256), INDEX_MAX)]]

encodeSample(st, sample) ==
    LET step == StepSize(st.index)
        best == BestCode(sample - st.sample, step)
    IN  [nybble |-> best.code,
         state  |-> [sample |-> Clamp(-32768, st.sample + best.diff, 32767),
                     index  |-> Clamp(0, st.index + (CodeWord(best.code) \div 256), INDEX_MAX)]]

-----------------------------------------------------------------------------
(* The uint64_t error metric.  TLC's integers have 32 bits, so a uint64 is *)
(* kept as hi * 2^16 + lo with 0 <= lo < 2^16; the sums that occur (at     *)
(* most 100 squares of at most 65535^2) keep hi far below 2^31.            *)

U64Norm(hi, lo) == [hi |-> hi + lo \div 2^16, lo |-> lo % 2^16]

U64Add(a, b) == U64Norm(a.hi + b.hi, a.lo + b.lo)

U64Less(a, b) == a.hi < b.hi \/ (a.hi = b.hi /\ a.lo < b.lo)

U64Zero == U64Norm(0, 0)

\* uint64_t(-1), the scan's starting error: represented by a value above
\* every sum of at most 100 squared 16-bit errors, which is all that
\* the comparisons with it need.
U64_MAX == U64Norm(2^30, 0)

\* e * e in int64 arithmetic, for |e| <= 65535: with |e| = 256a + b,
\* e^2 = a^2 * 2^16 + 2ab * 2^8 + b^2.
U64Square(e) ==
    LET m == IF e < 0 THEN -e ELSE e
        a == m \div 256
        b == m % 256
    IN  U64Norm(a * a, 2 * a * b * 256 + b * b)

\* ADPCMEncoder::encodePair: two samples, one byte, first in the low
\* nybble; the error is the sum of the squared predictor errors e1, e2.
encodePair(st, s1, s2) ==
    LET r1 == encodeSample(st, s1)
        r2 == encodeSample(r1.state, s2)
    IN  [byte  |-> r1.nybble + 16 * r2.nybble,
         state |-> r2.state,
         error |-> U64Add(U64Square(r1.state.sample - s1), U64Square(r2.state.sample - s2))]

-----------------------------------------------------------------------------
(* ADPCMEncoder::encodeWithIC.                                             *)

\* The header: out.push_back of sample, sample >> 8 and index, each
\* truncated to a uint8_t.
Header(st) == << st.sample % 256, (st.sample \div 256) % 256, st.index % 256 >>

\* encodeWithIC(state, in, out, inBytes) as a whole, on the input's int16
\* samples: numSamples = inBytes / 2, one encodePair per pair, and the
\* last sample paired with itself when numSamples is odd.  The result
\* holds the output bytes and the returned error.
encodeWithIC(st, in, inBytes) ==
    LET numSamples == inBytes \div 2
        PairStep(acc, k) ==
            LET s1 == in[2 * k - 1]
                s2 == IF 2 * k <= numSamples THEN in[2 * k] ELSE s1
                r  == encodePair(acc.state, s1, s2)
            IN  [state |-> r.state, out |-> Append(acc.out, r.byte),
                 error |-> U64Add(acc.error, r.error)]
    IN  FoldLeft(PairStep, [state |-> st, out |-> Header(st), error |-> U64Zero],
                 [k \in 1..((numSamples + 1) \div 2) |-> k])

-----------------------------------------------------------------------------
(* A reference decoder, from the format of the specification: the        *)
(* multiplier and index adjustment of each code as the spec lists them,   *)
(* the new predictor floor(m * step / 8) away from the old one.           *)

SpecMultiplier == << 1, 3, 5, 7, 9, 11, 13, 15, -1, -3, -5, -7, -9, -11, -13, -15 >>
SpecAdjust     == << -1, -1, -1, -1, 2, 4, 6, 8, -1, -1, -1, -1, 2, 4, 6, 8 >>

DecodeNybble(st, c) ==
    [sample |-> Clamp(-32768, st.sample + (SpecMultiplier[c + 1] * StepSize(st.index)) \div 8, 32767),
     index  |-> Clamp(0, st.index + SpecAdjust[c + 1], INDEX_MAX)]

\* The header's predictor: a little-endian int16.
HeaderSample(b) == LET u == b[1] + 256 * b[2] IN IF u >= 2^15 THEN u - 2^16 ELSE u

DecodeStream(b) ==
    FoldLeft(LAMBDA st, byte : DecodeNybble(DecodeNybble(st, byte % 16), byte \div 16),
             [sample |-> HeaderSample(b), index |-> b[3]],
             SubSeq(b, 4, Len(b)))

=============================================================================
