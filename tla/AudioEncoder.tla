---------------------------- MODULE AudioEncoder ----------------------------
(***************************************************************************)
(* The audio encoders as their caller sees them (src/stir/src/             *)
(* audioencoder.cpp): AudioEncoder::create picks an encoder by name, and   *)
(* its encode(in, out) fills the caller's output vector.  PCMEncoder::     *)
(* encode is a copy; ADPCMEncoder::encode is AdpcmOptimize, instantiated   *)
(* on the same variables.                                                  *)
(*                                                                         *)
(* A name is a sequence of chars, each a signed char value (-128..127):    *)
(* create lower-cases it with ::tolower before comparing.  The input is    *)
(* AdpcmOptimize's samples plus an optional odd byte; the PCM encoder      *)
(* copies its little-endian bytes.  The caller's out may already hold      *)
(* bytes when encode is called.                                            *)
(***************************************************************************)
EXTENDS Integers, Sequences, SequencesExt

CONSTANTS
    Samples, MaxSamples, PrefixSamples, StateSampleInt16,  \* as in AdpcmOptimize
    Names,          \* the names create may be given
    OddByteValues,  \* the values a trailing odd byte may have
    PriorOuts       \* what the caller's out may hold before encode

VARIABLES
    in, oddByte, st, error, bestIndex, pc, out, climbed,  \* AdpcmOptimize's
    oddValue,   \* the trailing odd byte, if oddByte
    name,       \* the name create was given, << >> until then
    encoder     \* "unset", then what create returned: "pcm", "adpcm", "null"

vars == <<in, oddByte, st, error, bestIndex, pc, out, climbed, oddValue, name, encoder>>

ADPCM == INSTANCE AdpcmOptimize

-----------------------------------------------------------------------------
(* AudioEncoder::create.                                                   *)

\* ::tolower(c) in the C locale.  A char of 128..255 is a negative int
\* here, which is undefined for ::tolower: glibc looks it up in a table
\* that also covers -128..-1 and, in a Latin-1 locale, maps the capitals
\* 0xC0..0xDE to 0xE0..0xFE.  Either result can occur.
tolower(c) ==
    IF c \in 65..90 THEN {c + 32}
    ELSE IF c \in -64..-34 THEN {c, c + 32}
    ELSE {c}

\* Every name transform(name.begin(), name.end(), name.begin(), ::tolower)
\* can leave.
RECURSIVE Lowered(_)
Lowered(n) ==
    IF n = << >> THEN {<< >>}
    ELSE {<< c >> \o r : c \in tolower(Head(n)), r \in Lowered(Tail(n))}

PCM_NAME   == <<112, 99, 109>>             \* "pcm"
ADPCM_NAME == <<97, 100, 112, 99, 109>>    \* "adpcm"

\* Plausible fault, a mutant of create: the empty name is not taken as
\* ADPCM.
createNoDefault(l) ==
    IF l = PCM_NAME THEN "pcm"
    ELSE IF l = ADPCM_NAME THEN "adpcm"
    ELSE "null"

\* The encoder create returns for the lower-cased name l; 0 is "null".
create(l) ==
    IF l = PCM_NAME THEN "pcm"
    ELSE IF l = ADPCM_NAME \/ l = <<>> THEN "adpcm"
    ELSE "null"

-----------------------------------------------------------------------------

\* The bytes the caller passes: each sample little-endian, then the odd
\* byte.
InputBytes ==
    FlattenSeq([k \in 1..Len(in) |-> << in[k] % 256, (in[k] \div 256) % 256 >>])
        \o (IF oddByte THEN << oddValue >> ELSE << >>)

\* AdpcmOptimize's initial state, except that out is the caller's vector.
Init ==
    /\ in \in UNION {[1..n -> Samples] : n \in 0..MaxSamples}
    /\ oddByte \in BOOLEAN
    /\ st = [sample |-> 0, index |-> 0]
    /\ error = ADPCM!U64_MAX
    /\ bestIndex = 0
    /\ pc = "start"
    /\ out \in PriorOuts
    /\ climbed = {}
    /\ oddValue \in OddByteValues
    /\ name = << >>
    /\ encoder = "unset"

\* AudioEncoder::create(name), for any name of Names.
Create ==
    /\ encoder = "unset"
    /\ \E n \in Names : \E l \in Lowered(n) :
            /\ name' = n
            /\ encoder' = create(l)
    /\ UNCHANGED <<in, oddByte, st, error, bestIndex, pc, out, climbed, oddValue>>

\* PCMEncoder::encode: out.insert(out.end(), in.begin(), in.end()).
PcmEncode ==
    /\ encoder = "pcm" /\ pc = "start"
    /\ out' = out \o InputBytes
    /\ pc' = "done"
    /\ UNCHANGED <<in, oddByte, st, error, bestIndex, climbed, oddValue, name, encoder>>

\* ADPCMEncoder::encode: optimizeIC, then encodeWithIC.
AdpcmEncode ==
    /\ encoder = "adpcm"
    /\ ADPCM!Next
    /\ UNCHANGED <<oddValue, name, encoder>>

\* An unknown name: create returned 0 and the caller reports not-found;
\* no encode follows.
Next == Create \/ PcmEncode \/ AdpcmEncode

Spec == Init /\ [][Next]_vars /\ WF_vars(Next)

-----------------------------------------------------------------------------
(* Properties.                                                             *)

\* The spec's dispatch: "pcm" selects PCM, "adpcm" or the empty name ADPCM,
\* any other name nothing, with ASCII case-insensitive matching.
AsciiLower(c) == IF c \in 65..90 THEN c + 32 ELSE c
SpecEncoderFor(n) ==
    LET l == [i \in 1..Len(n) |-> AsciiLower(n[i])]
    IN  IF l = PCM_NAME THEN "pcm"
        ELSE IF l = ADPCM_NAME \/ l = <<>> THEN "adpcm"
        ELSE "null"

\* The encoder create returned is the spec's for the name it was given,
\* whichever result the undefined ::tolower of a non-ASCII char gave: no
\* such char can turn a name into "pcm" or "adpcm", and case never
\* matters for ASCII.
DispatchFollowsSpec == encoder # "unset" => encoder = SpecEncoderFor(name)

\* What ADPCM encode leaves in out is the 3-byte header and one byte per
\* pair of complete samples, the odd one out padded to a pair, whatever
\* out held before; and for an input under 4 bytes, the header is
\* (0, 0, 0) (spec section 8).
AdpcmOutputLayout ==
    encoder = "adpcm" /\ pc = "done" =>
        /\ Len(out) = 3 + (Len(in) + 1) \div 2
        /\ ADPCM!InBytes < 4 => SubSeq(out, 1, 3) = << 0, 0, 0 >>

\* PCM encode emits the input bytes unchanged (spec section 4.4), and an
\* encoder is a function from the input buffer to the output buffer.
PcmOutputIsInput == encoder = "pcm" /\ pc = "done" => out = InputBytes

=============================================================================
