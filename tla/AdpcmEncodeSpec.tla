--------------------------- MODULE AdpcmEncodeSpec ---------------------------
(***************************************************************************)
(* What ADPCMEncoder::encode (src/stir/src/audioencoder.cpp) promises, in  *)
(* one step: the output is encodeWithIC of the whole input from initial    *)
(* conditions `ic` that optimizeIC's comments describe.  An input too     *)
(* short to compress starts from (0, 0); any other starts from a state at *)
(* which "there's no single change which improves quality" (one unit of   *)
(* sample either way, or of index within [0, INDEX_MAX]) and which is no  *)
(* worse than the best index the scan tries at the first sample.  How the *)
(* state is found (scan, then hill climb) is left open.                   *)
(***************************************************************************)
EXTENDS AdpcmCodec

CONSTANTS Samples, MaxSamples, PrefixSamples, StateSampleInt16

VARIABLES
    in,       \* the input samples
    oddByte,  \* in.size() is odd
    ic,       \* the initial conditions encode chose, NoIC before it returns
    out       \* encode's output

absVars == <<in, oddByte, ic, out>>

\* No initial conditions yet: index -1 is outside every State's range.
NoIC == [sample |-> 0, index |-> -1]

InBytes == 2 * Len(in) + (IF oddByte THEN 1 ELSE 0)

PrefixBytes == IF 2 * PrefixSamples < InBytes THEN 2 * PrefixSamples ELSE InBytes

StoreSample(v) ==
    IF StateSampleInt16 THEN ((v + 32768) % 65536) - 32768 ELSE v

PrefixError(s) == encodeWithIC(s, in, PrefixBytes).error

\* The single changes of the hill climb: a unit of sample either way, a
\* unit of index either way while it stays in [0, INDEX_MAX].
Moves(s) ==
    { [sample |-> StoreSample(s.sample + d), index |-> s.index] : d \in {-1, 1} }
    \cup { [sample |-> s.sample, index |-> s.index + d] :
             d \in {d2 \in {-1, 1} : s.index + d2 \in 0..INDEX_MAX} }

LocallyOptimal(s) == \A m \in Moves(s) : ~U64Less(PrefixError(m), PrefixError(s))

\* No worse than every index the scan tries, [0, INDEX_MAX), at the first
\* input sample.
NoWorseThanScan(s) ==
    \A i \in 0..(INDEX_MAX - 1) :
        ~U64Less(PrefixError([sample |-> StoreSample(in[1]), index |-> i]),
                 PrefixError(s))

ChosenIC(s) ==
    IF InBytes < 4
    THEN s = [sample |-> 0, index |-> 0]
    ELSE s.index \in 0..INDEX_MAX /\ LocallyOptimal(s) /\ NoWorseThanScan(s)

Init ==
    /\ in \in UNION {[1..n -> Samples] : n \in 0..MaxSamples}
    /\ oddByte \in BOOLEAN
    /\ ic = NoIC
    /\ out = <<>>

\* encode(in, out): optimizeIC, then encodeWithIC of the whole input.
Encode ==
    /\ ic = NoIC
    /\ ChosenIC(ic')
    /\ out' = encodeWithIC(ic', in, InBytes).out
    /\ UNCHANGED <<in, oddByte>>

\* Safety only: that encode returns is argued by ClimbNeverRevisits of
\* AdpcmOptimize (TLC cannot check ENABLED of the encodeWithIC fold in time).
Spec == Init /\ [][Encode]_absVars

=============================================================================
