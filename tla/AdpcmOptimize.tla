---------------------------- MODULE AdpcmOptimize ----------------------------
(***************************************************************************)
(* ADPCMEncoder::encode (src/stir/src/audioencoder.cpp): optimizeIC, the   *)
(* search for the initial conditions (sample, index) of the header, then  *)
(* encodeWithIC of the whole input from them.                              *)
(*                                                                         *)
(* The input is given as its int16 samples `in` (what reinterpret_cast    *)
(* and int16_t(in[0] | in[1] << 8) read on a little-endian host) and a    *)
(* flag for a trailing odd byte, which counts in in.size() but is never   *)
(* read.  The index scan is one ScanIndex step per iteration; the hill    *)
(* climb is one Climb step per iteration of its for (;;) loop.            *)
(***************************************************************************)
EXTENDS AdpcmCodec

CONSTANTS
    Samples,          \* the sample values the input may hold
    MaxSamples,       \* the longest input, in samples
    PrefixSamples,    \* the optimizer's prefix: 100 samples in the code
    StateSampleInt16  \* State::sample is an int16_t (its header is not in the sources)

ASSUME Samples \subseteq -32768..32767
ASSUME MaxSamples \in Nat /\ PrefixSamples \in Nat \ {0}
ASSUME StateSampleInt16 \in BOOLEAN

VARIABLES
    in,         \* the input samples
    oddByte,    \* in.size() is odd
    st,         \* the State being searched: [sample, index]
    error,      \* optimizeIC's error: the best error so far
    bestIndex,  \* the index scan's best index
    pc,         \* "start", "scan", "climb", "encode", "done"
    out,        \* encode's output
    climbed     \* history: the states the hill climb has stood on

vars == <<in, oddByte, st, error, bestIndex, pc, out, climbed>>

InBytes == 2 * Len(in) + (IF oddByte THEN 1 ELSE 0)

\* std::min<unsigned>(100 * sizeof(int16_t), in.size())
PrefixBytes == IF 2 * PrefixSamples < InBytes THEN 2 * PrefixSamples ELSE InBytes

\* An assignment to State::sample: wraps if the field is an int16_t.
StoreSample(v) ==
    IF StateSampleInt16 THEN ((v + 32768) % 65536) - 32768 ELSE v

\* The error encodeWithIC(state, in, dummy, inBytes) returns.
ErrorAt(s) == encodeWithIC(s, in, PrefixBytes).error

Init ==
    /\ in \in UNION {[1..n -> Samples] : n \in 0..MaxSamples}
    /\ oddByte \in BOOLEAN
    /\ st = [sample |-> 0, index |-> 0]
    /\ error = U64_MAX
    /\ bestIndex = 0
    /\ pc = "start"
    /\ out = <<>>
    /\ climbed = {}

\* optimizeIC on an input of fewer than 4 bytes: the state is (0, 0).
ShortInput ==
    /\ pc = "start" /\ InBytes < 4
    /\ st' = [sample |-> 0, index |-> 0]
    /\ pc' = "encode"
    /\ UNCHANGED <<in, oddByte, error, bestIndex, out, climbed>>

\* Plausible fault, a mutant of Seed: the index scan starts at 1.
SeedScanFromOne ==
    /\ pc = "start" /\ InBytes >= 4
    /\ st' = [sample |-> StoreSample(in[1]), index |-> 1]
    /\ error' = U64_MAX
    /\ bestIndex' = 0
    /\ pc' = "scan"
    /\ UNCHANGED <<in, oddByte, out, climbed>>

\* The sample is seeded from the first input sample, and the scan begins.
Seed ==
    /\ pc = "start" /\ InBytes >= 4
    /\ st' = [sample |-> StoreSample(in[1]), index |-> 0]
    /\ error' = U64_MAX
    /\ bestIndex' = 0
    /\ pc' = "scan"
    /\ UNCHANGED <<in, oddByte, out, climbed>>

ScanIndex ==
    /\ pc = "scan" /\ st.index < INDEX_MAX
    /\ LET nextError == ErrorAt(st)
       IN  /\ error' = IF U64Less(nextError, error) THEN nextError ELSE error
           /\ bestIndex' = IF U64Less(nextError, error) THEN st.index ELSE bestIndex
    /\ st' = [st EXCEPT !.index = @ + 1]
    /\ UNCHANGED <<in, oddByte, pc, out, climbed>>

\* Plausible fault, a mutant of EndScan: state.index = bestIndex is left
\* out, so the climb starts from the last index scanned.
EndScanNoRestore ==
    /\ pc = "scan" /\ ~(st.index < INDEX_MAX)
    /\ pc' = "climb"
    /\ climbed' = {st}
    /\ UNCHANGED <<in, oddByte, st, error, bestIndex, out>>

EndScan ==
    /\ pc = "scan" /\ ~(st.index < INDEX_MAX)
    /\ st' = [st EXCEPT !.index = bestIndex]
    /\ pc' = "climb"
    /\ climbed' = {st'}
    /\ UNCHANGED <<in, oddByte, error, bestIndex, out>>

\* Plausible fault, a mutant of ClimbTries: the sample += 1 after the two
\* sample tries is left out.
ClimbTriesNoRestore(s) ==
    LET up   == StoreSample(s.sample + 1)
        down == StoreSample(up - 2)
    IN  [tries |-> << [sample |-> up, index |-> s.index],
                      [sample |-> down, index |-> s.index] >>
                   \o (IF s.index < INDEX_MAX THEN << [sample |-> down, index |-> s.index + 1] >> ELSE << >>)
                   \o (IF s.index > 0 THEN << [sample |-> down, index |-> s.index - 1] >> ELSE << >>),
         rest  |-> [sample |-> down, index |-> s.index]]

\* The states the hill climb tries, in order: sample += 1; sample -= 2;
\* then, with sample += 1 restoring it, index + 1 if below INDEX_MAX and
\* index - 1 if above 0.  `rest` is the state once every try is undone.
ClimbTries(s) ==
    LET up   == StoreSample(s.sample + 1)
        down == StoreSample(up - 2)
        back == StoreSample(down + 1)
    IN  [tries |-> << [sample |-> up, index |-> s.index],
                      [sample |-> down, index |-> s.index] >>
                   \o (IF s.index < INDEX_MAX THEN << [sample |-> back, index |-> s.index + 1] >> ELSE << >>)
                   \o (IF s.index > 0 THEN << [sample |-> back, index |-> s.index - 1] >> ELSE << >>),
         rest  |-> [sample |-> back, index |-> s.index]]

\* Plausible fault, a mutant of Climb: an improving try ends the loop
\* (break where the code has continue), so the climb takes one step.
ClimbOnce ==
    /\ pc = "climb"
    /\ LET c    == ClimbTries(st)
           errs == [k \in DOMAIN c.tries |-> ErrorAt(c.tries[k])]
           wins == {k \in DOMAIN c.tries : U64Less(errs[k], error)}
       IN  IF wins # {}
           THEN LET k == Min(wins) IN
                /\ st' = c.tries[k] /\ error' = errs[k] /\ pc' = "encode"
           ELSE /\ st' = c.rest /\ pc' = "encode" /\ UNCHANGED error
    /\ climbed' = climbed \cup {st'}
    /\ UNCHANGED <<in, oddByte, bestIndex, out>>

\* Plausible fault, a mutant of Climb: a try that does not make the error
\* worse is accepted (<= instead of <).
ClimbNonStrict ==
    /\ pc = "climb"
    /\ LET c    == ClimbTries(st)
           errs == [k \in DOMAIN c.tries |-> ErrorAt(c.tries[k])]
           wins == {k \in DOMAIN c.tries : ~U64Less(error, errs[k])}
       IN  IF wins # {}
           THEN LET k == Min(wins) IN
                /\ st' = c.tries[k] /\ error' = errs[k] /\ UNCHANGED pc
           ELSE /\ st' = c.rest /\ pc' = "encode" /\ UNCHANGED error
    /\ climbed' = climbed \cup {st'}
    /\ UNCHANGED <<in, oddByte, bestIndex, out>>

\* One iteration of the hill climb's for (;;): the first try with a
\* strictly lower error is kept and the loop continues; if none is, the
\* state is restored and the loop breaks.
Climb ==
    /\ pc = "climb"
    /\ LET c    == ClimbTries(st)
           errs == [k \in DOMAIN c.tries |-> ErrorAt(c.tries[k])]
           wins == {k \in DOMAIN c.tries : U64Less(errs[k], error)}
       IN  IF wins # {}
           THEN LET k == Min(wins) IN
                /\ st' = c.tries[k] /\ error' = errs[k] /\ UNCHANGED pc
           ELSE /\ st' = c.rest /\ pc' = "encode" /\ UNCHANGED error
    /\ climbed' = climbed \cup {st'}
    /\ UNCHANGED <<in, oddByte, bestIndex, out>>

\* Plausible fault, a mutant of Encode: the out.resize(0) at the top of
\* encodeWithIC is left out, so the stream follows what out held.
EncodeKeepingOutput ==
    /\ pc = "encode"
    /\ out' = out \o encodeWithIC(st, in, InBytes).out
    /\ pc' = "done"
    /\ UNCHANGED <<in, oddByte, st, error, bestIndex, climbed>>

\* encode(): encodeWithIC of the whole input from the chosen state; it
\* starts with out.resize(0), so what out held before is dropped.
Encode ==
    /\ pc = "encode"
    /\ out' = encodeWithIC(st, in, InBytes).out
    /\ pc' = "done"
    /\ UNCHANGED <<in, oddByte, st, error, bestIndex, climbed>>

Next == ShortInput \/ Seed \/ ScanIndex \/ EndScan \/ Climb \/ Encode

\* encode runs on one thread to completion.
Spec == Init /\ [][Next]_vars /\ WF_vars(Next)

-----------------------------------------------------------------------------
(* Properties.                                                             *)

TypeOK ==
    /\ in \in Seq(Samples) /\ Len(in) <= MaxSamples /\ oddByte \in BOOLEAN
    /\ st.index \in 0..INDEX_MAX
    /\ st.sample \in (IF StateSampleInt16 THEN -32768..32767 ELSE -32769..32768)
    /\ bestIndex \in 0..INDEX_MAX
    /\ pc \in {"start", "scan", "climb", "encode", "done"}
    /\ out \in Seq(0..255)

\* The scan's choice, as the spec states it: the index ending the scan has
\* the lowest prefix error of every index in [0, 88] from the seeded
\* sample, and no earlier index has the same error.
ScanFindsBestIndex ==
    [][pc = "scan" /\ pc' = "climb" =>
         \A i \in 0..INDEX_MAX :
             LET e == ErrorAt([sample |-> st.sample, index |-> i])
             IN  /\ ~U64Less(e, error')
                 /\ i < st'.index => U64Less(error', e)]_vars

\* The scan over the indexes the code tries, [0, INDEX_MAX): the index it
\* hands to the hill climb has the lowest prefix error among them, and
\* the earliest index wins a tie.
ScanPicksEarliestBest ==
    [][pc = "scan" /\ pc' = "climb" =>
         \A i \in 0..(INDEX_MAX - 1) :
             LET e == ErrorAt([sample |-> st.sample, index |-> i])
             IN  /\ ~U64Less(e, error')
                 /\ i < st'.index => U64Less(error', e)]_vars

\* Throughout the hill climb, `error` is the prefix error of the state
\* the climb stands on: every rejected try is undone (sample -= 2, then
\* sample += 1, index-- after index++), so what the loop compares
\* against is never stale.
ErrorMatchesState == pc = "climb" => error = ErrorAt(st)

\* encode() always finishes: the hill climb never steps back onto a state
\* it has already stood on, so over the finite set of states it ends.
\* This needs both the strict comparison of every try against `error`
\* and that `error` is the error of the current state (every rejected
\* try undone), including where an int16 sample wraps at the ends.
ClimbNeverRevisits ==
    [][pc = "climb" /\ pc' = "climb" => st' \notin climbed]_vars

\* The header encode() writes is the state the search chose and scored:
\* read back as the decoder reads it (an int16 and an index byte), it is
\* st, and for an input of 4 bytes or more the prefix error of that
\* decoded state is the error the optimizer minimised.
HeaderIsSearchedIC ==
    pc = "done" =>
        LET hdr == [sample |-> HeaderSample(out), index |-> out[3]]
        IN  /\ hdr = st
            /\ InBytes >= 4 => ErrorAt(hdr) = error

\* Refinement: the scan-and-climb search implements AdpcmEncodeSpec, the
\* one-step encode from locally optimal initial conditions.  The chosen
\* conditions become visible when encode returns.
Abstract == INSTANCE AdpcmEncodeSpec
    WITH ic <- IF pc = "done" THEN st ELSE [sample |-> 0, index |-> -1]

ImplementsAdpcmEncodeSpec == Abstract!Spec

=============================================================================
