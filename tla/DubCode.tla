------------------------------ MODULE DubCode -------------------------------
(***************************************************************************)
(* The pure parts of the DUB tile codec (src/stir/src/dubencoder.cpp):     *)
(* the codes and their packing into the bit buffer, findBestCode, one     *)
(* iteration of the tile loop of DUBEncoder::encodeBlock as an operator   *)
(* on the loop's state, and encodeBlock itself as a fold of it.           *)
(*                                                                         *)
(* The bit buffer (BitBuffer: append, appendVar, flush) is declared in a   *)
(* header that is not part of the sources; it is modelled from the         *)
(* format the specification gives for it.  Pending bits are a sequence,   *)
(* first-written bit first; a flushed word holds its first bit in bit 0.   *)
(*                                                                         *)
(* A reference decoder, written from the same format, closes the module.   *)
(***************************************************************************)
EXTENDS Integers, Sequences, SequencesExt

\* DUBEncoder::Code: a type and a value.  prevCode starts as INVALID.
Code(t, v) == [type |-> t, value |-> v]
INVALID == Code("INVALID", 0)

-----------------------------------------------------------------------------
(* BitBuffer, modelled from the specification of its format.               *)

\* append(value, n): the n low bits of value, most significant first.
AppendBits(value, n) == [i \in 1..n |-> (value \div 2^(n - i)) % 2]

\* appendVar(value, chunk): chunk-bit groups, least significant group
\* first, each preceded by a flag saying whether another group follows.
RECURSIVE AppendVar(_, _)
AppendVar(value, chunk) ==
    LET part == value % 2^chunk
        rest == value \div 2^chunk
    IN  AppendBits(IF rest # 0 THEN 1 ELSE 0, 1) \o AppendBits(part, chunk)
          \o (IF rest = 0 THEN <<>> ELSE AppendVar(rest, chunk))

\* The word made of 16 pending bits, the first one in bit 0.
ToWord(b) == FoldLeftDomain(LAMBDA acc, i : acc + b[i] * 2^(i - 1), 0, b)

\* flush(data): the whole words of the buffer, and the bits left over.
Flush(b) ==
    LET n == Len(b) \div 16
    IN  [words |-> [k \in 1..n |-> ToWord(SubSeq(b, 16*k - 15, 16*k))],
         rest  |-> SubSeq(b, 16*n + 1, Len(b))]

\* flush(data, true): the remaining bits are zero padded to a whole word.
PadToWord(b) == b \o [i \in 1..((16 - (Len(b) % 16)) % 16) |-> 0]

-----------------------------------------------------------------------------
(* DUBEncoder::packCode and DUBEncoder::codeLen.  A DELTA is a type bit 0, *)
(* a sign bit and |value|; a REF a type bit 1 and the back-reference; a    *)
(* REPEAT only its count.  INVALID has no encoding (assert(0)).            *)

CHUNK == 3

packCode(code) ==
    CASE code.type = "DELTA" ->
            AppendBits(0, 1)
              \o (IF code.value < 0 THEN AppendBits(1, 1) \o AppendVar(-code.value, CHUNK)
                                    ELSE AppendBits(0, 1) \o AppendVar(code.value, CHUNK))
      [] code.type = "REF"    -> AppendBits(1, 1) \o AppendVar(code.value, CHUNK)
      [] code.type = "REPEAT" -> AppendVar(code.value, CHUNK)

codeLen(code) == Len(packCode(code))

(* Plausible faults of findBestCode, used as mutants of it.               *)

\* REF counted from the oldest dictionary entry instead of the newest.
findBestCodeRefFromOldest(d, tile) ==
    LET delta == Code("DELTA", IF d = <<>> THEN tile ELSE tile - Last(d))
        refs  == {i \in 0..(Len(d) - 1) :
                      /\ d[i + 1] = tile
                      /\ codeLen(Code("REF", i)) <= codeLen(delta)}
    IN  IF refs = {} THEN delta ELSE Code("REF", Min(refs))

\* The first equal tile gives the REF, however long its code is.
findBestCodeAnyRef(d, tile) ==
    LET delta == Code("DELTA", IF d = <<>> THEN tile ELSE tile - Last(d))
        refs  == {i \in 0..(Len(d) - 1) : d[Len(d) - i] = tile}
    IN  IF refs = {} THEN delta ELSE Code("REF", Min(refs))

\* The backward scan starts one entry too far back.
findBestCodeSkipNewest(d, tile) ==
    LET delta == Code("DELTA", IF d = <<>> THEN tile ELSE tile - Last(d))
        refs  == {i \in 1..(Len(d) - 1) :
                      /\ d[Len(d) - i] = tile
                      /\ codeLen(Code("REF", i)) <= codeLen(delta)}
    IN  IF refs = {} THEN delta ELSE Code("REF", Min(refs))

(* DUBEncoder::findBestCode: a DELTA from the last dictionary entry (from  *)
(* 0 when the dictionary is empty), replaced by the REF to the most recent *)
(* equal tile whose length is no longer; the loop breaks at the first such *)
(* i and skips matches that are longer.                                    *)
findBestCode(d, tile) ==
    LET delta   == Code("DELTA", IF d = <<>> THEN tile ELSE tile - Last(d))
        refs    == {i \in 0..(Len(d) - 1) :
                        /\ d[Len(d) - i] = tile
                        /\ codeLen(Code("REF", i)) <= codeLen(delta)}
    IN  IF refs = {} THEN delta ELSE Code("REF", Min(refs))

-----------------------------------------------------------------------------
(* DUBEncoder::encodeBlock.  The loop state is a record: the dictionary,   *)
(* prevCode, repeatCount, repeating, the bit buffer and the payload.       *)

BlockInit ==
    [dict |-> <<>>, prevCode |-> INVALID, repeatCount |-> 0,
     repeating |-> FALSE, bits |-> <<>>, data |-> <<>>]

\* Plausible fault, a mutant of EmitThenFlush: the bits.flush(data) after
\* packCode is left out, so bits pile up in the accumulator until the final
\* flush.
EmitWithoutFlush(s, cs) ==
    [s EXCEPT !.bits = @ \o FlattenSeq([k \in DOMAIN cs |-> packCode(cs[k])])]

\* packCode(c, bits) for each code of cs in turn, each followed by
\* bits.flush(data).
EmitThenFlush(s, cs) ==
    LET b == s.bits \o FlattenSeq([k \in DOMAIN cs |-> packCode(cs[k])])
    IN  [s EXCEPT !.bits = Flush(b).rest, !.data = @ \o Flush(b).words]

\* The code for the tile, the dictionary grown by it, prevCode updated.
TileCode(s, tile) == findBestCode(s.dict, tile)
Consume(s, tile) ==
    [s EXCEPT !.dict = Append(@, tile), !.prevCode = TileCode(s, tile)]

\* sameCode: the code equals the previous one in type and value.
SameCode(s, tile) ==
    TileCode(s, tile).type = s.prevCode.type /\ TileCode(s, tile).value = s.prevCode.value

\* The four branches of the run-length logic.
\* Extending an existing run: nothing is emitted.
ExtendRun(s, tile) == [Consume(s, tile) EXCEPT !.repeatCount = @ + 1]

\* Breaking a run: its REPEAT, then this code.
BreakRun(s, tile) ==
    EmitThenFlush([Consume(s, tile) EXCEPT !.repeating = FALSE],
                  <<Code("REPEAT", s.repeatCount), TileCode(s, tile)>>)

\* Plausible fault, a mutant of BeginRun: the run counter starts at 1.
BeginRunCountFromOne(s, tile) ==
    EmitThenFlush([Consume(s, tile) EXCEPT !.repeating = TRUE, !.repeatCount = 1],
                  <<TileCode(s, tile)>>)

\* Beginning a run: this code; a REPEAT will follow it.
BeginRun(s, tile) ==
    EmitThenFlush([Consume(s, tile) EXCEPT !.repeating = TRUE, !.repeatCount = 0],
                  <<TileCode(s, tile)>>)

\* An ordinary code.
PlainCode(s, tile) == EmitThenFlush(Consume(s, tile), <<TileCode(s, tile)>>)

TileStep(s, tile) ==
    CASE  s.repeating /\  SameCode(s, tile) -> ExtendRun(s, tile)
      []  s.repeating /\ ~SameCode(s, tile) -> BreakRun(s, tile)
      [] ~s.repeating /\  SameCode(s, tile) -> BeginRun(s, tile)
      [] ~s.repeating /\ ~SameCode(s, tile) -> PlainCode(s, tile)

\* After the loop: the stowed REPEAT, then the final padded flush.
FinishBlock(s) ==
    LET b == s.bits \o (IF s.repeating THEN packCode(Code("REPEAT", s.repeatCount)) ELSE <<>>)
    IN  [s EXCEPT !.bits = <<>>, !.data = @ \o Flush(PadToWord(b)).words]

\* encodeBlock(pTopLeft, width, height, data): the payload of a block
\* whose tiles, in scan order, are `tiles`.
encodeBlock(tiles) == FinishBlock(FoldLeft(TileStep, BlockInit, tiles)).data

-----------------------------------------------------------------------------
(* A reference decoder, written from the format the specification gives   *)
(* for the on-device decoder (which is not part of this repository).      *)
(* Bits past the end of the payload read as 0, so a malformed payload     *)
(* decodes to wrong tiles instead of failing.                             *)

WordsToBits(w) == [k \in 1..(16 * Len(w)) |-> (w[(k - 1) \div 16 + 1] \div 2^((k - 1) % 16)) % 2]

BitAt(s, p) == IF p <= Len(s) THEN s[p] ELSE 0

BitsValue(s, p, n) == FoldLeft(LAMBDA acc, i : 2 * acc + BitAt(s, p + i), 0, [i \in 1..n |-> i - 1])

\* A variable-length value starting at bit p: [val, next].
RECURSIVE ReadVarFrom(_, _, _, _)
ReadVarFrom(s, p, shift, acc) ==
    LET v == acc + BitsValue(s, p + 1, CHUNK) * 2^(CHUNK * shift)
    IN  IF BitAt(s, p) = 1 /\ p <= Len(s)
        THEN ReadVarFrom(s, p + 1 + CHUNK, shift + 1, v)
        ELSE [val |-> v, next |-> p + 1 + CHUNK]

ReadCode(s, p) ==
    IF BitAt(s, p) = 0
    THEN LET r == ReadVarFrom(s, p + 2, 0, 0)
         IN  [code |-> Code("DELTA", IF BitAt(s, p + 1) = 1 THEN -r.val ELSE r.val),
              next |-> r.next]
    ELSE LET r == ReadVarFrom(s, p + 1, 0, 0)
         IN  [code |-> Code("REF", r.val), next |-> r.next]

\* The tile a code stands for after the tiles `out`; -1 for a REF out of range.
ApplyCode(out, c) ==
    IF c.type = "DELTA"
    THEN ((IF out = <<>> THEN 0 ELSE Last(out)) + c.value) % 65536
    ELSE IF c.value < Len(out) THEN out[Len(out) - c.value] ELSE -1

RECURSIVE RepeatCode(_, _, _, _)
RepeatCode(out, c, k, n) ==
    IF k = 0 \/ Len(out) > n THEN out
    ELSE RepeatCode(Append(out, ApplyCode(out, c)), c, k - 1, n)

\* Decode n tiles: a code equal to the previous code read is followed by
\* a REPEAT count of further copies of it.
RECURSIVE DecodeFrom(_, _, _, _, _)
DecodeFrom(s, n, p, out, prev) ==
    IF Len(out) >= n \/ p > Len(s) + 1 THEN out
    ELSE LET c    == ReadCode(s, p)
             out1 == Append(out, ApplyCode(out, c.code))
         IN  IF c.code = prev
             THEN LET r == ReadVarFrom(s, c.next, 0, 0)
                  IN  DecodeFrom(s, n, r.next, RepeatCode(out1, c.code, r.val, n), c.code)
             ELSE DecodeFrom(s, n, c.next, out1, c.code)

DecodeBlock(words, n) == DecodeFrom(WordsToBits(words), n, 1, <<>>, INVALID)

=============================================================================
