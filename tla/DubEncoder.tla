----------------------------- MODULE DubEncoder -----------------------------
(***************************************************************************)
(* Block deduplication and the relocated index of the DUB codec            *)
(* (src/stir/src/dubencoder.cpp: DUBEncoder::encodeTiles, packIndex,       *)
(* getIndexSize, isTooLarge, getResult).                                   *)
(*                                                                         *)
(* The payload of a block is abstracted to an element of Payloads with a   *)
(* length in words, PayloadLen(p); two blocks have byte-identical payloads *)
(* iff they have the same element.  This keeps every step of the index    *)
(* arithmetic while letting block data grow past the 8-bit and the 16-bit  *)
(* limits.  DubAsset instantiates this module with real payloads.          *)
(*                                                                         *)
(* A behaviour encodes one asset of NumBlocks blocks: one Block step per  *)
(* block in the order of encodeTiles' loops, then ChooseIndexWidth, the    *)
(* scan that ends encodeTiles.                                             *)
(***************************************************************************)
EXTENDS Integers, Sequences, SequencesExt, TLC

CONSTANTS
    NumBlocks,     \* getNumBlocks(): blocks in the asset
    Payloads,      \* the block payloads that may occur
    PayloadLen(_)  \* the length of a payload, in 16-bit words

ASSUME NumBlocks \in Nat
ASSUME \A p \in Payloads : PayloadLen(p) \in Nat \ {0}

VARIABLES
    indexResult,   \* per block, the offset of its payload in blockResult
    blockResult,   \* the unique payloads, in first-occurrence order
    dedupeMemo,    \* payload -> its offset (std::map dedupeMemo)
    mIndex16,      \* the index uses 16-bit entries
    phase,         \* "blocks" while the loop runs, "done" once encodeTiles returns
    blocks         \* auxiliary: the payload of every block so far, for the properties

vars == <<indexResult, blockResult, dedupeMemo, mIndex16, phase, blocks>>

\* Words of block data so far: blockResult.size().
BlockDataSize(br) == FoldLeft(LAMBDA acc, p : acc + PayloadLen(p), 0, br)

\* The uint16_t and uint8_t stores (x may be negative: it wraps).
U16(x) == x % 2^16
U8(x)  == x % 2^8

-----------------------------------------------------------------------------

\* Plausible fault, a mutant of getIndexSize: the 8-bit size rounded up
\* as (s + 2) / 2, packIndex's formula for the next word.
getIndexSizeLikeNextWord(idx16) ==
    IF idx16 THEN Len(indexResult) ELSE (Len(indexResult) + 2) \div 2

\* getIndexSize(): the size of the index in words, for the given width.
getIndexSize(idx16) ==
    IF idx16 THEN Len(indexResult) ELSE (Len(indexResult) + 1) \div 2

\* Plausible fault, a mutant of packIndex: in the 8-bit index the next
\* word after entry i is taken as (i + 1) / 2.
packIndexNextWordLow(i, idx16) ==
    LET nextWord == IF idx16 THEN i + 1 ELSE (i + 1) \div 2
    IN  getIndexSize(idx16) + indexResult[i + 1] - nextWord

\* packIndex(i): the offset from the word after entry i's word to the
\* block's payload.  i counts from 0, as in the code.  The code computes
\* it in unsigned arithmetic; here it is the mathematical value, and a
\* negative one stands for its wrapped unsigned value.
packIndex(i, idx16) ==
    LET nextWord == IF idx16 THEN i + 1 ELSE (i + 2) \div 2
    IN  getIndexSize(idx16) + indexResult[i + 1] - nextWord

\* isTooLarge(): the result does not fit the 16-bit word address space.
isTooLarge ==
    getIndexSize(mIndex16) + BlockDataSize(blockResult) >= 2^16

\* Plausible fault, a mutant of ResultIndex: an odd count of 8-bit
\* entries is not padded with a zero byte, so the last entry is dropped.
ResultIndexNoPad ==
    IF mIndex16
    THEN [i \in 1..Len(indexResult) |-> U16(packIndex(i - 1, TRUE))]
    ELSE LET index8 == [i \in 1..Len(indexResult) |-> U8(packIndex(i - 1, FALSE))]
         IN  [k \in 1..(Len(index8) \div 2) |-> U16(index8[2*k - 1] + index8[2*k] * 256)]

\* getResult(): the index part of the result, in words.  A 16-bit index
\* stores each entry as a word; an 8-bit index stores a byte per entry,
\* zero padded to an even count, two bytes per little-endian word.
ResultIndex ==
    IF mIndex16
    THEN [i \in 1..Len(indexResult) |-> U16(packIndex(i - 1, TRUE))]
    ELSE LET index8 == [i \in 1..Len(indexResult) |-> U8(packIndex(i - 1, FALSE))]
                          \o (IF Len(indexResult) % 2 = 1 THEN <<0>> ELSE <<>>)
         IN  [k \in 1..(Len(index8) \div 2) |-> U16(index8[2*k - 1] + index8[2*k] * 256)]

-----------------------------------------------------------------------------
(* DUBEncoder::encodeTiles.                                                *)

Init ==
    /\ indexResult = <<>>
    /\ blockResult = <<>>
    /\ dedupeMemo = <<>>
    /\ mIndex16 = FALSE
    /\ phase = "blocks"
    /\ blocks = <<>>

\* Plausible fault, a mutant of UniqueBlock: the offset is kept in an
\* unsigned int rather than a uint16_t.
UniqueBlockWideAddr(p) ==
    LET addr == BlockDataSize(blockResult)
    IN  /\ p \notin DOMAIN dedupeMemo
        /\ indexResult' = Append(indexResult, addr)
        /\ dedupeMemo' = dedupeMemo @@ (p :> addr)
        /\ blockResult' = Append(blockResult, p)

\* One iteration of the block loop, for a block whose payload is p: a
\* unique block gets the current end of blockResult (as a uint16_t) and is
\* appended; a duplicate reuses the recorded offset.
UniqueBlock(p) ==
    LET addr == U16(BlockDataSize(blockResult))
    IN  /\ p \notin DOMAIN dedupeMemo
        /\ indexResult' = Append(indexResult, addr)
        /\ dedupeMemo' = dedupeMemo @@ (p :> addr)
        /\ blockResult' = Append(blockResult, p)

DuplicateBlock(p) ==
    /\ p \in DOMAIN dedupeMemo
    /\ indexResult' = Append(indexResult, dedupeMemo[p])
    /\ UNCHANGED <<dedupeMemo, blockResult>>

Block(p) ==
    /\ phase = "blocks"
    /\ Len(indexResult) < NumBlocks
    /\ UniqueBlock(p) \/ DuplicateBlock(p)
    /\ blocks' = Append(blocks, p)
    /\ UNCHANGED <<mIndex16, phase>>

\* After the loop: mIndex16 is cleared and set again iff some entry,
\* packed for the 8-bit index, does not fit in a byte.
ChooseIndexWidth ==
    /\ phase = "blocks"
    /\ Len(indexResult) = NumBlocks
    /\ mIndex16' = \E i \in 0..(NumBlocks - 1) :
                        \* unsigned compare: a negative value is huge
                        packIndex(i, FALSE) >= 256 \/ packIndex(i, FALSE) < 0
    /\ phase' = "done"
    /\ UNCHANGED <<indexResult, blockResult, dedupeMemo, blocks>>

Next == (\E p \in Payloads : Block(p)) \/ ChooseIndexWidth

Spec == Init /\ [][Next]_vars /\ WF_vars(Next)

-----------------------------------------------------------------------------
(* Properties.                                                             *)

TypeOK ==
    /\ indexResult \in Seq(0..(2^16 - 1)) /\ Len(indexResult) <= NumBlocks
    /\ blockResult \in Seq(Payloads)
    /\ DOMAIN dedupeMemo \subseteq Payloads
    /\ mIndex16 \in BOOLEAN
    /\ phase \in {"blocks", "done"}
    /\ blocks \in Seq(Payloads) /\ Len(blocks) = Len(indexResult)

\* The word at which the payload in position j of blockResult starts,
\* counted from the start of the result.
PayloadAddress(j) ==
    getIndexSize(mIndex16) + BlockDataSize(SubSeq(blockResult, 1, j - 1))

\* What the decoder reads for block i (from 0): it adds the stored entry
\* to the number of the word after the entry's word, in 16-bit arithmetic.
DecodedAddress(i) ==
    LET idx == ResultIndex
    IN  IF mIndex16
        THEN U16(i + 1 + idx[i + 1])
        ELSE U16((i + 2) \div 2 + ((idx[i \div 2 + 1] \div 256^(i % 2)) % 256))

\* Every entry of the index, as stored by getResult and read back by the
\* decoder, leads to the first word of a copy in the block data of that
\* block's own payload, unless isTooLarge() rejects the asset.  This
\* needs the dedupe offsets, the 8/16-bit choice, the relocation by the
\* index size and the byte packing all to agree.
IndexLeadsToPayload ==
    phase = "done" /\ ~isTooLarge =>
        \A i \in 0..(NumBlocks - 1) :
            \E j \in DOMAIN blockResult :
                /\ blockResult[j] = blocks[i + 1]
                /\ DecodedAddress(i) = PayloadAddress(j)

=============================================================================
