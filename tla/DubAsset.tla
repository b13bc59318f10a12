------------------------------ MODULE DubAsset ------------------------------
(***************************************************************************)
(* A whole DUB asset (src/stir/src/dubencoder.cpp, DUBEncoder::encodeTiles *)
(* with encodeBlock): the loop over frames, block rows and block columns,  *)
(* each block clipped at the right and bottom edges, encoded by DubCode's  *)
(* encodeBlock and handed to the dedupe and index of DubEncoder, which is  *)
(* instantiated with real payloads (PayloadLen <- Len).                    *)
(*                                                                         *)
(* The size (mWidth, mHeight) is one of Dims, the frame count mFrames   *)
(* one of FrameCounts, and the asset any mWidth x mHeight x mFrames array *)
(* of Tiles, all chosen in Init; one                                       *)
(* EncodeBlockAt step is one iteration of the inner loop, and EndLoop is   *)
(* the index-width scan after the loops.                                   *)
(***************************************************************************)
EXTENDS DubCode, FiniteSets

CONSTANTS
    Dims,                   \* the values <<mWidth, mHeight>> may have
    FrameCounts,            \* the values mFrames may have
    BLOCK_SIZE,             \* DUBEncoder::BLOCK_SIZE (8 in the code)
    Tiles                   \* the tile indices the asset may hold

ASSUME Dims \subseteq (Nat \ {0}) \X (Nat \ {0}) /\ FrameCounts \subseteq Nat
ASSUME BLOCK_SIZE \in Nat \ {0}
ASSUME Tiles \subseteq 0..65535 /\ Tiles # {}

VARIABLES
    mWidth, mHeight, mFrames,  \* the asset's size
    tiles,      \* the input: tile index at x + y*mWidth + f*mWidth*mHeight
    f, y, x,    \* encodeTiles' loop counters
    indexResult, blockResult, dedupeMemo, mIndex16, phase, blocks

encVars == <<indexResult, blockResult, dedupeMemo, mIndex16, phase, blocks>>
vars == <<mWidth, mHeight, mFrames, tiles, f, y, x, encVars>>

TileIndices == 0..(mWidth * mHeight * mFrames - 1)

MinOf(a, b) == IF a < b THEN a ELSE b

\* Plausible fault, a mutant of getNumBlocks: whole blocks only.
getNumBlocksFloor == (mWidth \div BLOCK_SIZE) * (mHeight \div BLOCK_SIZE) * mFrames

\* DUBEncoder::getNumBlocks().
getNumBlocks ==
    ((mWidth + BLOCK_SIZE - 1) \div BLOCK_SIZE) *
    ((mHeight + BLOCK_SIZE - 1) \div BLOCK_SIZE) * mFrames

\* Plausible fault, a mutant of BlockAt: rows of the block stepped by the
\* block's width instead of mWidth.
BlockAtStrideW(bf, by, bx) ==
    LET w == MinOf(BLOCK_SIZE, mWidth - bx)
        h == MinOf(BLOCK_SIZE, mHeight - by)
        top == bx + by * mWidth + bf * mWidth * mHeight
    IN  [k \in 1..(w * h) |-> tiles[top + ((k - 1) % w) + ((k - 1) \div w) * w]]

\* The tiles encodeBlock reads for the block at (bf, by, bx), in its
\* order: pTopLeft[x + y*mWidth] for y < h, x < w, with w and h clipped.
BlockAt(bf, by, bx) ==
    LET w == MinOf(BLOCK_SIZE, mWidth - bx)
        h == MinOf(BLOCK_SIZE, mHeight - by)
        top == bx + by * mWidth + bf * mWidth * mHeight
    IN  [k \in 1..(w * h) |-> tiles[top + ((k - 1) % w) + ((k - 1) \div w) * mWidth]]

\* Every payload a block of an asset may have: the encodings of every
\* content of every clipped block shape of every size in Dims.
BlockSizes(w, h) ==
    {MinOf(BLOCK_SIZE, w - bx) * MinOf(BLOCK_SIZE, h - by) :
        bx \in {c * BLOCK_SIZE : c \in 0..((w - 1) \div BLOCK_SIZE)},
        by \in {r * BLOCK_SIZE : r \in 0..((h - 1) \div BLOCK_SIZE)}}
AllPayloads ==
    {encodeBlock(t) : t \in UNION {[1..n -> Tiles] :
                          n \in UNION {BlockSizes(d[1], d[2]) : d \in Dims}}}

Enc == INSTANCE DubEncoder WITH
           NumBlocks <- getNumBlocks, Payloads <- AllPayloads, PayloadLen <- Len

Init ==
    /\ \E d \in Dims : mWidth = d[1] /\ mHeight = d[2]
    /\ mFrames \in FrameCounts
    /\ tiles \in [TileIndices -> Tiles]
    /\ f = 0 /\ y = 0 /\ x = 0
    /\ Enc!Init

\* Plausible fault, a mutant of EncodeBlockAt: x is not set back to 0 when
\* a row of blocks ends (the column loop's initialisation hoisted out).
EncodeBlockAtNoReset ==
    /\ f < mFrames
    /\ Enc!Block(encodeBlock(BlockAt(f, y, x)))
    /\ x' = x + BLOCK_SIZE
    /\ y' = IF x + BLOCK_SIZE < mWidth THEN y
            ELSE IF y + BLOCK_SIZE < mHeight THEN y + BLOCK_SIZE ELSE 0
    /\ f' = IF x + BLOCK_SIZE < mWidth \/ y + BLOCK_SIZE < mHeight THEN f ELSE f + 1
    /\ UNCHANGED <<mWidth, mHeight, mFrames, tiles>>

\* One iteration of the inner loop: encode the block, dedupe and index it,
\* then step x, and on leaving a row of blocks y, and on leaving a frame f.
EncodeBlockAt ==
    /\ f < mFrames
    /\ Enc!Block(encodeBlock(BlockAt(f, y, x)))
    /\ x' = IF x + BLOCK_SIZE < mWidth THEN x + BLOCK_SIZE ELSE 0
    /\ y' = IF x + BLOCK_SIZE < mWidth THEN y
            ELSE IF y + BLOCK_SIZE < mHeight THEN y + BLOCK_SIZE ELSE 0
    /\ f' = IF x + BLOCK_SIZE < mWidth \/ y + BLOCK_SIZE < mHeight THEN f ELSE f + 1
    /\ UNCHANGED <<mWidth, mHeight, mFrames, tiles>>

\* The loops are done: the scan choosing the index width.
EndLoop ==
    /\ f = mFrames
    /\ Enc!ChooseIndexWidth
    /\ UNCHANGED <<mWidth, mHeight, mFrames, tiles, f, y, x>>

Next == EncodeBlockAt \/ EndLoop

\* getCompressedWords(): getIndexSize() + blockResult.size().
getCompressedWords == Enc!getIndexSize(mIndex16) + Enc!BlockDataSize(blockResult)

Spec == Init /\ [][Next]_vars /\ WF_vars(Next)

-----------------------------------------------------------------------------
(* Properties.                                                             *)

TypeOK ==
    /\ <<mWidth, mHeight>> \in Dims /\ mFrames \in FrameCounts
    /\ tiles \in [TileIndices -> Tiles]
    /\ f \in 0..mFrames /\ y \in 0..(mHeight - 1) /\ x \in 0..(mWidth - 1)
    /\ indexResult \in Seq(0..(2^16 - 1)) /\ Len(indexResult) <= getNumBlocks
    /\ blockResult \in Seq(Seq(0..(2^16 - 1)))
    /\ blocks \in Seq(Seq(0..(2^16 - 1))) /\ Len(blocks) = Len(indexResult)
    /\ mIndex16 \in BOOLEAN /\ phase \in {"blocks", "done"}

\* getResult(): the index words followed by the block data.
Result == Enc!ResultIndex \o FlattenSeq(blockResult)

\* The asset as a decoder rebuilds it, from the spec's layout of blocks:
\* block number b covers frame b \div (cols*rows), block row and column
\* from the rest; the tile at (tf, ty, tx) is tile number k of its block.
DecodedTile(tf, ty, tx) ==
    LET cols == (mWidth + BLOCK_SIZE - 1) \div BLOCK_SIZE
        rows == (mHeight + BLOCK_SIZE - 1) \div BLOCK_SIZE
        c == tx \div BLOCK_SIZE
        r == ty \div BLOCK_SIZE
        b == tf * cols * rows + r * cols + c
        w == MinOf(BLOCK_SIZE, mWidth - c * BLOCK_SIZE)
        h == MinOf(BLOCK_SIZE, mHeight - r * BLOCK_SIZE)
        k == (ty - r * BLOCK_SIZE) * w + (tx - c * BLOCK_SIZE)
        payload == SubSeq(Result, Enc!DecodedAddress(b) + 1, Len(Result))
    IN  DecodeBlock(payload, w * h)[k + 1]

\* The encoded asset decodes back to the input: for every tile of every
\* frame, following its block's index entry and decoding that payload
\* gives the tile.  This needs encodeTiles' loop order and edge clipping,
\* encodeBlock's reading of pTopLeft with the row stride mWidth, its
\* bitstream, and the dedupe and index, all to agree.
AssetRoundTrip ==
    phase = "done" /\ ~Enc!isTooLarge =>
        \A tf \in 0..(mFrames - 1), ty \in 0..(mHeight - 1), tx \in 0..(mWidth - 1) :
            DecodedTile(tf, ty, tx) = tiles[tx + ty * mWidth + tf * mWidth * mHeight]

\* The loops run exactly getNumBlocks() iterations, the count the asset's
\* users size it by and the index is checked against: while the frame
\* loop has not ended, fewer than getNumBlocks() blocks are indexed, and
\* once it ends, exactly that many.  Loop bounds, the clipping of w and h
\* and the stepping of x, y and f must agree with getNumBlocks()'s
\* rounded-up division.
LoopMatchesNumBlocks == (f < mFrames) <=> (Len(indexResult) < getNumBlocks)


\* What getResult() emits is what the encoder reports: the packed index is
\* exactly getIndexSize() words (the assert after the packing, which the
\* 8-bit index meets only by its zero pad byte for an odd entry count),
\* and the whole result is getCompressedWords() long, the size logStats
\* and getRatio report and isTooLarge checks.
ResultMatchesReport ==
    phase = "done" =>
        /\ Len(Enc!ResultIndex) = Enc!getIndexSize(mIndex16)
        /\ Len(Result) = getCompressedWords

\* spec section 8: an asset with no blocks (zero frames) encodes to an
\* empty result with an index of size 0, although getIndexSize() rounds
\* the 8-bit entry count up.
EmptyAssetEncodesEmpty ==
    phase = "done" /\ getNumBlocks = 0 =>
        Result = << >> /\ Enc!getIndexSize(mIndex16) = 0

=============================================================================
