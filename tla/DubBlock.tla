------------------------------ MODULE DubBlock ------------------------------
(***************************************************************************)
(* The encoding of one block of the DUB tile codec                         *)
(* (src/stir/src/dubencoder.cpp, DUBEncoder::encodeBlock), as a state      *)
(* machine: each Step is one iteration of the tile loop for the next tile  *)
(* of the block, any tile of Tiles; Finish is the code after the loop.     *)
(* The loop state `blk` is the record of DubCode (dictionary, prevCode,    *)
(* repeatCount, repeating, bit buffer, payload); the four alternatives of  *)
(* Step are the four branches of the run-length logic.                     *)
(***************************************************************************)
EXTENDS DubCode

CONSTANTS
    Tiles,      \* the tile indices a block may contain (subset of 0..65535)
    BlockTiles  \* width * height of the block: the number of tiles it holds

ASSUME Tiles \subseteq 0..65535 /\ Tiles # {}
ASSUME BlockTiles \in 1..64

VARIABLES
    blk,   \* the state of encodeBlock's loop
    done   \* encodeBlock has returned

vars == <<blk, done>>

Init ==
    /\ blk = BlockInit
    /\ done = FALSE

Step(tile) ==
    /\ ~done
    /\ Len(blk.dict) < BlockTiles
    /\ \/ blk.repeating /\ SameCode(blk, tile) /\ blk' = ExtendRun(blk, tile)
       \/ blk.repeating /\ ~SameCode(blk, tile) /\ blk' = BreakRun(blk, tile)
       \/ ~blk.repeating /\ SameCode(blk, tile) /\ blk' = BeginRun(blk, tile)
       \/ ~blk.repeating /\ ~SameCode(blk, tile) /\ blk' = PlainCode(blk, tile)
    /\ UNCHANGED done

Finish ==
    /\ ~done
    /\ Len(blk.dict) = BlockTiles
    /\ blk' = FinishBlock(blk)
    /\ done' = TRUE

Next == (\E tile \in Tiles : Step(tile)) \/ Finish

\* encodeBlock runs to completion without waiting on anything.
Spec == Init /\ [][Next]_vars /\ WF_vars(Next)

-----------------------------------------------------------------------------
(* Properties.                                                             *)

TypeOK ==
    /\ blk.dict \in Seq(Tiles) /\ Len(blk.dict) <= BlockTiles
    /\ blk.prevCode.type \in {"INVALID", "DELTA", "REF"}
    /\ blk.repeatCount \in 0..BlockTiles
    /\ blk.repeating \in BOOLEAN
    /\ blk.bits \in Seq({0, 1}) /\ Len(blk.bits) < 16
    /\ blk.data \in Seq(0..65535)
    /\ done \in BOOLEAN

\* Round trip of encodeBlock: once the block is encoded, decoding its
\* payload gives back exactly the tiles of the block.  This is what the
\* run-length logic (sameCode, repeatCount, the stowed final REPEAT), the
\* REF indexing from the most recent tile, the DELTA sign handling and the
\* word flushing must together get right.
RoundTrip == done => DecodeBlock(blk.data, BlockTiles) = blk.dict

\* findBestCode picks a shortest code for the tile: no DELTA or REF that
\* stands for the same tile is shorter.  The REF loop takes the first
\* (most recent) equal tile whose code is no longer than the DELTA and
\* breaks, on the claim that later matches cannot be shorter.  Checked for
\* the code of the tile consumed last, against the dictionary before it.
\* (A REF code is 1 + 4k bits and a DELTA code 2 + 4k bits, so the two
\* never tie and the "REF wins ties" rule has no effect.)
BestCodeIsShortest ==
    blk.dict # <<>> =>
        LET d     == Front(blk.dict)
            tile  == Last(blk.dict)
            cands == {Code("DELTA", IF d = <<>> THEN tile ELSE tile - Last(d))}
                       \cup {Code("REF", i) : i \in {j \in 0..(Len(d) - 1) : d[Len(d) - j] = tile}}
        IN  codeLen(blk.prevCode) = Min({codeLen(c) : c \in cands})

=============================================================================
