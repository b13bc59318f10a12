# TLA+ models of the thundercracker asset codecs and UI coordinator

This directory holds TLA+ models of the sources under `src/`, the TLC
configurations that check them, and `PROJECT.json`, which lists the
components, the runs, the mutants, the source lines each definition
models, and the hazards the properties are aimed at.

## 1. Inventory

### Components

| Component | Source | State | Operations |
|---|---|---|---|
| ADPCM-A encoder | `src/stir/src/audioencoder.cpp` | `State {sample, index}`; output bytes; error sum (uint64) | `encodeSample`, `encodePair`, `encodeWithIC`, `optimizeIC`, `encode` |
| PCM passthrough, dispatch | same file | the caller's output vector | `PCMEncoder::encode` (appends), `AudioEncoder::create` (lower-cased name to encoder) |
| DUB block encoder | `src/stir/src/dubencoder.cpp` | per block: dictionary, `prevCode`, `repeatCount`, `repeating`, bit buffer, payload | `encodeBlock`, `findBestCode`, `packCode`, `codeLen` |
| DUB dedupe and index | same file | `dedupeMemo`, `indexResult`, `blockResult`, `mIndex16` | `encodeTiles`, `packIndex`, `getIndexSize`, `isTooLarge`, `getResult`, `getNumBlocks`, reporting (`getTileCount`, `getCompressedWords`, `getRatio`, `logStats`) |
| Bit buffer | header not in the sources | pending bits | `append`, `appendVar`, `flush`, `getCount` (modelled from the spec) |
| UI coordinator (firmware) | `src/firmware/master/common/ui_coordinator.cpp` | `avb.cube`, `savedVBuf`, `uiConnected`, `stippleDeadline`; shared bit vectors `CubeSlots::vramPaused`, `sendStipple`, `sysConnected` | `stippleCubes`, `restoreCubes`, `connectCubes`, `attachToCube`, `detach`, `pollForAttach`, `paint`, `finish`, VRAM pokes |
| ELF main menu item | `src/launcher/src/elfmainmenuitem.h` | declarations only | none defined in the sources |

### How they interact

The two codecs are pure, single-threaded functions from an input buffer to
an output buffer; they share no state.  Inside DUB, `encodeTiles` calls
`encodeBlock` once per 8x8 block (frame, block row, block column order);
`encodeBlock` calls `findBestCode` per tile, which measures candidate codes
with `codeLen` (a `packCode` into a scratch bit buffer); the resulting
payloads are deduplicated by content and indexed.  The decoder is on the
device, outside the repository: what the encoders must satisfy is that the
device, reading the documented format, gets the input back.

The UI coordinator is the one concurrent part.  It runs in the firmware's
main task and, whenever it calls `idle()` (waiting for stipple packets to
go out, for a deadline, or for painting to finish), other tasks run: the
radio task sends the stipple and clears `sendStipple`, cubes connect and
disconnect (`sysConnected`), and the paint machinery uses `vramPaused`.

### What is hard

* DUB: the run-length logic (a REPEAT only after two identical codes,
  latent runs, the run left open at the end of a block), REF indexing from
  the most recent tile, the zero-padded final word, the relocation of index
  entries by the index's own size, the 8-bit/16-bit choice, uint16
  truncation of offsets near 65536 words.  Each is reached only by specific
  inputs; a wrong one silently corrupts graphics on the device.
* ADPCM: bit-exact agreement between the encoder's predictor and the
  device's decoder (the int8 -> unsigned -> multiply -> shift sequence, the
  header's byte split of a signed sample, saturation at the ends of the
  16-bit range and the index range); the initial-condition search and the
  hill climb (termination, the index range it covers, the int16 edge).
* UI coordinator: waits in `idle()` during which cubes disconnect or the
  radio lags; state read before the wait (`uiConnected`, `vramPaused`,
  `avb.cube`) used after it.

### Properties that make each component correct

* DUB block: the payload decodes to the block's tiles; each tile's code is
  a shortest code for it.
* DUB index: every index entry leads the decoder to its block's payload
  whenever the asset is not rejected as too large; the block data holds
  each distinct payload once.
* Dispatch and PCM: the encoder is the one the spec names for the name,
  and an encoder's output depends on its input alone.
* ADPCM: a decoder reading the header and nybbles stays in the encoder's
  state; the header holds the initial conditions the error was computed
  for; the search terminates at a local minimum over the whole index range.
* UI coordinator: every wait in `idle()` ends; every cube but the attached
  one shows its game's own video buffer, and `detach` hands the attached
  cube its own buffer back; VRAM updates resume only after the stipple
  deadline, and only once no stipple is queued for the cube; a buffer swap
  keeps the cube's flags.

## 2. Plan

In order, most important behaviour first:

1. `DubCode` + `DubBlock` (done): the per-block bitstream.
2. `DubEncoder` (done): dedupe, index packing and width, overflow, with
   abstract payload lengths.
3. `Adpcm` (done): `encodeSample`/`encodePair`/`encodeWithIC` against a
   reference decoder.
4. `DubAsset` (done): the whole `encodeTiles` loop over frames, block rows
   and columns with edge clipping on a small grid, composing `DubCode`'s
   `encodeBlock` with `DubEncoder`'s dedupe and index (INSTANCE ... WITH
   `PayloadLen <- Len`); property: the whole asset decodes back.
5. `AdpcmOptimize` (done): `encode` with `optimizeIC` (short input, index
   scan, hill climb) over short inputs, the uint64 error kept exactly.
6. `UICoordinator` (done): the coordinator's operations as actions
   interleaved with an environment (radio, cube connect/disconnect,
   clock), with liveness under fairness of the radio and the clock.
7. An abstract block specification for `DubBlock`: dropped.  Its only
   content beyond `RoundTrip` was that flushed words are never rewritten,
   which holds by the shape of the model (`data` is only ever appended to).
8. `AudioEncoder` (done): `create` and both `encode`s as the caller sees
   them, composed with `AdpcmOptimize` by INSTANCE on shared variables.
9. The flags handoff between avb and the game's buffer in `attachToCube`
   and `detach`, with the toggle bit flipping while attached (done).  The
   VRAM pokes stay out (see Not modelled).
10. An abstract `AdpcmEncodeSpec` (encode in one step from initial
   conditions no unit move improves) refined by `AdpcmOptimize` (done).

## 3. Modules and runs

### DubCode (constant module)

Pure definitions from `dubencoder.cpp`: `Code`, `packCode`, `codeLen`,
`findBestCode`, and one iteration of `encodeBlock`'s tile loop as operators
on a record (`dict`, `prevCode`, `repeatCount`, `repeating`, `bits`,
`data`): `ExtendRun`, `BreakRun`, `BeginRun`, `PlainCode` are the four
branches of the run-length logic, `FinishBlock` the code after the loop,
`encodeBlock(tiles)` the fold of them.  The bit buffer (`AppendBits`,
`AppendVar`, `Flush`, `PadToWord`) is modelled from the spec, since its
header is not in the sources: pending bits are a sequence, a flushed word
holds its first bit in bit 0.  The module ends with a reference decoder
written from the format in the spec (the device decoder is not in the
repository).

### DubBlock

State machine of one `encodeBlock` call: `Step(tile)` per tile (any tile
of `Tiles`, so every block content up to `BlockTiles` tiles is explored),
with the four branches as disjuncts, and `Finish`.

* `RoundTrip`: when the block is done, decoding the payload gives its tiles.
* `BestCodeIsShortest`: the code of the last tile is as short as any DELTA
  or REF for it.  Modelling showed that REF codes are always 1 + 4k bits
  and DELTA codes 2 + 4k bits, so the "REF wins ties" rule never applies.

Runs: `dub_block` (`MCDubBlock.cfg`: tiles {0, 1, 9, 65535}, 6 tiles:
negative and literal DELTAs, multi-group values, REFs and runs) and
`dub_block_runs` (`MCDubBlockRuns.cfg`: tiles {0, 1}, 12 tiles: REPEAT
counts of 8 and more need two 3-bit groups, and REFs 8 or more back are
longer than a DELTA of 1).  The block size is 6 or 12 tiles rather than 64:
every branch, the varint group boundary at 8 and the word boundary at 16
bits are reached; larger blocks repeat the same cases.

### DubEncoder

`encodeTiles`' dedupe loop (`UniqueBlock`, `DuplicateBlock`) and the
index-width scan (`ChooseIndexWidth`), with `packIndex`, `getIndexSize`,
`isTooLarge` and `getResult` (`ResultIndex`) as operators.  A block's
payload is an element of `Payloads` with a length `PayloadLen(p)`: this
keeps all the index arithmetic and lets the block data pass 256 and 65536
words.  `blocks` is an auxiliary history of the payloads, used only by the
property.

* `IndexLeadsToPayload`: unless `isTooLarge`, each entry of the index as
  `getResult` stores it, read back the way the spec says the decoder does
  (entry plus the number of the word after the entry's word, 16-bit), is
  the first word of a copy of that block's payload.

Run `dub_index` (`MCDubEncoder.cfg`): 4 blocks over payloads of 1, 127, 128
and 65281 words, which puts 8-bit entries at 254..256, reaches both index
widths, and puts the block data on both sides of the 65536 limit (and an
offset that itself wraps in the uint16).

### DubAsset

The whole of `encodeTiles`: the asset's size `<<mWidth, mHeight>>` is one
of `Dims` and its frame count `mFrames` one of `FrameCounts` (the
constructor's arguments); the asset is any `mWidth` x `mHeight` x
`mFrames` array of `Tiles`.  All three are chosen in `Init`.  `EncodeBlockAt` is one iteration of
the inner loop: `BlockAt` reads the block's tiles the way `encodeBlock`
reads `pTopLeft[x + y*mWidth]`, with `w` and `h` clipped at the edges;
`DubCode`'s `encodeBlock` gives the real payload, which goes to
`DubEncoder`'s `Block` step (the module is instantiated as `Enc` with
`NumBlocks <- getNumBlocks` and `PayloadLen <- Len`); then `x`, `y` and
`f` step as the three `for` loops do.  `EndLoop` is `DubEncoder`'s
index-width scan once the frame loop has ended.  `BLOCK_SIZE` is a
constant, 2 in the models (8 in the code), so that a 3-wide grid has a
full and a clipped column of blocks.

* `AssetRoundTrip`: unless `isTooLarge`, every tile of every frame comes
  back when a decoder follows its block's index entry in `getResult`'s
  output and decodes that payload for the block's own tile count.  The
  block a tile belongs to and its place in the block are computed from
  the asset size, not from the encoder's loop variables.
* `LoopMatchesNumBlocks`: the loops index fewer than `getNumBlocks()`
  blocks while the frame loop runs and exactly that many when it ends.
* `ResultMatchesReport`: once encoding is done, the packed index is
  exactly `getIndexSize()` words, which is the `assert` in `getResult`.
  The 8-bit index meets it only through its pad byte for an odd entry
  count.  The whole result is `getCompressedWords()` long, the size that
  `logStats` reports and `isTooLarge` checks.
* `EmptyAssetEncodesEmpty` (spec section 8): an asset with no blocks
  encodes to an empty result with an index of size 0.

Run `dub_asset` (`MCDubAsset.cfg`: tiles {0, 1} and sizes 3 x 3 and 5 x 1,
each with zero frames or one).  A 3 x 3 frame has blocks of 4, 2, 2 and 1
tiles, so blocks of different shapes can share a payload, and its 8-bit
index has four entries.  A 5 x 1 frame has three blocks, an odd count,
which the 8-bit index pads.  Zero frames give an asset with no blocks.
Every asset of these sizes is explored, 3236 states in all.  A second frame adds only more blocks of the same shapes (the
frame loop just moves on to the next `mHeight` rows), and two 3 x 3 frames
of two tile values are 262144 assets, beyond a short run; two 3 x 2 frames
were checked while the model was built and showed nothing more.  Payloads here are tens of words, so the
8/16-bit switch and the 65536 limit stay with `dub_index`.

### AdpcmCodec (constant module)

The codec as operators: the tables, `encodeSample`, `encodePair` (with the
error it returns), the header, `encodeWithIC` as a whole (a fold over the
pairs, the last sample paired with itself when the count is odd), and a
reference decoder from the spec's table of multipliers and adjustments.
The uint64 error is kept as `hi * 2^16 + lo`, because TLC's integers have
32 bits and one squared error can reach 65535^2.  `uint64_t(-1)` is a
value above every reachable sum; it is only ever compared with `<`.

### Adpcm

`encodeWithIC` step by step, on `AdpcmCodec`'s operators (header, one
`Pair` step per two samples, `OddTail` for a final odd sample, which is
encoded twice).  `codeTable` holds the ints the code stores
(`static_cast<int>(0xFFFFFF01)` is -255), so `int8_t(...)` is the low byte as
a signed byte and `>> 8` is floor division by 256.  The error sum is not
kept here: nothing in `encodeWithIC` branches on it, and its only reader
is `optimizeIC` (`AdpcmOptimize`).

* `DecoderTracksEncoder`: a decoder written from the spec's table of
  multipliers and index adjustments, reading the header and the nybbles so
  far, is in the encoder's state.

Run `adpcm_encode` (`MCAdpcm.cfg`): 5 samples from {-32768, -3000, 0, 20,
32767}, initial predictors {-32768, -1, 0, 32767}, initial indexes {0, 40,
88}: both saturations, negative headers, the odd tail.

### AdpcmOptimize

`ADPCMEncoder::encode`: `ShortInput` (fewer than 4 bytes: state (0, 0)),
`Seed` (the sample from the first input sample), one `ScanIndex` step per
iteration of the index scan, `EndScan` (`state.index = bestIndex`), one
`Climb` step per iteration of the hill climb's `for (;;)` (`ClimbTries`
lists the states it tries in the code's order, with the undo steps
between them), and `Encode`.  The input is its int16 samples plus a flag
for a trailing odd byte.  `PrefixSamples` is the 100-sample prefix, 2 in
the model, so that the prefix is shorter than the input.  The type of
`State::sample` is in a header that is not in the repository, so
`StateSampleInt16` chooses between `int16_t` (assignments wrap) and `int`.

* `ErrorMatchesState`: during the climb, `error` is the prefix error of
  `st`.
* `HeaderIsSearchedIC`: at the end, the header read back as the decoder
  reads it is `st`, and its prefix error is the `error` the search ended
  with.
* `ScanPicksEarliestBest` (action property): the scan hands the climb the
  earliest index of lowest error among 0..87.
* `ClimbNeverRevisits` (action property): no climb step that continues
  the loop lands on a state the climb has already stood on.  The history
  variable `climbed` (the set of those states, reset when the scan ends)
  exists only for this property.  Over the finite set of states, this
  shows that the climb terminates.  It relies both on the strict
  comparison and on `error` being the error of the current state, also
  where a sample try wraps at the ends of the int16 range.  It is stated
  as a safety property because TLC evaluates `ENABLED` of these actions
  far too slowly for a liveness check.
* `ScanFindsBestIndex` (action property): the spec's version of the scan
  claim, over all of [0, 88].
* `ImplementsAdpcmEncodeSpec` (refinement): `AdpcmOptimize` implements
  `AdpcmEncodeSpec` under the mapping `ic <- IF pc = "done" THEN st ELSE
  NoIC`.  The abstract spec is `encode` as one step, `Encode`: the output
  is `encodeWithIC` of the whole input from initial conditions `ic`.  For
  an input of fewer than 4 bytes, `ic` is (0, 0).  For any other input,
  `ic` satisfies `LocallyOptimal`: no unit move of the sample, and none of
  the index within [0, 88], has a strictly lower prefix error.  It also
  satisfies `NoWorseThanScan`: it is no worse than any index in [0, 88)
  at the first sample.  These are the promises of `optimizeIC`'s comments
  ("stop when there's no single change which improves quality").  How the
  conditions are found is left open.  The abstract spec has no fairness:
  as `ClimbNeverRevisits` explains, TLC cannot check liveness of these
  actions at any useful size, because computing `ENABLED` re-evaluates
  the `encodeWithIC` fold.

Runs:
* `adpcm_optimize` (`MCAdpcmOptimize.cfg`, pass): every input of 0 to 3
  samples from {-20, 0, 33}, with and without an odd byte, and an
  `int16_t` sample field.  Small samples keep the climb short, because it
  moves the sample by 1 per step.  It checks the refinement too.
* `adpcm_scan_index88` (`MCAdpcmOptimizeScan.cfg`, violation): inputs of up
  to 2 samples from {-32768, 32760, 32767}.  For `<<-32768, 32760>>`, and
  equally for `<<32760, -32768>>`, index 88 beats every index the scan
  tries (see findings).  TLC reports either input, depending on how its
  two workers interleave.
* `adpcm_header_int_sample` (`MCAdpcmOptimizeIntSample.cfg`, violation): the
  same inputs with an `int` sample field.  For `<<32767, -32768>>`, the
  climb reaches sample 32768 and the header says -32768 (see findings).

### AudioEncoder

What a caller of the encoders sees: `AudioEncoder::create(name)`, then
`encode(in, out)` on what it returned.  The state is `AdpcmOptimize`'s,
with `ADPCM == INSTANCE AdpcmOptimize` on the same variables, plus `name`,
`encoder` ("unset", "pcm", "adpcm" or "null") and `oddValue`, the odd
byte's value.  `Init` is `AdpcmOptimize`'s except that `out`, the caller's
vector, may already hold a byte.

| Code | Action |
|---|---|
| `create` (lines 39-50) | `Create`: any name of `Names`, lower-cased by `Lowered` |
| `PCMEncoder::encode` (52-56) | `PcmEncode`: `out \o InputBytes` |
| `ADPCMEncoder::encode` (58-64) | `AdpcmEncode`: a step of `AdpcmOptimize` |

`::tolower` is called with each char as an int; a char of 0x80 or more is
negative, which `::tolower` leaves undefined.  glibc's table covers
-128..-1, and in a Latin-1 locale maps 0xC0..0xDE to 0xE0..0xFE, so
`tolower(c)` is a choice between the two for those chars.  A "null"
encoder has no step: the caller reports the name as not found.

* `DispatchFollowsSpec`: the encoder returned is the spec's (§6: ASCII
  case-insensitive "pcm", "adpcm" or empty) for the name given, whatever
  `::tolower` did with a high char.
* `AdpcmOutputLayout`: when ADPCM encode is done, `out` is the 3-byte
  header and `(samples + 1) / 2` body bytes, whatever it held before, and
  the header is (0, 0, 0) for an input under 4 bytes, the empty input
  (where `encodeWithIC` takes `&in[0]`) included.
* `PcmOutputIsInput`: when PCM encode is done, `out` is the input bytes
  (spec §2 and §4.4).

Runs:
* `audio_encoder` (`MCAudioEncoder.cfg`, pass): `DispatchFollowsSpec` and
  `AdpcmOutputLayout`, for names in three cases, the empty name, "pc",
  "pcmx", and names with the char 0xC3; inputs of up to 2 samples from
  {-20, 33}, with and without an odd byte; `out` empty or holding a byte.
* `audio_pcm_appends` (`MCAudioEncoderPcm.cfg`, violation):
  `PcmOutputIsInput` fails: PCM appends to a non-empty `out` (see
  findings).

### UICoordinator

The coordinator's state (`avbCube`, `savedVBuf`, `uiConnected`, and
`stippling` for `SysTime::ticks() < stippleDeadline`) and the shared
`CubeSlots` state it uses (`sysConnected`, `vramPaused`, `sendStipple`, and
each cube's video buffer `vbuf`).  Video buffers are values: `NULL`, `AVB`
(the coordinator's `avb.vbuf`) and `AppBuf(c)`, the game's buffer of cube
c.  The ghost `appVBuf` records the buffer each game had when the UI took
over.  `flags` is each buffer's `SYSVideoBuffer` and VRAM flags, reduced to
the toggle bit (`FlagValues` = {0, 1}); the rest of the flags travels with
it.  The history variable `cubeFlag` is the toggle bit as each cube last
saw it: it flips with `ToggleFlags(c)` and is set by `Attached` when the
cube had no buffer.  The client may call any operation at any time with any non-empty
cube vector; an empty vector returns at once and changes nothing.  An
operation that waits in `idle()` is split in two:

| Code | Actions |
|---|---|
| `stippleCubes` | `stippleCubes(cv)` (pause, queue); `StippleSent` (the wait ends; deadline set) |
| `restoreCubes` | `restoreCubes(cv)` (cancel stipple, detach if attached in cv); `Restored` (after the deadline: unpause) |
| `attachToCube` | `attachToCube(id)` (detach); `Attached` (after the deadline: avb takes the cube's flags, save the buffer, attach avb, unpause) |
| `pollForAttach` | `pollForAttach` (detach from a vanished cube; attach to `CLZ(uiConnected)`) |
| `connectCubes`, `detach` | `connectCubes`, `Detach` (`detach` writes avb's flags back to the saved buffer) |

The environment stands for code outside the repository (`CubeSlots`, the
radio, `SysTime`): `RadioSendStipple(c)` clears the bit of a connected cube,
`CubeConnects(c)` and `CubeDisconnects(c)` change `sysConnected`,
`ToggleFlags(c)` flips the toggle bit of the buffer on a connected cube
(painting and stipple packets do), and `DeadlinePasses` ends the 200 ms
stipple window.  `finishCubes`, `refreshCubes` and `paintCubes` wait for
or redraw VRAM contents, which the model leaves out; what `VRAM::init`
leaves in avb's flags is a free choice, used only when the cube has no
buffer to copy them from.

* `CubesKeepOwnBuffer`: every cube but the attached one has its game's
  buffer, and `savedVBuf` is the attached cube's game buffer.
* `OperationsReturn` (liveness): every operation that waits in `idle()`
  returns.
* `FlagsFollowCube`: the buffer each cube shows carries `cubeFlag`, the
  toggle bit the cube last saw.  This holds across any sequence of
  `Attached`, `detach`, `restoreCubes` and `pollForAttach` swaps, with the
  bit flipping while avb was attached (the "smoothest transition" comment
  of `attachToCube`).
* The 200 ms wait before VRAM updates resume is not stated as a property:
  the deadline guard of `Restored` and `Attached` is all there is to it.
* `StippleOnlyWhilePaused`: a queued stipple is only on a paused cube, as
  `restoreCubes` ensures by cancelling the stipple before it unpauses.

Runs, with cubes {0, 1}, each connected or not at the start and each with
or without a game buffer:
* `ui_coordinator` (`MCUICoordinator.cfg`, pass): `TypeOK`,
  `CubesKeepOwnBuffer`, `FlagsFollowCube`, `OperationsReturn`.  About
  289,000 states.  Two cubes are enough for one cube to be attached
  while another is stippled, restored or disconnects, and for cubes to
  take turns being connected.
* `ui_stipple_after_attach` (`MCUICoordinatorStipple.cfg`, violation):
  `StippleOnlyWhilePaused` (see findings).

### Fairness

The codec modules model sequential code that runs to completion; `Spec`
carries `WF_vars(Next)`, which is what a single thread that is never
preempted forever provides.  These runs check only invariants (termination of `encodeTiles` is
stated as the safety property `LoopMatchesNumBlocks`), and set
`CHECK_DEADLOCK FALSE` because the encoder returns: the final state, with
nothing left to encode, is the function's return.

`UICoordinator` checks deadlock (the client can always call
`connectCubes`) and has a liveness property.  Its fairness:
* `WF` for `DeadlinePasses`: the clock runs.
* `SF` for `RadioSendStipple(c)`: the radio sends a queued packet to a
  cube that is connected infinitely often.  Weak fairness is not enough.
  With two cubes taking turns, some queued cube is always connected, so
  the wait never ends, while neither cube's packet is ever continuously
  sendable.
* `SF` for `StippleSent`: the loop re-checks its condition after every
  `idle()`, so it exits if the condition holds infinitely often.
* `WF` for `Restored` and `Attached`: once the deadline has passed it stays
  passed until the coordinator itself stipples again.
* The client and the cubes' comings and goings are not fair.

## 4. Mutants

Each property has a mutant in `PROJECT.json`: an operator beside the
definition it replaces, written the way a plausible bug in that code would
be.  Examples:

* DUB: a REF counted from the oldest entry; a REF scan starting one entry
  late; a run counter starting at 1; a
  missing flush after a code; an offset kept as unsigned int instead of
  uint16_t; the 8-bit next word taken as (i + 1) / 2; a block row stepped by the block's width instead
  of the asset's; x not reset at the end of a row; a block count rounded
  down; the 8-bit index without its pad byte; the 8-bit index size
  rounded as (s + 2) / 2, `packIndex`'s next-word formula.
* ADPCM: C division instead of the arithmetic shift; a new sample not
  saturated to int16; the index scan starting at 1, or running up to
  `INDEX_MAX` inclusive; bestIndex not restored after the
  scan; the sample not restored after the two sample tries; a climb that
  accepts an equal error; a climb that breaks where the code continues
  (this breaks the refinement: the header is not a local optimum).
* Encoder dispatch: the empty name not taken as ADPCM; `encodeWithIC`
  without its `out.resize(0)`.
* UI coordinator: `attachToCube` without its `detach()`; the stipple wait ignoring `sysConnected`;
  `pollForAttach` without its `uiConnected` test, which makes `CLZ(0)` = 32
  the cube ID; `detach` without writing avb's flags back.

TLC finds each property violated with its mutant in place.

## 5. Findings

* `audioencoder.cpp:106`: the index scan runs while
  `state.index < INDEX_MAX`, so index 88 is never scored.  The spec says
  the scan covers [0, 88].  TLC finds an input where 88 is strictly best:
  `<<-32768, 32760>>` or `<<32760, -32768>>`.
  The hill climb's `index + 1` move can still reach 88 afterwards.
* `audioencoder.cpp:128`: if `State::sample` is an `int`, the hill climb
  can leave the int16 range.  The header then stores the low 16 bits, and
  the device decodes the stream from a different predictor than the one
  it was encoded from.  With an `int16_t` field the value wraps
  consistently.
* `dubencoder.cpp:263`: a REF code is 1 + 4k bits and a DELTA code 2 + 4k
  bits, so "REF wins ties" never decides anything.
* `audioencoder.cpp:55`: `PCMEncoder::encode` appends the input to
  `out`, while `ADPCMEncoder::encode` first empties it.  The spec calls
  each encoder a pure function from an input buffer to an output buffer,
  with PCM emitting the input unchanged.  TLC's trace: `out` holds a byte,
  `create("PCM")`, encode of the empty input; the byte stays.
* `ui_coordinator.cpp:159`: `attachToCube` resumes VRAM updates without
  cancelling a stipple queued for the cube; `restoreCubes` cancels first
  ("just in case it's still queued").  A stipple stays queued when its
  cube was disconnected during the `stippleCubes` wait, because that wait
  ends once no queued cube is connected.  TLC's trace: `stippleCubes({0})`
  with cube 0 disconnected, then `attachToCube(0)`.  The cube then runs
  the UI with a stipple queued, which the radio sends if it comes back.
  What `CubeSlots` does with `sendStipple` on reconnection is outside the
  repository.

## 6. Not modelled

* `ELFMainMenuItem`: the header declares the class.  Its only inline
  code is four getters (`getVolume`, `getCubeRange`, `firstRunPresent`,
  `isFirstRun`).  They read fields that `init` and `findGames` set, and
  both are defined outside the repository.  There is no state change to
  model.
* `DUBEncoder::getTileCount`, `getRatio` and `logStats`: a float ratio
  formatted into a log line.  Nothing in the output depends on it.  For
  an asset of zero frames, `getRatio` divides by a tile count of 0 and
  prints NaN (listed as a hazard).  The zero-frame encoding itself is
  checked (`EmptyAssetEncodesEmpty`).
* `UICoordinator` VRAM pokes (`setPanX`, `setPanY`, `letterboxWindow`,
  `setMode`, `drawTiles`): they write bytes of avb's VRAM, which
  `VRAM::init` (outside the repository) resets on every attach, so the
  model would have to guess what the bytes are after an attach; and each
  byte multiplies the UI coordinator's state space.  `letterboxWindow`
  computes `(128 - height) >> 1` unsigned, so a height over 128 gives a
  first line near 255; no caller is in the repository (listed as a
  hazard).  `paint`, `finish` and `isTouching` only wait for painting or
  read the touch state.  The values these helpers write are also out of
  reach.  `umod`, `_SYS_TILE77`, `_SYS_VRAM_BG0_WIDTH` and `VRAM::pokeb`
  are defined outside the repository, so no pan, tile or window byte can
  be translated from the source.  The component is therefore partly
  modelled.
* `CubeSlots`, the radio and `SysTime`: outside the repository; the model
  has only the environment steps the coordinator's code relies on.
