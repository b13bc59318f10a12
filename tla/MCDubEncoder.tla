---------------------------- MODULE MCDubEncoder ----------------------------
(* Model-checking instance of DubEncoder.  Payload lengths are chosen so   *)
(* that 8-bit entries land on both sides of 256 (offsets 254..256 with one *)
(* or two index words), and so that the block data lands on both sides of *)
(* the 65536-word limit.                                                   *)
EXTENDS DubEncoder

MCPayloads == {"p1", "p127", "p128", "pBig"}

MCPayloadLen(p) ==
    CASE p = "p1"   -> 1
      [] p = "p127" -> 127
      [] p = "p128" -> 128
      [] p = "pBig" -> 65281

=============================================================================
