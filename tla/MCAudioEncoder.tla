--------------------------- MODULE MCAudioEncoder ---------------------------
(* Model-checking instance of AudioEncoder: names in several cases, the   *)
(* empty name, near misses, and names with a char of 0xC0 and more.       *)
EXTENDS AudioEncoder

MCSamples == {-20, 33}

\* "pcm", "PCM", "Pcm", "adpcm", "ADPCM", "AdPcM", "", "pc", "pcmx",
\* "adpcM" with a trailing 0xC3 (signed -61), and 0xC3 followed by "cm".
MCNames == {
    << 112, 99, 109 >>, << 80, 67, 77 >>, << 80, 99, 109 >>,
    << 97, 100, 112, 99, 109 >>, << 65, 68, 80, 67, 77 >>, << 65, 100, 80, 99, 77 >>,
    << >>, << 112, 99 >>, << 112, 99, 109, 120 >>,
    << 97, 100, 112, 99, 77, -61 >>, << -61, 99, 109 >> }

\* Before encode, out is empty or still holds an earlier stream's byte.
MCPriorOuts == { << >>, << 7 >> }

=============================================================================
