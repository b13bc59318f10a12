CONSTANTS
    Samples <- MCSamples
    MaxSamples = 2
    PrefixSamples = 1
    StateSampleInt16 = TRUE
    Names <- MCNames
    OddByteValues = {86}
    PriorOuts <- MCPriorOuts
SPECIFICATION Spec
INVARIANT PcmOutputIsInput
CHECK_DEADLOCK FALSE
