CONSTANTS
    Samples <- MCEdgeSamples
    MaxSamples = 2
    PrefixSamples = 2
    StateSampleInt16 = FALSE
SPECIFICATION Spec
INVARIANTS HeaderIsSearchedIC
CHECK_DEADLOCK FALSE
