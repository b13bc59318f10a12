CONSTANTS
    Samples <- MCEdgeSamples
    MaxSamples = 2
    PrefixSamples = 2
    StateSampleInt16 = TRUE
SPECIFICATION Spec
PROPERTIES ScanFindsBestIndex
CHECK_DEADLOCK FALSE
