CONSTANTS
    Samples <- MCSamples
    MaxSamples = 3
    PrefixSamples = 2
    StateSampleInt16 = TRUE
SPECIFICATION Spec
INVARIANTS  ErrorMatchesState HeaderIsSearchedIC
PROPERTIES ScanPicksEarliestBest ClimbNeverRevisits ImplementsAdpcmEncodeSpec
CHECK_DEADLOCK FALSE
