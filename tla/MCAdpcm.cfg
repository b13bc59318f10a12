CONSTANTS
    Samples <- MCSamples
    NumSamples = 5
    ICSamples <- MCICSamples
    ICIndexes <- MCICIndexes
SPECIFICATION Spec
INVARIANT TypeOK
INVARIANT DecoderTracksEncoder
CHECK_DEADLOCK FALSE
