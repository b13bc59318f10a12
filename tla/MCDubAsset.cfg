CONSTANTS
    Dims <- MCDims
    FrameCounts = {0, 1}
    BLOCK_SIZE = 2
    Tiles = {0, 1}
SPECIFICATION Spec
INVARIANTS TypeOK AssetRoundTrip LoopMatchesNumBlocks ResultMatchesReport EmptyAssetEncodesEmpty
CHECK_DEADLOCK FALSE
