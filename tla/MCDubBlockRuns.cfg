CONSTANTS
    Tiles = {0, 1}
    BlockTiles = 12
SPECIFICATION Spec
INVARIANT RoundTrip
INVARIANT BestCodeIsShortest
CHECK_DEADLOCK FALSE
