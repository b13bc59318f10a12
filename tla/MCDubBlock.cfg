CONSTANTS
    Tiles <- MCTiles
    BlockTiles = 6
SPECIFICATION Spec
INVARIANT TypeOK
INVARIANT RoundTrip
INVARIANT BestCodeIsShortest
CHECK_DEADLOCK FALSE
