CONSTANTS
    Cubes <- MCCubes
    NoCube = NoCube
    NULL = NULL
    AVB = AVB
SPECIFICATION Spec
INVARIANTS
    TypeOK
    CubesKeepOwnBuffer
    FlagsFollowCube
PROPERTIES
    OperationsReturn
