CONSTANTS
    Dimensions <- MCDimensions
    ClusterSizes = {1, 3}
    DIMENSIONS_FETCHING_SIZES <- MCFetchingSizes

SPECIFICATION Spec
INVARIANTS
    TypeOK
    SplitIntoBlocks
    ReadWhereStored
    MergedWithAllDimensions
    StoreFillsBuffer
PROPERTIES
    NoDimensionTwice
CHECK_DEADLOCK FALSE
