CONSTANTS
    g1 = g1
    g2 = g2
    g3 = g3
    c1 = c1
    c2 = c2
    InitElement = InitElement
    NoSearcher = NoSearcher
    RowGroups = {g1, g2, g3}
    Clusters = {c1, c2}
    Rows <- MCRows
    RowGroupOf <- MCRowGroupOf
    ClusterOf <- MCClusterOf
    K = 2
    NumVertical = 2
    NumHorizontal = 1
    HDimSize = 1
    WarmupStops = {1}
    Quantization = "F32"
    Unit <- MCUnitF32
    VerticalDist <- MCVerticalDist
    HorizontalDist <- MCHorizontalDist
    Ratio <- LossyRatio
    RatioUnit = 2
    SelectivityNum = 1
    SelectivityDen = 2
    MaxDist = 100
    MaxPartialDist = 100
    NProbe = 1
    FollowUpProbes = 1
    Filters <- MCFilters
    MaxQueries = 2

SPECIFICATION FairSpec
INVARIANTS
    NothingLostBeforeFull
    ResultCount
PROPERTIES
    SearchReturns
CHECK_DEADLOCK FALSE
