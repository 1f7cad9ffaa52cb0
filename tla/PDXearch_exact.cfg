CONSTANTS
    g1 = g1
    g2 = g2
    g3 = g3
    c1 = c1
    c2 = c2
    InitElement = InitElement
    NoSearcher = NoSearcher
    RowGroups = {g1, g2, g3}
    Clusters = {c1, c2}
    Rows <- MCRows
    RowGroupOf <- MCRowGroupOf
    ClusterOf <- MCClusterOf
    K = 2
    NumVertical = 2
    NumHorizontal = 1
    HDimSize = 1
    WarmupStops = {1}
    Quantization = "U8"
    Unit <- MCUnit
    VerticalDist <- MCVerticalDist
    HorizontalDist <- MCHorizontalDist
    Ratio <- ExactRatio
    RatioUnit = 2
    SelectivityNum = 1
    SelectivityDen = 2
    MaxDist = 1000
    MaxPartialDist = 100
    NProbe = 1
    FollowUpProbes = 1
    Filters <- MCFilters
    MaxQueries = 2

SPECIFICATION Spec
INVARIANTS
    TypeOK
    OnlyConsidered
    NoDuplicates
    DimensionsAgree
PROPERTIES
    ThresholdTightens
    ImplementsBestK
CHECK_DEADLOCK FALSE
