CONSTANTS
    t1 = t1
    t2 = t2
    Threads = {t1, t2}
    Rows <- MCRows
    NumRowGroups = 3
    NumClusters = 3
    RowGroupOf <- MCRowGroupOf
    ClusterOf <- MCClusterOf
    Dist <- MCDist
    Tolerance <- MCTolerance
    K = 2
    FollowUp = 2
    VectorSize = 1
    Filters <- MCFilters
    NProbes = {0, 1, 2}

SPECIFICATION FairSpec
INVARIANTS
    TypeOK
    AssertionsHold
    EveryRowGroupListedOnce
    OnlySelected
    ExactWhenAllClustersProbed
PROPERTIES
    ImplementsKNNQuery
CHECK_DEADLOCK FALSE
