CONSTANTS
    g1 = g1
    g2 = g2
    g3 = g3
    RowGroups = {g1, g2, g3}
    Rows <- MCRows
    NumClusters = 2
    RowGroupOf <- MCRowGroupOf
    ClusterOf <- MCClusterOf
    Dist <- MCDist
    Tolerance <- MCTolerance
    K = 3
    VectorSize = 2
    NProbes = {0, 1, 3}

SPECIFICATION FairSpec
INVARIANTS
    TypeOK
    NoLostWakeup
    ResultIsThere
    NearestOfProbed
PROPERTIES
    ImplementsKNNQuery
CHECK_DEADLOCK FALSE
