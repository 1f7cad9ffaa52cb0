CONSTANTS
    t1 = t1
    t2 = t2
    Threads = {t1, t2}
    Rows <- MCRows
    NumClusters = 3
    ClusterOf <- MCClusterOf
    Dist <- MCDist
    K = 2
    Exact = TRUE
    VectorSize = 1
    Filters <- MCFilters
    NProbes = {0, 1, 2}

SPECIFICATION Spec
PROPERTIES
    NotPrunedUntilFull
CHECK_DEADLOCK FALSE
