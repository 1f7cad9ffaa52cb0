CONSTANTS
    t1 = t1
    t2 = t2
    Threads = {t1, t2}
    RowGroupSize = 3
    VectorSize = 2
    TableSizes = {1, 3, 4, 8}
    NullSets <- MCNullSets
    SmallTable = 2
    QuarterRowGroup = 4
    FewClusters = 2
    ManyClusters = 3
    MaxGlobalRows = 4

SPECIFICATION Spec
SYMMETRY MCSymmetry
INVARIANTS
    TypeOK
    AddedComplete
    AlignedWithoutNulls
    EvaluatorFindsIndexedRows
    CrashesOnlyOnNulls
    EnoughEmbeddingsToCluster
PROPERTIES
    SetUpOnce
CHECK_DEADLOCK FALSE
