CONSTANTS
    IntMax = 2147483647
    ColumnType <- MCColumnType
    Rows = {1, 2, 3, 4}
    Embedding <- MCEmbedding
    Exact = TRUE
    PDX_MAX_DIMS = 16384
    CreateOptions <- MCCreateOptions
    Settings <- MCSettings
    Queries <- MCQueries
    MaxIndexes = 2

SPECIFICATION Spec
INVARIANTS
    OffsetKept
