------------------------------- MODULE Layout -------------------------------
(***************************************************************************)
(* Where a cluster keeps the values of its vectors, and in which order the  *)
(* search reads them.  Of the dimensions some are vertical, stored          *)
(* dimension by dimension (in groups of four when quantized), the others    *)
(* horizontal, in blocks of 64 for each vector.  The searcher reads         *)
(* vertical blocks of growing size, then horizontal blocks, then what is    *)
(* left of the vertical ones.  The behaviours follow one vector of a        *)
(* cluster; what the values are does not matter, only where they are.       *)
(***************************************************************************)
EXTENDS Integers, Sequences

CONSTANTS
    Dimensions,                 \* numbers of dimensions
    ClusterSizes,               \* numbers of vectors of a cluster
    DIMENSIONS_FETCHING_SIZES

VARIABLES
    num_dimensions,
    quantization,
    n_vectors,
    vector_idx,                 \* the vector that is followed
    phase,
    cur_subgrouping_size_idx,
    current_dimension_idx, current_vertical_dimension, current_horizontal_dimension,
    read,                       \* dimensions whose values have been added to the distance, ...
    lastRead                    \* ... and, in the last step, with the addresses they were read at

cluster == <<num_dimensions, quantization, n_vectors, vector_idx>>
counters == <<current_dimension_idx, current_vertical_dimension, current_horizontal_dimension>>
vars == <<cluster, phase, cur_subgrouping_size_idx, counters, read, lastRead>>

H_DIM_SIZE == 64
U8_INTERLEAVE_SIZE == 4

Least(a, b) == IF a <= b THEN a ELSE b

-----------------------------------------------------------------------------
(* GetPDXDimensionSplit.                                                    *)

HorizontalShare(d) == IF d <= 128 THEN d \div 4 ELSE (3 * d) \div 4

\* Mutant: up to the next block, never down.
RoundUpToBlock(h) == ((h + H_DIM_SIZE - 1) \div H_DIM_SIZE) * H_DIM_SIZE

RoundToBlock(h) == ((h + H_DIM_SIZE \div 2) \div H_DIM_SIZE) * H_DIM_SIZE

HorizontalDimensions(d) ==
    LET rounded == RoundToBlock(HorizontalShare(d))
    IN  IF d <= H_DIM_SIZE THEN 0 ELSE IF rounded = d THEN H_DIM_SIZE ELSE rounded

VerticalDimensions(d) == d - HorizontalDimensions(d)

num_horizontal_dimensions == HorizontalDimensions(num_dimensions)
num_vertical_dimensions == VerticalDimensions(num_dimensions)

-----------------------------------------------------------------------------
(* StoreClusterEmbeddings: where the value of vector v in dimension d goes. *)

\* Mutant: groups at the end of the vertical dimensions are as wide as any other.
WidthAlwaysFull(group) == U8_INTERLEAVE_SIZE

GroupWidth(group) == Least(U8_INTERLEAVE_SIZE, num_vertical_dimensions - group)

StoredVertically(v, d) ==
    IF quantization = "F32"
    THEN d * n_vectors + v
    ELSE LET group == (d \div U8_INTERLEAVE_SIZE) * U8_INTERLEAVE_SIZE
         IN  group * n_vectors + v * GroupWidth(group) + (d - group)

StoredHorizontally(v, h) ==
    LET block == (h \div H_DIM_SIZE) * H_DIM_SIZE
    IN  (num_vertical_dimensions + block) * n_vectors + v * H_DIM_SIZE + (h - block)

StoredAt(v, d) ==
    IF d < num_vertical_dimensions
    THEN StoredVertically(v, d)
    ELSE StoredHorizontally(v, d - num_vertical_dimensions)

-----------------------------------------------------------------------------
(* Vertical and Horizontal of ScalarComputer: which dimensions of the       *)
(* vector are read where.                                                   *)

\* Groups of four from the first dimension on, and a narrower one before the last.
U8Address(first, last, d) ==
    LET group == first + ((d - first) \div U8_INTERLEAVE_SIZE) * U8_INTERLEAVE_SIZE
    IN  group * n_vectors + vector_idx * Least(U8_INTERLEAVE_SIZE, last - group) + (d - group)

Vertical(first, last) ==
    {<<d, IF quantization = "F32" THEN d * n_vectors + vector_idx ELSE U8Address(first, last, d)>> :
        d \in first .. last - 1}

\* Mutant: the place of the vector is that of a block as wide as all horizontal dimensions.
HorizontalByRow(h) ==
    {<<num_vertical_dimensions + h + i,
       num_vertical_dimensions * n_vectors + h + vector_idx * num_horizontal_dimensions + i>> :
        i \in 0 .. H_DIM_SIZE - 1}

Horizontal(h) ==
    {<<num_vertical_dimensions + h + i,
       num_vertical_dimensions * n_vectors + h * n_vectors + vector_idx * H_DIM_SIZE + i>> :
        i \in 0 .. H_DIM_SIZE - 1}

Read(values) ==
    /\ lastRead' = values
    /\ read' = read \cup {x[1] : x \in values}

-----------------------------------------------------------------------------
Init ==
    /\ num_dimensions \in Dimensions
    /\ quantization \in {"F32", "U8"}
    /\ n_vectors \in ClusterSizes
    /\ vector_idx \in 0 .. n_vectors - 1
    /\ phase = "warmup"
    /\ cur_subgrouping_size_idx = 0
    /\ current_dimension_idx = 0
    /\ current_vertical_dimension = 0 /\ current_horizontal_dimension = 0
    /\ read = {} /\ lastRead = {}

\* Warmup reads the next vertical dimensions of every vector.
Warmup ==
    /\ phase = "warmup"
    /\ current_dimension_idx < num_vertical_dimensions
    /\ LET last == Least(current_dimension_idx
                           + DIMENSIONS_FETCHING_SIZES[cur_subgrouping_size_idx + 1],
                         num_vertical_dimensions)
       IN  /\ Read(Vertical(current_dimension_idx, last))
           /\ current_dimension_idx' = last
    /\ cur_subgrouping_size_idx' = cur_subgrouping_size_idx + 1
    /\ UNCHANGED <<cluster, phase, current_vertical_dimension, current_horizontal_dimension>>

\* Mutant: the vertical dimensions are begun again.
LeaveWarmupStartsOver ==
    /\ phase = "warmup"
    /\ phase' = "prune"
    /\ current_vertical_dimension' = 0
    /\ current_horizontal_dimension' = 0
    /\ UNCHANGED <<cluster, cur_subgrouping_size_idx, current_dimension_idx, read, lastRead>>

\* Enough vectors can be pruned, too few pass a predicate, or no vertical dimension is left.
LeaveWarmup ==
    /\ phase = "warmup"
    /\ phase' = "prune"
    /\ current_vertical_dimension' = current_dimension_idx
    /\ current_horizontal_dimension' = 0
    /\ UNCHANGED <<cluster, cur_subgrouping_size_idx, current_dimension_idx, read, lastRead>>

PruneHorizontal ==
    /\ phase = "prune"
    /\ current_horizontal_dimension < num_horizontal_dimensions
    /\ Read(Horizontal(current_horizontal_dimension))
    /\ current_horizontal_dimension' = current_horizontal_dimension + H_DIM_SIZE
    /\ current_dimension_idx' = current_dimension_idx + H_DIM_SIZE
    /\ UNCHANGED <<cluster, phase, cur_subgrouping_size_idx, current_vertical_dimension>>

\* Mutant: a step is taken for a whole block though the last one may be shorter.
NextVerticalOvershoots == current_vertical_dimension + H_DIM_SIZE

NextVertical == Least(current_vertical_dimension + H_DIM_SIZE, num_vertical_dimensions)

PruneVertical ==
    /\ phase = "prune"
    /\ current_horizontal_dimension >= num_horizontal_dimensions
    /\ current_vertical_dimension < num_vertical_dimensions
    /\ Read(Vertical(current_vertical_dimension, NextVertical))
    /\ current_dimension_idx' = Least(current_dimension_idx + H_DIM_SIZE, num_dimensions)
    /\ current_vertical_dimension' = NextVertical
    /\ phase' = IF current_dimension_idx' = num_dimensions THEN "merge" ELSE phase
    /\ UNCHANGED <<cluster, cur_subgrouping_size_idx, current_horizontal_dimension>>

LeavePrune ==
    /\ phase = "prune"
    /\ current_horizontal_dimension >= num_horizontal_dimensions
    /\ current_vertical_dimension >= num_vertical_dimensions
    /\ phase' = "merge"
    /\ UNCHANGED <<cluster, cur_subgrouping_size_idx, counters, read, lastRead>>

\* The vector's distance has reached the threshold.
Pruned ==
    /\ phase = "prune"
    /\ phase' = "pruned"
    /\ UNCHANGED <<cluster, cur_subgrouping_size_idx, counters, read, lastRead>>

Next ==
    \/ Warmup \/ LeaveWarmup
    \/ PruneHorizontal \/ PruneVertical \/ LeavePrune
    \/ Pruned

Spec == Init /\ [][Next]_vars

-----------------------------------------------------------------------------
(* Properties.                                                              *)

\* The counters keep their ranges, and there is a fetching size for every vertical block.
TypeOK ==
    /\ num_dimensions \in Dimensions /\ quantization \in {"F32", "U8"}
    /\ n_vectors \in ClusterSizes /\ vector_idx \in 0 .. n_vectors - 1
    /\ phase \in {"warmup", "prune", "merge", "pruned"}
    /\ cur_subgrouping_size_idx \in 0 .. Len(DIMENSIONS_FETCHING_SIZES)
    /\ current_dimension_idx \in 0 .. num_dimensions
    /\ current_vertical_dimension \in 0 .. num_vertical_dimensions
    /\ current_horizontal_dimension \in 0 .. num_horizontal_dimensions
    /\ read \subseteq 0 .. num_dimensions - 1
    /\ lastRead \subseteq (0 .. num_dimensions - 1) \X Nat

\* The two parts make up all dimensions, there is a vertical one, and the horizontal ones fill
\* their blocks: what GetPDXDimensionSplit asserts, and what the loops over blocks rely on.
GoodSplit(d) ==
    /\ HorizontalDimensions(d) + VerticalDimensions(d) = d
    /\ HorizontalDimensions(d) \in 0 .. d - 1
    /\ HorizontalDimensions(d) % H_DIM_SIZE = 0

SplitIntoBlocks == GoodSplit(num_dimensions)

\* Whichever vertical groups are read, and however short the last of them is, each value is read
\* at the address it was stored at.
ReadWhereStored == \A x \in lastRead : x[2] = StoredAt(vector_idx, x[1])

\* Wherever the warmup stopped, a vector that is merged has had each dimension counted ...
MergedWithAllDimensions == phase = "merge" => read = 0 .. num_dimensions - 1

\* ... and no step that moves on counts a dimension again.
NoDimensionTwice ==
    [][current_dimension_idx' # current_dimension_idx
           => \A x \in lastRead' : x[1] \notin read]_vars

\* Values of two vectors or dimensions do not share an address, and fill the cluster's buffer.
StoreFillsBuffer ==
    phase = "merge" =>
        {StoredAt(v, d) : v \in 0 .. n_vectors - 1, d \in 0 .. num_dimensions - 1}
            = 0 .. num_dimensions * n_vectors - 1

-----------------------------------------------------------------------------
ASSUME LayoutAssumption ==
    /\ Dimensions \subseteq Nat \ {0}
    /\ ClusterSizes \subseteq Nat \ {0}
    /\ DIMENSIONS_FETCHING_SIZES \in Seq(Nat \ {0}) /\ Len(DIMENSIONS_FETCHING_SIZES) > 0
    \* The last one is PDX_MAX_DIMS, above which index creation refuses a column.
    /\ \A d \in Dimensions : d <= DIMENSIONS_FETCHING_SIZES[Len(DIMENSIONS_FETCHING_SIZES)]

\* static_assert at DIMENSIONS_FETCHING_SIZES.
ASSUME AllFetchingSizesMultipleOfU8InterleaveSize ==
    \A i \in DOMAIN DIMENSIONS_FETCHING_SIZES : DIMENSIONS_FETCHING_SIZES[i] % U8_INTERLEAVE_SIZE = 0

=============================================================================
