--------------------------- MODULE Layout_proofs ---------------------------
(***************************************************************************)
(* Theorems about Layout, for every number of dimensions, every size of a   *)
(* cluster and all fetching sizes that are multiples of four.               *)
(***************************************************************************)
EXTENDS Layout, TLAPS

\* The split of every number of dimensions is good (GetPDXDimensionSplit).
THEOREM SplitOfEveryDimension == \A d \in Nat \ {0} : GoodSplit(d)
<1> TAKE d \in Nat \ {0}
<1> DEFINE r == RoundToBlock(HorizontalShare(d))
<1>1. r \in Nat /\ r % 64 = 0
  BY DEF RoundToBlock, HorizontalShare, H_DIM_SIZE
<1>2. CASE d <= 64
  BY <1>2 DEF GoodSplit, HorizontalDimensions, VerticalDimensions, H_DIM_SIZE
<1>3. CASE d > 64
  <2>1. r <= d
    BY <1>3 DEF RoundToBlock, HorizontalShare, H_DIM_SIZE
  <2>2. HorizontalDimensions(d) = IF r = d THEN 64 ELSE r
    BY <1>3 DEF HorizontalDimensions, H_DIM_SIZE
  <2>3. HorizontalDimensions(d) \in 0 .. d - 1 /\ HorizontalDimensions(d) % 64 = 0
    <3> HIDE DEF r
    <3> QED BY <1>1, <1>3, <2>1, <2>2
  <2> QED BY <2>3 DEF GoodSplit, VerticalDimensions, H_DIM_SIZE
<1> QED BY <1>2, <1>3

-----------------------------------------------------------------------------
\* The counters keep their ranges, and vertical blocks begin at a group of four.
CountersOK ==
    /\ num_dimensions \in Dimensions /\ quantization \in {"F32", "U8"}
    /\ n_vectors \in ClusterSizes /\ vector_idx \in 0 .. n_vectors - 1
    /\ phase \in {"warmup", "prune", "merge", "pruned"}
    /\ cur_subgrouping_size_idx \in 0 .. Len(DIMENSIONS_FETCHING_SIZES)
    /\ current_dimension_idx \in 0 .. num_dimensions
    /\ current_vertical_dimension \in 0 .. num_vertical_dimensions
    /\ current_horizontal_dimension \in 0 .. num_horizontal_dimensions
    /\ current_horizontal_dimension % 64 = 0
    /\ phase = "warmup" =>
        /\ current_dimension_idx <= num_vertical_dimensions
        /\ current_dimension_idx % 4 = 0 \/ current_dimension_idx = num_vertical_dimensions
        /\ cur_subgrouping_size_idx = Len(DIMENSIONS_FETCHING_SIZES)
               => current_dimension_idx = num_vertical_dimensions
    /\ phase = "prune" =>
        /\ current_dimension_idx = current_vertical_dimension + current_horizontal_dimension
        /\ current_vertical_dimension % 4 = 0
               \/ current_vertical_dimension = num_vertical_dimensions

\* Which dimensions have been read follows from the counters.
ReadOK ==
    /\ read \subseteq 0 .. num_dimensions - 1
    /\ phase = "warmup" => read = 0 .. current_dimension_idx - 1
    /\ phase = "prune" =>
        read = (0 .. current_vertical_dimension - 1)
                 \cup (num_vertical_dimensions
                         .. num_vertical_dimensions + current_horizontal_dimension - 1)
    /\ phase = "merge" => read = 0 .. num_dimensions - 1

LastReadOK ==
    /\ ReadWhereStored
    /\ lastRead \subseteq (0 .. num_dimensions - 1) \X Nat

IInv == CountersOK /\ ReadOK /\ LastReadOK

\* What the split of the cluster's dimensions comes to.
LEMMA Split ==
    ASSUME num_dimensions \in Dimensions
    PROVE  /\ num_dimensions \in Nat \ {0}
           /\ num_horizontal_dimensions \in Nat /\ num_vertical_dimensions \in Nat \ {0}
           /\ num_horizontal_dimensions + num_vertical_dimensions = num_dimensions
           /\ num_horizontal_dimensions % 64 = 0
<1>1. num_dimensions \in Nat \ {0} /\ GoodSplit(num_dimensions)
  BY SplitOfEveryDimension, LayoutAssumption
<1> QED
  BY <1>1 DEF GoodSplit, num_horizontal_dimensions, num_vertical_dimensions, VerticalDimensions,
              H_DIM_SIZE

\* A group of four that is counted from a multiple of four is one counted from zero, and it is
\* narrow in the same place.
LEMMA SameGroup ==
    ASSUME NEW first \in Nat, NEW last \in Nat, NEW v \in Nat, NEW d \in first .. last - 1,
           first % 4 = 0, last % 4 = 0 \/ last = v, last <= v
    PROVE  /\ first + ((d - first) \div 4) * 4 = (d \div 4) * 4
           /\ Least(4, last - (d \div 4) * 4) = Least(4, v - (d \div 4) * 4)
<1>1. first + ((d - first) \div 4) * 4 = (d \div 4) * 4
  OBVIOUS
<1>2. CASE last = v
  BY <1>1, <1>2
<1>3. CASE last % 4 = 0
  <2>1. (d \div 4) * 4 + 4 <= last
    BY <1>3
  <2> QED BY <1>1, <2>1 DEF Least
<1> QED BY <1>2, <1>3

\* Vertical reads its dimensions where they are stored.
LEMMA VerticalReads ==
    ASSUME CountersOK, NEW first \in Nat, NEW last \in Nat,
           first % 4 = 0, last % 4 = 0 \/ last = num_vertical_dimensions,
           last <= num_vertical_dimensions
    PROVE  /\ \A x \in Vertical(first, last) : x[2] = StoredAt(vector_idx, x[1])
           /\ Vertical(first, last) \subseteq (0 .. num_dimensions - 1) \X Nat
           /\ {x[1] : x \in Vertical(first, last)} = first .. last - 1
<1> DEFINE A(d) == IF quantization = "F32" THEN d * n_vectors + vector_idx
                                           ELSE U8Address(first, last, d)
<1>1. /\ num_dimensions \in Nat \ {0} /\ num_vertical_dimensions \in Nat \ {0}
      /\ num_vertical_dimensions <= num_dimensions
      /\ n_vectors \in Nat \ {0} /\ vector_idx \in Nat
  BY Split, LayoutAssumption DEF CountersOK
<1>2. Vertical(first, last) = {<<d, A(d)>> : d \in first .. last - 1}
  BY DEF Vertical
<1>3. ASSUME NEW d \in first .. last - 1
      PROVE  A(d) = StoredAt(vector_idx, d) /\ A(d) \in Nat
  <2> DEFINE group == (d \div 4) * 4
  <2>1. d \in Nat /\ d < num_vertical_dimensions
    BY <1>1
  <2>2. StoredAt(vector_idx, d) = StoredVertically(vector_idx, d)
    BY <2>1 DEF StoredAt
  <2>3. CASE quantization = "F32"
    BY <1>1, <2>1, <2>2, <2>3 DEF StoredVertically
  <2>4. CASE quantization # "F32"
    <3> DEFINE V == num_vertical_dimensions
    <3>0. V \in Nat /\ (last % 4 = 0 \/ last = V) /\ last <= V
      BY <1>1
    <3>1. first + ((d - first) \div 4) * 4 = group
          /\ Least(4, last - group) = Least(4, V - group)
      <4> HIDE DEF V
      <4> QED BY SameGroup, <3>0
    <3>2. A(d) = group * n_vectors + vector_idx * Least(4, last - group) + (d - group)
      BY <2>4, <3>1 DEF U8Address, U8_INTERLEAVE_SIZE
    <3>3. StoredAt(vector_idx, d)
            = group * n_vectors + vector_idx * Least(4, num_vertical_dimensions - group) + (d - group)
      BY <2>2, <2>4 DEF StoredVertically, GroupWidth, U8_INTERLEAVE_SIZE
    <3>4. group \in Nat /\ d - group \in Nat /\ Least(4, last - group) \in Nat
      BY <2>1 DEF Least
    <3>5. A(d) \in Nat
      <4> HIDE DEF group, A
      <4> QED BY <1>1, <3>2, <3>4
    <3> QED BY <3>1, <3>2, <3>3, <3>5
  <2> QED BY <2>3, <2>4
<1> HIDE DEF A
<1>4. \A x \in Vertical(first, last) :
        x[2] = StoredAt(vector_idx, x[1]) /\ x \in (0 .. num_dimensions - 1) \X Nat
  BY <1>1, <1>2, <1>3
<1>5. {x[1] : x \in Vertical(first, last)} = first .. last - 1
  <2>1. ASSUME NEW d \in first .. last - 1
        PROVE  d \in {x[1] : x \in Vertical(first, last)}
    <3>1. <<d, A(d)>> \in Vertical(first, last) /\ <<d, A(d)>>[1] = d
      BY <1>2
    <3> QED BY <3>1
  <2>2. \A x \in Vertical(first, last) : x[1] \in first .. last - 1
    BY <1>2
  <2> QED BY <2>1, <2>2
<1> QED BY <1>4, <1>5

\* Horizontal reads its block where it is stored.
LEMMA HorizontalReads ==
    ASSUME CountersOK, NEW h \in Nat, h % 64 = 0, h < num_horizontal_dimensions
    PROVE  /\ \A x \in Horizontal(h) : x[2] = StoredAt(vector_idx, x[1])
           /\ Horizontal(h) \subseteq (0 .. num_dimensions - 1) \X Nat
           /\ {x[1] : x \in Horizontal(h)}
                = num_vertical_dimensions + h .. num_vertical_dimensions + h + 63
           /\ h + 64 <= num_horizontal_dimensions
<1> DEFINE V == num_vertical_dimensions
           A(i) == V * n_vectors + h * n_vectors + vector_idx * 64 + i
<1>1. /\ num_dimensions \in Nat \ {0} /\ V \in Nat \ {0}
      /\ V + num_horizontal_dimensions = num_dimensions
      /\ num_horizontal_dimensions \in Nat /\ num_horizontal_dimensions % 64 = 0
      /\ n_vectors \in Nat \ {0} /\ vector_idx \in Nat
  BY Split, LayoutAssumption DEF CountersOK
<1>2. h + 64 <= num_horizontal_dimensions
  BY <1>1
<1>3. Horizontal(h) = {<<V + h + i, A(i)>> : i \in 0 .. 63}
  BY DEF Horizontal, H_DIM_SIZE
<1>4. ASSUME NEW i \in 0 .. 63
      PROVE  /\ V + h + i \in 0 .. num_dimensions - 1
             /\ A(i) = StoredAt(vector_idx, V + h + i) /\ A(i) \in Nat
  <2> HIDE DEF V
  <2>1. V + h + i \in 0 .. num_dimensions - 1 /\ ~(V + h + i < V) /\ (V + h + i) - V = h + i
    BY <1>1, <1>2
  <2>2. ((h + i) \div 64) * 64 = h
    OBVIOUS
  <2>3. StoredAt(vector_idx, V + h + i) = StoredHorizontally(vector_idx, h + i)
    BY <2>1 DEF StoredAt, V
  <2>4. StoredHorizontally(vector_idx, h + i)
          = (V + h) * n_vectors + vector_idx * 64 + ((h + i) - h)
    BY <2>2 DEF StoredHorizontally, H_DIM_SIZE, V
  <2>5. (V + h) * n_vectors = V * n_vectors + h * n_vectors
        /\ V * n_vectors \in Nat /\ h * n_vectors \in Nat /\ vector_idx * 64 \in Nat
    BY <1>1
  <2> QED BY <2>1, <2>3, <2>4, <2>5
<1> HIDE DEF A, V
<1>5. \A x \in Horizontal(h) :
        x[2] = StoredAt(vector_idx, x[1]) /\ x \in (0 .. num_dimensions - 1) \X Nat
  BY <1>3, <1>4
<1>6. {x[1] : x \in Horizontal(h)} = {V + h + i : i \in 0 .. 63}
  <2>1. ASSUME NEW i \in 0 .. 63
        PROVE  V + h + i \in {x[1] : x \in Horizontal(h)}
    <3>1. <<V + h + i, A(i)>> \in Horizontal(h) /\ <<V + h + i, A(i)>>[1] = V + h + i
      BY <1>3
    <3> QED BY <3>1
  <2>2. \A x \in Horizontal(h) : \E i \in 0 .. 63 : x[1] = V + h + i
    BY <1>3
  <2> QED BY <2>1, <2>2
<1>7. {V + h + i : i \in 0 .. 63} = V + h .. V + h + 63
  <2>1. ASSUME NEW y \in V + h .. V + h + 63
        PROVE  y \in {V + h + i : i \in 0 .. 63}
    <3>1. y - (V + h) \in 0 .. 63 /\ y = V + h + (y - (V + h))
      BY <1>1
    <3> QED BY <3>1
  <2> QED BY <1>1, <2>1
<1> QED BY <1>2, <1>5, <1>6, <1>7 DEF V

-----------------------------------------------------------------------------
LEMMA InitIInv == Init => IInv
<1> SUFFICES ASSUME Init PROVE IInv
  OBVIOUS
<1>1. num_dimensions \in Dimensions
  BY DEF Init
<1>2. CountersOK
  BY <1>1, Split, LayoutAssumption DEF Init, CountersOK
<1>3. ReadOK
  BY <1>1, Split DEF Init, ReadOK
<1>4. LastReadOK
  BY DEF Init, LastReadOK, ReadWhereStored
<1> QED BY <1>2, <1>3, <1>4 DEF IInv

\* What the addresses depend on does not change.
LEMMA SameAddresses ==
    ASSUME UNCHANGED cluster
    PROVE  /\ \A v, d : StoredAt(v, d)' = StoredAt(v, d)
           /\ UNCHANGED <<num_dimensions, quantization, n_vectors, vector_idx,
                          num_horizontal_dimensions, num_vertical_dimensions>>
  BY DEF cluster, StoredAt, StoredVertically, StoredHorizontally, GroupWidth,
         num_horizontal_dimensions, num_vertical_dimensions

\* A step that reads where the values are stored keeps LastReadOK.
LEMMA ReadStep ==
    ASSUME UNCHANGED cluster, NEW values, Read(values),
           \A x \in values : x[2] = StoredAt(vector_idx, x[1]),
           values \subseteq (0 .. num_dimensions - 1) \X Nat
    PROVE  LastReadOK'
  BY SameAddresses DEF Read, LastReadOK, ReadWhereStored

LEMMA NextIInv == IInv /\ [Next]_vars => IInv'
<1> SUFFICES ASSUME IInv, [Next]_vars PROVE IInv'
  OBVIOUS
<1> DEFINE V == num_vertical_dimensions
           H == num_horizontal_dimensions
<1>0. CountersOK /\ ReadOK /\ LastReadOK
  BY DEF IInv
<1>s. /\ num_dimensions \in Nat \ {0} /\ H \in Nat /\ V \in Nat \ {0}
      /\ H + V = num_dimensions /\ H % 64 = 0
  BY <1>0, Split DEF CountersOK
<1>c. UNCHANGED cluster
  BY DEF Next, vars, Warmup, LeaveWarmup, PruneHorizontal, PruneVertical, LeavePrune, Pruned
<1>u. UNCHANGED <<num_dimensions, quantization, n_vectors, vector_idx, H, V>>
  BY <1>c, SameAddresses
<1>k. ASSUME UNCHANGED lastRead PROVE LastReadOK'
  BY <1>0, <1>c, <1>k, SameAddresses DEF LastReadOK, ReadWhereStored
<1>1. CASE Warmup
  <2> DEFINE size == DIMENSIONS_FETCHING_SIZES[cur_subgrouping_size_idx + 1]
             last == Least(current_dimension_idx + size, V)
  <2>1. cur_subgrouping_size_idx + 1 \in 1 .. Len(DIMENSIONS_FETCHING_SIZES)
    BY <1>0, <1>1, <1>s, LayoutAssumption DEF Warmup, CountersOK
  <2>2. size \in Nat \ {0} /\ size % 4 = 0
    BY <2>1, LayoutAssumption, AllFetchingSizesMultipleOfU8InterleaveSize DEF U8_INTERLEAVE_SIZE
  <2>3. cur_subgrouping_size_idx + 1 = Len(DIMENSIONS_FETCHING_SIZES) => size >= V
    BY <1>0, <1>s, LayoutAssumption DEF CountersOK
  <2>4. /\ current_dimension_idx \in Nat /\ current_dimension_idx < V
        /\ current_dimension_idx % 4 = 0
    BY <1>0, <1>1, <1>s DEF Warmup, CountersOK
  <2>5. /\ last \in Nat /\ last <= V /\ last > current_dimension_idx
        /\ last % 4 = 0 \/ last = V
        /\ size >= V => last = V
    <3> HIDE DEF size, V
    <3> QED BY <1>s, <2>2, <2>4 DEF Least
  <2>6. /\ phase = "warmup" /\ phase' = "warmup"
        /\ cur_subgrouping_size_idx' = cur_subgrouping_size_idx + 1
        /\ current_dimension_idx' = last
        /\ UNCHANGED <<current_vertical_dimension, current_horizontal_dimension>>
        /\ Read(Vertical(current_dimension_idx, last))
    BY <1>1 DEF Warmup
  <2> HIDE DEF size, last
  <2>7. /\ \A x \in Vertical(current_dimension_idx, last) : x[2] = StoredAt(vector_idx, x[1])
        /\ Vertical(current_dimension_idx, last) \subseteq (0 .. num_dimensions - 1) \X Nat
        /\ {x[1] : x \in Vertical(current_dimension_idx, last)} = current_dimension_idx .. last - 1
    BY <1>0, <2>4, <2>5, VerticalReads
  <2>8. CountersOK'
    BY <1>0, <1>s, <1>u, <2>1, <2>3, <2>5, <2>6 DEF CountersOK
  <2>9. read' = 0 .. last - 1
    BY <1>0, <2>4, <2>5, <2>6, <2>7 DEF ReadOK, Read
  <2>10. ReadOK'
    BY <1>s, <1>u, <2>5, <2>6, <2>9 DEF ReadOK
  <2>11. LastReadOK'
    BY <1>c, <2>6, <2>7, ReadStep
  <2> QED BY <2>8, <2>10, <2>11 DEF IInv
<1>2. CASE LeaveWarmup
  <2>1. CountersOK'
    BY <1>0, <1>2, <1>s, <1>u DEF LeaveWarmup, CountersOK
  <2>2. ReadOK'
    BY <1>0, <1>2, <1>s, <1>u DEF LeaveWarmup, ReadOK, CountersOK
  <2> QED BY <1>2, <1>k, <2>1, <2>2 DEF LeaveWarmup, IInv
<1>3. CASE PruneHorizontal
  <2> DEFINE h == current_horizontal_dimension
  <2>1. h \in Nat /\ h % 64 = 0 /\ h < H /\ current_vertical_dimension \in 0 .. V
        /\ current_dimension_idx = current_vertical_dimension + h
    BY <1>0, <1>3, <1>s DEF PruneHorizontal, CountersOK
  <2>2. /\ \A x \in Horizontal(h) : x[2] = StoredAt(vector_idx, x[1])
        /\ Horizontal(h) \subseteq (0 .. num_dimensions - 1) \X Nat
        /\ {x[1] : x \in Horizontal(h)} = V + h .. V + h + 63
        /\ h + 64 <= H
    BY <1>0, <2>1, HorizontalReads
  <2>3. CountersOK'
    BY <1>0, <1>3, <1>s, <1>u, <2>1, <2>2 DEF PruneHorizontal, CountersOK, H_DIM_SIZE
  <2>4. read' = (0 .. current_vertical_dimension - 1) \cup (V .. V + (h + 64) - 1)
    BY <1>0, <1>3, <1>s, <2>1, <2>2 DEF PruneHorizontal, ReadOK, Read
  <2>5. ReadOK'
    BY <1>3, <1>s, <1>u, <2>1, <2>2, <2>4 DEF PruneHorizontal, ReadOK, H_DIM_SIZE
  <2>6. LastReadOK'
    BY <1>3, <1>c, <2>2, ReadStep DEF PruneHorizontal
  <2> QED BY <2>3, <2>5, <2>6 DEF IInv
<1>4. CASE PruneVertical
  <2> DEFINE first == current_vertical_dimension
             last == NextVertical
  <2>1. /\ first \in Nat /\ first < V /\ first % 4 = 0 /\ current_horizontal_dimension = H
        /\ current_dimension_idx = first + H
    BY <1>0, <1>4, <1>s DEF PruneVertical, CountersOK
  <2>2. /\ last \in Nat /\ last <= V /\ last > first /\ (last % 4 = 0 \/ last = V)
        /\ last = IF first + 64 <= V THEN first + 64 ELSE V
    BY <1>s, <2>1 DEF NextVertical, Least, H_DIM_SIZE
  <2>3. /\ \A x \in Vertical(first, last) : x[2] = StoredAt(vector_idx, x[1])
        /\ Vertical(first, last) \subseteq (0 .. num_dimensions - 1) \X Nat
        /\ {x[1] : x \in Vertical(first, last)} = first .. last - 1
    BY <1>0, <2>1, <2>2, VerticalReads
  <2>4. current_dimension_idx' = last + H
    BY <1>4, <1>s, <2>1, <2>2 DEF PruneVertical, Least, H_DIM_SIZE
  <2>5. /\ phase' = IF last = V THEN "merge" ELSE "prune"
        /\ current_vertical_dimension' = last
        /\ UNCHANGED <<cur_subgrouping_size_idx, current_horizontal_dimension>>
        /\ phase = "prune" /\ Read(Vertical(first, last))
    BY <1>4, <1>s, <2>2, <2>4 DEF PruneVertical
  <2> HIDE DEF last
  <2>6. CountersOK'
    BY <1>0, <1>s, <1>u, <2>1, <2>2, <2>4, <2>5 DEF CountersOK
  <2>7. read' = (0 .. last - 1) \cup (V .. V + H - 1)
    BY <1>0, <2>1, <2>2, <2>3, <2>5 DEF ReadOK, Read
  <2>8. ReadOK'
    BY <1>s, <1>u, <2>1, <2>2, <2>5, <2>7 DEF ReadOK
  <2>9. LastReadOK'
    BY <1>c, <2>3, <2>5, ReadStep
  <2> QED BY <2>6, <2>8, <2>9 DEF IInv
<1>5. CASE LeavePrune
  <2>1. CountersOK'
    BY <1>0, <1>5, <1>s, <1>u DEF LeavePrune, CountersOK, counters
  <2>2. read = 0 .. num_dimensions - 1
    <3>1. current_vertical_dimension = V /\ current_horizontal_dimension = H
      BY <1>0, <1>5, <1>s DEF LeavePrune, CountersOK
    <3>2. read = (0 .. V - 1) \cup (V .. V + H - 1)
      BY <1>0, <1>5, <3>1 DEF LeavePrune, ReadOK
    <3> HIDE DEF V, H
    <3> QED BY <1>s, <3>2
  <2>3. ReadOK'
    BY <1>5, <1>s, <1>u, <2>2 DEF LeavePrune, ReadOK
  <2> QED BY <1>5, <1>k, <2>1, <2>3 DEF LeavePrune, IInv
<1>6. CASE Pruned
  <2>1. CountersOK' /\ ReadOK'
    BY <1>0, <1>6, <1>s, <1>u DEF Pruned, CountersOK, ReadOK, counters
  <2> QED BY <1>6, <1>k, <2>1 DEF Pruned, IInv
<1>7. CASE UNCHANGED vars
  <2>1. CountersOK' /\ ReadOK'
    BY <1>0, <1>7, <1>u DEF vars, CountersOK, ReadOK, counters
  <2> QED BY <1>7, <1>k, <2>1 DEF vars, IInv
<1> QED BY <1>1, <1>2, <1>3, <1>4, <1>5, <1>6, <1>7 DEF Next

THEOREM Invariance == Spec => []IInv
  BY InitIInv, NextIInv, PTL DEF Spec

-----------------------------------------------------------------------------
\* The counters keep their ranges; in particular there always is a fetching size.
THEOREM TypeCorrect == Spec => []TypeOK
<1>1. IInv => TypeOK
  BY DEF IInv, CountersOK, ReadOK, LastReadOK, TypeOK
<1> QED BY <1>1, Invariance, PTL

\* Every value is read at the address where StoreClusterEmbeddings put it, wherever the warmup
\* stops and however short the last group of vertical dimensions is.
THEOREM ReadWhereStoredAlways == Spec => []ReadWhereStored
<1>1. IInv => ReadWhereStored
  BY DEF IInv, LastReadOK
<1> QED BY <1>1, Invariance, PTL

\* A vector that is merged into the heap has had all its dimensions counted.
THEOREM MergedWithAllDimensionsAlways == Spec => []MergedWithAllDimensions
<1>1. IInv => MergedWithAllDimensions
  BY DEF IInv, ReadOK, MergedWithAllDimensions
<1> QED BY <1>1, Invariance, PTL

\* The dimensions of every cluster are split into whole horizontal blocks and a vertical part.
THEOREM SplitIntoBlocksAlways == Spec => []SplitIntoBlocks
<1>1. IInv => SplitIntoBlocks
  BY SplitOfEveryDimension, LayoutAssumption DEF IInv, CountersOK, SplitIntoBlocks
<1> QED BY <1>1, Invariance, PTL

\* No step that reads counts a dimension for the second time.
THEOREM NoDimensionTwiceAlways == Spec => NoDimensionTwice
<1> DEFINE V == num_vertical_dimensions
           New == current_dimension_idx' # current_dimension_idx
                      => \A x \in lastRead' : x[1] \notin read
<1>1. ASSUME IInv, [Next]_vars PROVE [New]_vars
  <2> SUFFICES ASSUME current_dimension_idx' # current_dimension_idx,
                      NEW x \in lastRead'
               PROVE  x[1] \notin read
    OBVIOUS
  <2>0. CountersOK /\ ReadOK
    BY <1>1 DEF IInv
  <2>s. V \in Nat \ {0} /\ num_dimensions \in Nat
    BY <2>0, Split DEF CountersOK
  <2>1. CASE Warmup
    <3>1. current_dimension_idx \in Nat /\ read = 0 .. current_dimension_idx - 1
      BY <2>0, <2>1 DEF Warmup, CountersOK, ReadOK
    <3>2. PICK last : x \in Vertical(current_dimension_idx, last)
      BY <2>1 DEF Warmup, Read
    <3>3. x[1] \in current_dimension_idx .. last - 1
      BY <3>2 DEF Vertical
    <3> QED BY <3>1, <3>3
  <2>2. CASE PruneHorizontal
    <3> DEFINE h == current_horizontal_dimension
    <3>1. /\ h \in Nat /\ current_vertical_dimension \in 0 .. V
          /\ read = (0 .. current_vertical_dimension - 1) \cup (V .. V + h - 1)
      BY <2>0, <2>2, <2>s DEF PruneHorizontal, CountersOK, ReadOK
    <3>2. PICK i \in 0 .. 63 : x[1] = V + h + i
      BY <2>2 DEF PruneHorizontal, Read, Horizontal, H_DIM_SIZE
    <3> HIDE DEF V
    <3> QED BY <2>s, <3>1, <3>2
  <2>3. CASE PruneVertical
    <3> DEFINE first == current_vertical_dimension
    <3>1. /\ first \in Nat /\ current_horizontal_dimension \in Nat
          /\ read = (0 .. first - 1) \cup (V .. V + current_horizontal_dimension - 1)
      BY <2>0, <2>3 DEF PruneVertical, CountersOK, ReadOK
    <3>2. x[1] \in first .. NextVertical - 1
      BY <2>3 DEF PruneVertical, Read, Vertical
    <3>3. NextVertical \in Int /\ NextVertical <= V
      BY <2>s, <3>1 DEF NextVertical, Least, H_DIM_SIZE
    <3> HIDE DEF V
    <3> QED BY <2>s, <3>1, <3>2, <3>3
  <2> QED
    BY <1>1, <2>1, <2>2, <2>3
    DEF Next, vars, counters, LeaveWarmup, LeavePrune, Pruned
<1> QED BY <1>1, Invariance, PTL DEF Spec, NoDimensionTwice

-----------------------------------------------------------------------------
(* The buffer is filled.  Dimensions are stored in blocks: a block of w     *)
(* dimensions from b on takes the places from b * n_vectors on, w of them   *)
(* for each vector.                                                         *)

Base(d) ==
    IF d < num_vertical_dimensions
    THEN IF quantization = "F32" THEN d ELSE (d \div 4) * 4
    ELSE num_vertical_dimensions + ((d - num_vertical_dimensions) \div 64) * 64

Width(d) ==
    IF d < num_vertical_dimensions
    THEN IF quantization = "F32" THEN 1 ELSE Least(4, num_vertical_dimensions - Base(d))
    ELSE 64

LEMMA TimesMonotone ==
    ASSUME NEW a \in Nat, NEW b \in Nat, NEW n \in Nat, a <= b
    PROVE  a * n <= b * n /\ a * n \in Nat /\ b * n \in Nat
<1>1. PICK c \in Nat : b = a + c
  <2>1. b = a + (b - a) /\ b - a \in Nat
    OBVIOUS
  <2> QED BY <2>1
<1>2. b * n = a * n + c * n
  BY <1>1
<1>3. c * n \in Nat /\ a * n \in Nat /\ b * n \in Nat
  OBVIOUS
<1> QED BY <1>2, <1>3

LEMMA Quotient ==
    ASSUME NEW a \in Nat, NEW n \in Nat \ {0}
    PROVE  /\ a \div n \in Nat /\ a % n \in 0 .. n - 1
           /\ a = (a \div n) * n + (a % n)
  OBVIOUS

\* The places of a block are between those of the blocks before and after it.
LEMMA PlaceInBlock ==
    ASSUME NEW b \in Nat, NEW w \in Nat, NEW n \in Nat, NEW v \in 0 .. n - 1, NEW o \in 0 .. w - 1
    PROVE  b * n + v * w + o \in b * n .. (b + w) * n - 1
<1>1. (v + 1) * w <= n * w
  BY TimesMonotone
<1>2. (v + 1) * w = v * w + w /\ (b + w) * n = b * n + w * n /\ n * w = w * n
  OBVIOUS
<1>3. v * w \in Nat /\ b * n \in Nat /\ w * n \in Nat
  OBVIOUS
<1> QED BY <1>1, <1>2, <1>3

\* Every place of a block is that of a vector and a dimension.
IsPlace(b, w, n, a) == \E v \in 0 .. n - 1, o \in 0 .. w - 1 : a = b * n + v * w + o

LEMMA BlockIsFull ==
    ASSUME NEW n \in Nat \ {0}, NEW w \in Nat \ {0}, NEW b \in Nat,
           NEW a \in Nat, b * n <= a, a < (b + w) * n
    PROVE  IsPlace(b, w, n, a)
<1> DEFINE x == a - b * n
<1>1. (b + w) * n = b * n + w * n /\ b * n \in Nat /\ w * n \in Nat /\ n * w = w * n
  OBVIOUS
<1>2. x \in Nat /\ x < n * w /\ a = b * n + x
  BY <1>1
<1>3. x \div w \in Nat /\ x % w \in 0 .. w - 1 /\ x = (x \div w) * w + (x % w)
  BY <1>2, Quotient
<1>4. x \div w < n
  <2>1. SUFFICES ASSUME n <= x \div w PROVE FALSE
    BY <1>3
  <2>2. n * w <= (x \div w) * w
    BY <1>3, <2>1, TimesMonotone
  <2> QED BY <1>2, <1>3, <2>2
<1>5. x \div w \in 0 .. n - 1
  BY <1>3, <1>4
<1>6. a = b * n + (x \div w) * w + (x % w)
  BY <1>2, <1>3, <1>1
<1> HIDE DEF x
<1> QED BY <1>3, <1>5, <1>6 DEF IsPlace

\* The block of a dimension has the dimension in it, and is the block of each of its dimensions.
LEMMA Blocks ==
    ASSUME num_dimensions \in Dimensions, quantization \in {"F32", "U8"},
           NEW d \in 0 .. num_dimensions - 1
    PROVE  /\ Base(d) \in Nat /\ Width(d) \in Nat \ {0}
           /\ Base(d) <= d /\ d < Base(d) + Width(d)
           /\ Base(d) + Width(d) <= num_dimensions
           /\ \A e \in Base(d) .. Base(d) + Width(d) - 1 : Base(e) = Base(d) /\ Width(e) = Width(d)
<1> DEFINE V == num_vertical_dimensions
           H == num_horizontal_dimensions
<1>0. /\ num_dimensions \in Nat /\ V \in Nat \ {0} /\ H \in Nat
      /\ V + H = num_dimensions /\ H % 64 = 0 /\ d \in Nat
  BY Split
<1>1. CASE d < V /\ quantization = "F32"
  BY <1>0, <1>1 DEF Base, Width
<1>2. CASE d < V /\ quantization # "F32"
  <2> DEFINE b == (d \div 4) * 4
             w == Least(4, V - b)
  <2>1. b \in Nat /\ b <= d /\ d < b + 4 /\ b < V /\ (b + 4) \div 4 = b \div 4 + 1 /\ b % 4 = 0
    BY <1>0, <1>2
  <2>2. w \in Nat \ {0} /\ d < b + w /\ b + w <= V /\ b + w <= b + 4
    <3> HIDE DEF b, V
    <3> QED BY <1>0, <1>2, <2>1 DEF Least
  <2>3. Base(d) = b /\ Width(d) = w
    BY <1>2 DEF Base, Width
  <2>4. ASSUME NEW e \in b .. b + w - 1 PROVE Base(e) = b /\ Width(e) = w
    <3>1. e \in Nat /\ e < V /\ b <= e /\ e < b + 4
      <4> HIDE DEF b, w, V
      <4> QED BY <1>0, <2>1, <2>2, <2>4
    <3>2. (e \div 4) * 4 = b
      <4> HIDE DEF b
      <4> QED BY <2>1, <3>1
    <3> QED BY <1>2, <3>1, <3>2 DEF Base, Width
  <2> HIDE DEF b, w
  <2> QED BY <1>0, <2>1, <2>2, <2>3, <2>4
<1>3. CASE d >= V
  <2> DEFINE h == d - V
             b == (h \div 64) * 64
  <2>1. h \in Nat /\ h < H
    BY <1>0, <1>3
  <2>2. b \in Nat /\ b <= h /\ h < b + 64 /\ b % 64 = 0 /\ b + 64 <= H
    <3> HIDE DEF h
    <3> QED BY <1>0, <2>1
  <2>3. Base(d) = V + b /\ Width(d) = 64
    BY <1>0, <1>3 DEF Base, Width
  <2>4. ASSUME NEW e \in V + b .. V + b + 63 PROVE Base(e) = V + b /\ Width(e) = 64
    <3>1. e - V \in Nat /\ b <= e - V /\ e - V < b + 64 /\ ~(e < V) /\ e \in Nat
      <4> HIDE DEF b, V
      <4> QED BY <1>0, <2>2, <2>4
    <3>2. ((e - V) \div 64) * 64 = b
      <4> HIDE DEF b
      <4> QED BY <2>2, <3>1
    <3> QED BY <3>1, <3>2 DEF Base, Width
  <2> HIDE DEF b, h
  <2>5. h = d - V
    BY DEF h
  <2> QED BY <1>0, <1>3, <2>1, <2>2, <2>3, <2>4, <2>5
<1> QED BY <1>0, <1>1, <1>2, <1>3

\* Where a value is stored, in terms of its block.
LEMMA StoredInBlock ==
    ASSUME num_dimensions \in Dimensions, quantization \in {"F32", "U8"}, n_vectors \in Nat,
           NEW d \in 0 .. num_dimensions - 1, NEW v \in Nat
    PROVE  StoredAt(v, d) = Base(d) * n_vectors + v * Width(d) + (d - Base(d))
<1> DEFINE V == num_vertical_dimensions
<1>0. num_dimensions \in Nat /\ V \in Nat /\ d \in Nat
  BY Split
<1>1. CASE d < V /\ quantization = "F32"
  BY <1>0, <1>1 DEF StoredAt, StoredVertically, Base, Width
<1>2. CASE d < V /\ quantization # "F32"
  BY <1>2 DEF StoredAt, StoredVertically, GroupWidth, Base, Width, U8_INTERLEAVE_SIZE
<1>3. CASE ~(d < V)
  <2> DEFINE b == ((d - V) \div 64) * 64
  <2>1. StoredAt(v, d) = (V + b) * n_vectors + v * 64 + ((d - V) - b)
    BY <1>3 DEF StoredAt, StoredHorizontally, H_DIM_SIZE
  <2>2. Base(d) = V + b /\ Width(d) = 64
    BY <1>3 DEF Base, Width
  <2>3. b \in Int
    BY <1>0
  <2> HIDE DEF b
  <2> QED BY <1>0, <2>1, <2>2, <2>3
<1> QED BY <1>1, <1>2, <1>3

\* StoreClusterEmbeddings fills the buffer of a cluster: every place of it, and nothing beyond.
THEOREM StoreFillsBufferAlways == Spec => []StoreFillsBuffer
<1>1. ASSUME CountersOK PROVE StoreFillsBuffer
  <2> DEFINE n == n_vectors
             D == num_dimensions
             Stored == {StoredAt(v, d) : v \in 0 .. n - 1, d \in 0 .. D - 1}
  <2>0. /\ n \in Nat \ {0} /\ D \in Nat \ {0} /\ D \in Dimensions /\ quantization \in {"F32", "U8"}
        /\ D * n \in Nat
    BY <1>1, LayoutAssumption DEF CountersOK
  <2>1. ASSUME NEW v \in 0 .. n - 1, NEW d \in 0 .. D - 1
        PROVE  StoredAt(v, d) \in 0 .. D * n - 1
    <3> DEFINE b == Base(d)
               w == Width(d)
    <3>1. b \in Nat /\ w \in Nat /\ d - b \in 0 .. w - 1 /\ b + w <= D
      BY <2>0, Blocks
    <3>2. StoredAt(v, d) = b * n + v * w + (d - b)
      BY <2>0, StoredInBlock
    <3> HIDE DEF b, w
    <3>3. b * n + v * w + (d - b) \in b * n .. (b + w) * n - 1
      BY <2>0, <3>1, PlaceInBlock
    <3>4. (b + w) * n <= D * n /\ b * n \in Nat
      BY <2>0, <3>1, TimesMonotone
    <3> HIDE DEF n, D
    <3> QED BY <2>0, <3>1, <3>2, <3>3, <3>4
  <2>2. ASSUME NEW a \in 0 .. D * n - 1 PROVE a \in Stored
    <3> DEFINE q == a \div n
               b == Base(q)
               w == Width(q)
    <3>1. q \in Nat /\ q * n <= a /\ a < (q + 1) * n
      <4>1. q \in Nat /\ a % n \in 0 .. n - 1 /\ a = q * n + (a % n)
        <5>1. a \in Nat
          BY <2>0
        <5> HIDE DEF n, D
        <5> QED BY <2>0, <5>1, Quotient
      <4>2. (q + 1) * n = q * n + n
        BY <2>0, <4>1
      <4>3. q * n \in Nat
        BY <2>0, <4>1
      <4> HIDE DEF q
      <4> QED BY <2>0, <4>1, <4>2, <4>3
    <3> HIDE DEF q
    <3>2. q \in 0 .. D - 1
      <4>1. SUFFICES ASSUME D <= q PROVE FALSE
        BY <2>0, <3>1
      <4>2. D * n <= q * n
        BY <2>0, <3>1, <4>1, TimesMonotone
      <4> QED BY <2>0, <3>1, <4>2
    <3>3. /\ b \in Nat /\ w \in Nat \ {0} /\ b <= q /\ q + 1 <= b + w /\ b + w <= D
          /\ \A e \in b .. b + w - 1 : Base(e) = b /\ Width(e) = w
      BY <2>0, <3>2, Blocks
    <3> HIDE DEF b, w
    <3>4. a \in Nat /\ b * n <= a /\ a < (b + w) * n
      <4>1. b * n <= q * n /\ b * n \in Nat /\ q * n \in Nat
        BY <2>0, <3>1, <3>3, TimesMonotone
      <4>2. (q + 1) * n <= (b + w) * n /\ (b + w) * n \in Nat /\ (q + 1) * n \in Nat
        BY <2>0, <3>1, <3>3, TimesMonotone
      <4>3. a \in Nat
        BY <2>0
      <4> HIDE DEF n, D
      <4> QED BY <3>1, <4>1, <4>2, <4>3
    <3>5. PICK v \in 0 .. n - 1, o \in 0 .. w - 1 : a = b * n + v * w + o
      <4>1. IsPlace(b, w, n, a)
        <5> HIDE DEF n, D
        <5> QED BY <2>0, <3>3, <3>4, BlockIsFull
      <4> QED BY <4>1 DEF IsPlace
    <3>6. b + o \in 0 .. D - 1 /\ Base(b + o) = b /\ Width(b + o) = w /\ (b + o) - b = o
      BY <2>0, <3>3
    <3>7. StoredAt(v, b + o) = a
      BY <2>0, <3>5, <3>6, StoredInBlock
    <3> QED BY <3>6, <3>7
  <2>3. Stored = 0 .. D * n - 1
    <3> HIDE DEF n, D
    <3>1. \A x \in Stored : x \in 0 .. D * n - 1
      BY <2>1
    <3>2. \A x \in 0 .. D * n - 1 : x \in Stored
      BY <2>2
    <3> QED BY <3>1, <3>2
  <2> QED BY <2>3 DEF StoreFillsBuffer
<1>2. IInv => StoreFillsBuffer
  BY <1>1 DEF IInv
<1> QED BY <1>2, Invariance, PTL

=============================================================================
