---- MODULE RowKernels ----
(***************************************************************************)
(* The block-cooperative row kernels: reductions, softmax, the norms and   *)
(* the projections that reduce a row with one block.  A partial result is  *)
(* the bag of columns folded into it, so "the sum of the row" is the bag   *)
(* holding every column once, whatever the order of the additions.         *)
(***************************************************************************)
EXTENDS ThreadBlock

CONSTANTS
  BlockSizes,   \* block sizes a caller asks for
  Widths        \* row lengths

ASSUME SizesAssumption == BlockSizes \subseteq Nat /\ Widths \subseteq Nat \ {0}

VARIABLES
  block,        \* blockIdx.x
  cols,         \* the row length, or the element count of a reduction pass
  partial,      \* shared: one partial result per lane
  staged,       \* shared: the row staged by the fused kernels
  stat,         \* per lane: the statistics read from partial[0] so far
  out           \* what the block has written to global memory

rowVars == <<block, cols, partial, staged, stat, out>>
shape == <<launchVars, block, cols>>

Size == Cardinality(lanes)
Columns == 0 .. cols - 1
Bag(S) == [c \in Columns |-> IF c \in S THEN 1 ELSE 0]
Plus(a, b) == [c \in Columns |-> a[c] + b[c]]
Whole == Bag(Columns)

Sync == [op |-> "sync"]
Op(name) == [op |-> name]

\* The check every load_with_block_size makes before it accepts a block size.
AnyPositive(size) == size > 0
PowerOfTwo(size) == \E e \in 0 .. 5 : size = 2 ^ e

\* for (stride = blockDim.x / 2; stride > 0; stride >>= 1): at each level a
\* guarded addition, then a barrier for all lanes.
Levels(size) == Cardinality({e \in 1 .. 5 : size \div (2 ^ e) > 0})
Tree(size) ==
  [i \in 1 .. 2 * Levels(size) |->
    IF i % 2 = 0 THEN Sync
    ELSE [op |-> "tree", stride |-> size \div (2 ^ ((i + 1) \div 2))]]
Reduce(size, fold) == <<Op(fold), Sync>> \o Tree(size)

\* Two elements per lane, lane 0 writes the block's result: the F32 sum and max
\* passes, the first passes over BF16 input and their F32 successors.
ReduceSum(size) == Reduce(size, "pair") \o <<Op("store")>>
ReduceMax(size) == Reduce(size, "pair") \o <<Op("store")>>
ReduceBf16(size) == Reduce(size, "pair") \o <<Op("store")>>

\* One block per row or output column, the row dealt to the lanes in turn.
RowMax(size) == Reduce(size, "fold") \o <<Op("store")>>
RowSum(size) == Reduce(size, "fold") \o <<Op("store")>>
RowSumSq(size) == Reduce(size, "fold") \o <<Op("store")>>
GemvRow(size) == Reduce(size, "fold") \o <<Op("store")>>
ProjectF16(size) == Reduce(size, "fold") \o <<Op("store")>>
LmHeadF16(size) == Reduce(size, "fold") \o <<Op("store")>>
ProjectTransposed(size) == Reduce(size, "fold") \o <<Op("store")>>
QkvFused(size) == Reduce(size, "fold") \o <<Op("store")>>
GateUpFused(size) == Reduce(size, "fold") \o <<Op("store")>>
GateUpSilu(size) == Reduce(size, "fold") \o <<Op("store")>>

\* Weighted RMSNorm: every lane reads the total and scales its own columns.
WeightedRms(size) == Reduce(size, "fold") \o <<Op("take"), Op("emitInput")>>
WeightedRmsF16(size) == Reduce(size, "fold") \o <<Op("take"), Op("emitInput")>>
WeightedRmsCandidate(size) == Reduce(size, "fold") \o <<Op("take"), Op("emitInput")>>

\* Layer-norm statistics: every lane reads the mean from partial[0]; the
\* barrier after that read keeps lane 0 from overwriting it.
StatsWithoutBarrier(size) ==
  Reduce(size, "fold") \o <<Op("take")>> \o Reduce(size, "foldCentered") \o <<Op("store")>>
LayerNormStats(size) ==
  Reduce(size, "fold") \o <<Op("take"), Sync>>
    \o Reduce(size, "foldCentered") \o <<Op("store")>>

\* The fused kernels stage the row in shared memory and rewrite it in place.
SoftmaxFused(size) ==
  <<Op("stage"), Sync>> \o Reduce(size, "foldStaged") \o <<Op("take"), Sync>>
    \o Reduce(size, "transform") \o <<Op("take"), Sync, Op("emitStaged")>>
LayerNormFused(size) ==
  <<Op("stage"), Sync>> \o Reduce(size, "foldStaged") \o <<Op("take"), Sync>>
    \o Reduce(size, "transform") \o <<Op("take"), Sync, Op("emitStaged")>>
RmsNormFused(size) ==
  <<Op("stage"), Sync>> \o Reduce(size, "foldStaged")
    \o <<Op("take"), Sync, Op("emitStaged")>>

\* The kernels of the crate and the text each one runs at a block size.
Texts(size) ==
  [reduce_sum |-> ReduceSum(size),
   reduce_max |-> ReduceMax(size),
   bf16_reduce |-> ReduceBf16(size),
   row_max |-> RowMax(size),
   row_sum |-> RowSum(size),
   row_sumsq |-> RowSumSq(size),
   gemv |-> GemvRow(size),
   project_f16 |-> ProjectF16(size),
   lm_head_f16 |-> LmHeadF16(size),
   project_nk |-> ProjectTransposed(size),
   qkv_fused |-> QkvFused(size),
   gate_up_fused |-> GateUpFused(size),
   gate_up_silu |-> GateUpSilu(size),
   weighted_rms |-> WeightedRms(size),
   weighted_rms_f16 |-> WeightedRmsF16(size),
   weighted_rms_candidate |-> WeightedRmsCandidate(size),
   layernorm_stats |-> LayerNormStats(size),
   softmax_fused |-> SoftmaxFused(size),
   layernorm_fused |-> LayerNormFused(size),
   rmsnorm_fused |-> RmsNormFused(size)]
RowKernelNames == DOMAIN Texts(1)
Pairwise == {"reduce_sum", "reduce_max", "bf16_reduce"}
PerColumn == {"weighted_rms", "weighted_rms_f16", "weighted_rms_candidate",
              "softmax_fused", "layernorm_fused", "rmsnorm_fused"}
Statistics(k) == IF k \in {"softmax_fused", "layernorm_fused"} THEN 2 ELSE 1

-----------------------------------------------------------------------------
\* index = lane; index < cols; index += blockDim.x
Own(l) == {c \in Columns : c % Size = l}
\* first = blockIdx.x * blockDim.x * 2 + lane, second = first + blockDim.x
Pair(l) == {c \in Columns : c \in {2 * Size * block + l, 2 * Size * block + l + Size}}
Mine(l) == IF kernel \in Pairwise THEN Pair(l) ELSE Own(l)
\* The elements this block answers for.
Share == IF kernel \in Pairwise THEN {c \in Columns : c \div (2 * Size) = block} ELSE Columns

Cell(l) == <<"partial", l>>
Row(S) == {<<"staged", c>> : c \in S}
Is(l, name) == Running(l) /\ Instr(l).op = name

\* A column enters a later statistic only when the lane that folds it holds the
\* complete earlier one; otherwise what it adds is not the kernel's formula.
Sound(l) == \A i \in DOMAIN stat[l] : stat[l][i] = Bag(Share)

FreshLaunch(k, size, width, b) ==
  /\ block = b /\ cols = width
  /\ BlockInit(k, size, Texts(size)[k])
  /\ partial = [l \in 0 .. size - 1 |-> <<>>]
  /\ staged = [c \in 0 .. width - 1 |-> <<>>]
  /\ stat = [l \in 0 .. size - 1 |-> <<>>]
  /\ out = [c \in 0 .. width - 1 |-> <<>>]
Grid(k, size, width) ==
  IF k \in Pairwise THEN 0 .. ((width + 2 * size - 1) \div (2 * size)) - 1 ELSE {0}
RowInit ==
  \E k \in RowKernelNames, size \in {n \in BlockSizes : PowerOfTwo(n)}, width \in Widths :
    \E b \in Grid(k, size, width) : FreshLaunch(k, size, width, b)

Stage(l) ==
  /\ Is(l, "stage")
  /\ staged' = [c \in Columns |-> IF c \in Own(l) THEN <<c>> ELSE staged[c]]
  /\ Execute(l, {}, Row(Own(l)))
  /\ UNCHANGED <<shape, partial, stat, out>>

Fold(l) ==
  /\ Is(l, "fold") \/ Is(l, "pair")
  /\ partial' = [partial EXCEPT ![l] = Bag(Mine(l))]
  /\ Execute(l, {}, {Cell(l)})
  /\ UNCHANGED <<shape, staged, stat, out>>

FoldCentered(l) ==
  /\ Is(l, "foldCentered")
  /\ partial' = [partial EXCEPT ![l] = Bag({c \in Own(l) : Sound(l)})]
  /\ Execute(l, {}, {Cell(l)})
  /\ UNCHANGED <<shape, staged, stat, out>>

FoldStaged(l) ==
  /\ Is(l, "foldStaged")
  /\ partial' = [partial EXCEPT ![l] = Bag({c \in Own(l) : staged[c] = <<c>>})]
  /\ Execute(l, Row(Own(l)), {Cell(l)})
  /\ UNCHANGED <<shape, staged, stat, out>>

Transform(l) ==
  /\ Is(l, "transform")
  /\ staged' = [c \in Columns |->
                 IF c \in Own(l) THEN Append(staged[c], stat[l][1]) ELSE staged[c]]
  /\ partial' = [partial EXCEPT ![l] = Bag({c \in Own(l) : Sound(l)})]
  /\ Execute(l, Row(Own(l)), Row(Own(l)) \cup {Cell(l)})
  /\ UNCHANGED <<shape, stat, out>>

InReach(l, s) == l + s < Size
InLowerHalf(l, s) == l < s

TreeStep(l) ==
  /\ Is(l, "tree")
  /\ LET s == Instr(l).stride IN
     IF InLowerHalf(l, s)
     THEN /\ partial' = [partial EXCEPT ![l] = Plus(partial[l], partial[l + s])]
          /\ Execute(l, {Cell(l), Cell(l + s)}, {Cell(l)})
     ELSE Execute(l, {}, {}) /\ UNCHANGED partial
  /\ UNCHANGED <<shape, staged, stat, out>>

Take(l) ==
  /\ Is(l, "take")
  /\ stat' = [stat EXCEPT ![l] = Append(stat[l], partial[0])]
  /\ Execute(l, {Cell(0)}, {})
  /\ UNCHANGED <<shape, partial, staged, out>>

\* if (lane == 0): the statistics of the block.
Store(l) ==
  /\ Is(l, "store")
  /\ IF l = 0
     THEN /\ out' = [out EXCEPT ![0] = Append(stat[l], partial[0])]
          /\ Execute(l, {Cell(0)}, {})
     ELSE Execute(l, {}, {}) /\ UNCHANGED out
  /\ UNCHANGED <<shape, partial, staged, stat>>

\* Each lane writes its own columns, from the staged row or the input.
Emit(l) ==
  /\ Is(l, "emitStaged") \/ Is(l, "emitInput")
  /\ out' = [c \in Columns |->
              IF c \in Own(l)
              THEN (IF Is(l, "emitStaged") THEN staged[c] ELSE <<c>>)
                     \o <<stat[l][Len(stat[l])]>>
              ELSE out[c]]
  /\ Execute(l, IF Is(l, "emitStaged") THEN Row(Own(l)) ELSE {}, {})
  /\ UNCHANGED <<shape, partial, staged, stat>>

RowNext ==
  \E l \in lanes : Stage(l) \/ Fold(l) \/ FoldCentered(l) \/ FoldStaged(l)
                    \/ Transform(l) \/ TreeStep(l) \/ Take(l) \/ Store(l) \/ Emit(l)
RowIdle ==
  /\ block = 0 /\ cols = 0
  /\ partial = <<>> /\ staged = <<>> /\ stat = <<>> /\ out = <<>>

-----------------------------------------------------------------------------
\* What a finished block wrote is the kernel's formula over the complete row:
\* every element of its share folded exactly once into each statistic, and each
\* output column computed from its own input and the complete statistics.
RowComplete ==
  Finished /\ kernel \in RowKernelNames =>
    IF kernel \in PerColumn
    THEN \A c \in Columns : out[c] = <<c>> \o [i \in 1 .. Statistics(kernel) |-> Whole]
    ELSE out[0] # <<>> /\ \A i \in DOMAIN out[0] : out[0][i] = Bag(Share)

====
