------------------------------- MODULE HostRows -------------------------------
(***************************************************************************)
(* What the host code of nnis-kernels asks of the device: buffers, kernel  *)
(* launches and the sections of a call.  A launch names the elements its   *)
(* threads touch, as sets of indices taken from the kernel's own text and  *)
(* from the grid that the host computes; nothing here assumes that the two *)
(* agree.  A section is one synchronous call: its validation, the launches *)
(* it enqueues in order, the buffers it allocates, and whether its wrapper *)
(* synchronizes the stream after a failed enqueue too.                     *)
(*                                                                         *)
(* After that, the host side of the elementwise, reduction, top-k, softmax *)
(* and norm families.  L maps a buffer's name to its length and context;   *)
(* size is the block size the family was loaded with.                      *)
(***************************************************************************)
EXTENDS Integers, Sequences, FiniteSets, TLC

CONSTANTS
  MaxBlockThreads,  \* max_threads_per_block of every loaded function
  MaxShared,        \* max dynamic shared memory, in floats
  MaxGridX,         \* stands for u32::MAX
  MaxGridYZ         \* MAX_GRID_Y_BLOCKS

Span(n) == 0 .. n - 1
Least(a, b) == IF a < b THEN a ELSE b
CeilDiv(n, d) == (n + d - 1) \div d

\* A device buffer; ctx 0 is the context the kernels were loaded in.
Buffer(n) == [len |-> n, ctx |-> 0]
SameContext(L, bufs) == \A b \in bufs \cup {"stream"} : L[b].ctx = 0
Exact(L, wants) == \A b \in DOMAIN wants : L[b].len = wants[b]

\* is_power_of_two, for the sizes in use.
PowerOfTwoSize(size) == size \in {1, 2, 4, 8}

\* load_with_block_size: the size the family accepts, the function's limits.
LoadAccepts(size, powerOfTwo, shared) ==
  /\ size # 0
  /\ powerOfTwo => PowerOfTwoSize(size)
  /\ size <= MaxBlockThreads
  /\ shared <= MaxShared

\* LaunchConfig::for_num_elements, and the threads that pass index < n.
FlatGrid(n, size) == <<CeilDiv(n, size), 1, 1>>
Flat(n, size) == Span(Least(CeilDiv(n, size) * size, n))

\* KernelArgs: args are the buffers whose context the argument list remembers.
Launch(grid, threads, shared, args, reads, writes) ==
  [grid |-> grid, threads |-> threads, shared |-> shared, args |-> args,
   reads |-> reads, writes |-> writes, fits |-> TRUE]

\* zero_async covers the whole buffer and checks only the buffer's context.
ZeroFill(L, b) ==
  IF L[b].len = 0 THEN <<>>
  ELSE << Launch(<<1, 1, 1>>, 1, 0, {b}, <<>>, b :> Span(L[b].len)) >>

\* Mutant: the buffers' contexts are not compared at the launch.
AcceptsAnyContext(L, s) ==
  /\ \A i \in 1 .. 3 : s.grid[i] > 0
  /\ s.grid[1] <= MaxGridX /\ s.grid[2] <= MaxGridYZ /\ s.grid[3] <= MaxGridYZ
  /\ s.threads \in 1 .. MaxBlockThreads
  /\ s.shared <= MaxShared
  /\ s.fits

\* The u32 conversions of the grid and KernelLaunch::validate.
LaunchAccepted(L, s) ==
  /\ \A i \in 1 .. 3 : s.grid[i] > 0
  /\ s.grid[1] <= MaxGridX /\ s.grid[2] <= MaxGridYZ /\ s.grid[3] <= MaxGridYZ
  /\ s.threads \in 1 .. MaxBlockThreads
  /\ s.shared <= MaxShared
  /\ SameContext(L, s.args)
  /\ s.fits

\* A synchronous call; steps is meant for accepted arguments only.  join: the
\* wrapper also synchronizes on an error.
Section(ok, steps, join) ==
  [ok |-> ok, steps |-> IF ok THEN steps ELSE <<>>, join |-> join, fresh |-> <<>>]
\* The same call, which first allocates the buffers of fresh.
Allocating(fresh, s) == [s EXCEPT !.fresh = fresh]

\* Compilation, module load, get_function and the attribute checks of a family.
Loading(ok) == Section(ok, <<>>, FALSE)
Plain(ok, steps) == Section(ok, steps, FALSE)
Joined(ok, steps) == Section(ok, steps, TRUE)


\* --- Elementwise ---------------------------------------------------------
\* validate_lengths: every buffer is as long as the first.
SameLength(L, bufs) == \A a, b \in bufs : L[a].len = L[b].len

\* The six loads of lib.rs and the eight of bf16.rs: any non-zero block size.
ElementwiseLoad(size) == Loading(LoadAccepts(size, FALSE, 0))
Bf16ElementwiseLoad(size) == Loading(LoadAccepts(size, FALSE, 0))

ElementwiseLaunch(ins, o, n, size, args) ==
  Launch(FlatGrid(n, size), size, 0, args, [b \in ins |-> Flat(n, size)], o :> Flat(n, size))

\* enqueue_vector_add, scale, affine, relu, silu, gelu_tanh: every buffer is
\* an argument whose context is checked.  The wrapper returns on an error.
Elementwise(L, ins, o, size) ==
  Plain(SameLength(L, ins \cup {o}),
        IF L[o].len = 0 THEN <<>>
        ELSE << ElementwiseLaunch(ins, o, L[o].len, size, ins \cup {o}) >>)

\* The bf16 kernels: if (index < elements), one element each.
Bf16Launch(ins, o, n, size, args) == ElementwiseLaunch(ins, o, n, size, args)

\* bf16 relu, silu, gelu_tanh and vector_add: every buffer is an argument.
Bf16Elementwise(L, ins, o, size) ==
  Plain(SameLength(L, ins \cup {o}),
        IF L[o].len = 0 THEN <<>> ELSE << Bf16Launch(ins, o, L[o].len, size, ins \cup {o}) >>)

\* bf16 scale, affine, widen and narrow pass raw pointers: no context is kept.
Bf16Raw(L, i, o, size) ==
  Plain(SameLength(L, {i, o}),
        IF L[i].len = 0 THEN <<>> ELSE << Bf16Launch({i}, o, L[i].len, size, {}) >>)

\* --- Reductions ----------------------------------------------------------
\* partial_count: a block folds two elements per lane.
PartialCount(n, size) == CeilDiv(n, 2 * size)

\* The elements that blocks 0 .. p - 1 read: first and first + blockDim.x.
PairReads(p, n, size) ==
  {i \in {b * size * 2 + l + s : b \in Span(p), l \in Span(size), s \in {0, size}} : i < n}

\* enqueue_pass: one launch of the tree; the destination's capacity is checked.
ReducePass(L, src, n, dst, size) ==
  LET p == PartialCount(n, size) IN
  [Launch(<<p, 1, 1>>, size, size, {}, src :> PairReads(p, n, size), dst :> Span(p))
     EXCEPT !.fits = L[dst].len >= p]

\* enqueue_pass of bf16_reduction.rs does not look at the capacity.
Bf16ReducePass(L, src, n, dst, size) ==
  LET p == PartialCount(n, size) IN
  Launch(<<p, 1, 1>>, size, size, {}, src :> PairReads(p, n, size), dst :> Span(p))

\* Mutant: the tree always writes its partials to the first scratch buffer.
OneScratch(toA) == "scratch_a"
\* write_scratch_a
Scratch(toA) == IF toA THEN "scratch_a" ELSE "scratch_b"

\* The loop of enqueue_tree: the last pass writes the output.
RECURSIVE ReduceTree(_, _, _, _, _, _)
TreePasses(L, src, n, o, size) == ReduceTree(L, src, n, o, TRUE, size)
ReduceTree(L, src, n, o, toA, size) ==
  LET p == PartialCount(n, size)
      dst == IF p = 1 THEN o ELSE Scratch(toA)
  IN << ReducePass(L, src, n, dst, size) >> \o
     IF p = 1 THEN <<>> ELSE ReduceTree(L, dst, p, o, ~toA, size)

\* load_with_block_size: argmax needs a float and a u64 per lane, 12 bytes.
ReductionLoad(size) == Loading(LoadAccepts(size, TRUE, 3 * size))
Bf16ReductionLoad(size) == Loading(LoadAccepts(size, TRUE, size))

\* workspace and pooled_workspace: room elements, for one block size.
Workspace(room, size) ==
  [scratch_a |-> Buffer(PartialCount(room, size)),
   scratch_b |-> Buffer(PartialCount(room, size))]

\* validate_execution: the input fits, the workspace has this block size.
ReductionValid(L, i, o, w, size) ==
  /\ L[o].len = 1
  /\ L[i].len <= w.room /\ w.size = size
  /\ SameContext(L, {i, "scratch_a"})

\* enqueue_tree: an empty sum is a memset, an empty max enqueues nothing.
ReduceSteps(L, kind, i, o, size) ==
  IF L[i].len = 0
  THEN IF kind = "sum" THEN << Launch(<<1, 1, 1>>, 1, 0, {}, <<>>, o :> {0}) >> ELSE <<>>
  ELSE TreePasses(L, i, L[i].len, o, size)

\* sum_into and max_into on the caller's workspace.
ReduceInto(L, kind, i, o, w, size) ==
  Joined(ReductionValid(L, i, o, w, size), ReduceSteps(L, kind, i, o, size))

\* sum and max: the workspace and the scalar are made for this input.
ReduceScalar(L, kind, i, size) ==
  LET M == (Workspace(L[i].len, size) @@ [scalar |-> Buffer(1)]) @@ L
  IN Allocating(Workspace(L[i].len, size) @@ [scalar |-> Buffer(1)],
       Joined(/\ SameContext(M, {i})
              /\ ReductionValid(M, i, "scalar", [room |-> L[i].len, size |-> size], size),
              ReduceSteps(M, kind, i, "scalar", size)))

\* bf16 enqueue_tree: the first pass widens; an empty input enqueues nothing.
RECURSIVE Bf16TreePasses(_, _, _, _, _, _)
Bf16TreePasses(L, src, n, o, toA, size) ==
  LET p == PartialCount(n, size)
      dst == IF p = 1 THEN o ELSE Scratch(toA)
  IN << Bf16ReducePass(L, src, n, dst, size) >> \o
     IF p = 1 THEN <<>> ELSE Bf16TreePasses(L, dst, p, o, ~toA, size)

\* validate_execution of bf16_reduction.rs compares the output's context too.
Bf16ReductionValid(L, i, o, w, size) ==
  ReductionValid(L, i, o, w, size) /\ SameContext(L, {o})

\* enqueue_sum and enqueue_max of bf16_reduction.rs, with their wrappers.
Bf16Reduce(L, i, size) ==
  LET M == (Workspace(L[i].len, size) @@ [scalar |-> Buffer(1)]) @@ L
  IN Allocating(Workspace(L[i].len, size) @@ [scalar |-> Buffer(1)],
       Joined(/\ SameContext(M, {i})
              /\ Bf16ReductionValid(M, i, "scalar", [room |-> L[i].len, size |-> size], size),
              IF L[i].len = 0 THEN <<>> ELSE Bf16TreePasses(M, i, L[i].len, "scalar", TRUE, size)))

\* --- Arg-max and top-k ---------------------------------------------------
\* Value and index scratch travel together; The names stand for both.
\* argmax_first reads values only, argmax_pairs the indices of the last pass.
ArgmaxFirst(src, n, dst, size) ==
  LET p == PartialCount(n, size) IN
  Launch(<<p, 1, 1>>, size, 3 * size, {src}, src :> PairReads(p, n, size),
         (dst[1] :> dst[2]) @@ (dst[3] :> dst[4]))

ArgmaxPairs(src, srcIndex, n, dst, size) ==
  LET p == PartialCount(n, size) IN
  Launch(<<p, 1, 1>>, size, 3 * size, {},
         (src :> PairReads(p, n, size)) @@ (srcIndex :> PairReads(p, n, size)),
         (dst[1] :> dst[2]) @@ (dst[3] :> dst[4]))

PairScratch(toA) == IF toA THEN <<"values_a", "indices_a">> ELSE <<"values_b", "indices_b">>

\* One element of each output, or the partials of this pass.
PairTarget(p, out, toA) ==
  IF p = 1 THEN <<out[1], {out[3]}, out[2], {out[3]}>>
  ELSE <<PairScratch(toA)[1], Span(p), PairScratch(toA)[2], Span(p)>>

\* The loop of enqueue_argmax; out names the outputs and the element of both.
RECURSIVE ArgmaxTree(_, _, _, _, _, _)
ArgmaxTree(src, srcIndex, n, out, toA, size) ==
  LET p == PartialCount(n, size)
      dst == PairTarget(p, out, toA)
  IN << IF srcIndex = "none" THEN ArgmaxFirst(src, n, dst, size)
        ELSE ArgmaxPairs(src, srcIndex, n, dst, size) >> \o
     IF p = 1 THEN <<>> ELSE ArgmaxTree(dst[1], dst[3], p, out, ~toA, size)

\* argmax_workspace
PairWorkspace(room, size) ==
  [b \in {"values_a", "values_b", "indices_a", "indices_b"} |-> Buffer(PartialCount(room, size))]

\* validate_argmax_execution: the workspace holds the input's first pass, was
\* made for this block size and lives in this context.
ArgmaxValid(L, i, w, size) ==
  /\ L[i].len <= w.room /\ w.size = size
  /\ SameContext(L, {i, "values_a"})

\* argmax_into, on the caller's workspace: an empty input is refused.
ArgmaxInto(L, i, w, size) ==
  Joined(/\ L["value"].len = 1 /\ L["index"].len = 1
         /\ ArgmaxValid(L, i, w, size)
         /\ L[i].len > 0,
         ArgmaxTree(i, "none", L[i].len, <<"value", "index", 0>>, TRUE, size))
\* argmax makes the workspace and the outputs for this input.
Argmax(L, i, size) ==
  LET fresh == PairWorkspace(L[i].len, size) @@ [value |-> Buffer(1), index |-> Buffer(1)]
  IN Allocating(fresh, ArgmaxInto(fresh @@ L, i, [room |-> L[i].len, size |-> size], size))

TopKLoad(size) == Loading(LoadAccepts(size, TRUE, 2 * size))

\* workspace of top_k.rs: the masked copy of the input and the pair scratch.
TopKWorkspace(room, size) == [data |-> Buffer(room)] @@ PairWorkspace(room, size)

\* validate_execution
TopKValid(L, i, k) ==
  /\ k # 0 /\ L[i].len >= k
  /\ L["values"].len = k /\ L["indices"].len = k
  /\ SameContext(L, {i, "values", "indices"})

\* enqueue_fill copies the input, so that masking leaves it alone.
TopKFill(i, n, size) ==
  Launch(FlatGrid(n, size), size, 0, {}, i :> Flat(n, size), "data" :> Flat(n, size))

\* enqueue_mask: one thread stores at the winner's index, at most n - 1.
TopKMask(round, n) ==
  Launch(<<1, 1, 1>>, 1, 0, {}, "indices" :> {round}, "data" :> {n - 1})

\* What the blocks of argmax_first and argmax_pair read.
FirstReads(src, n, size) == src :> PairReads(PartialCount(n, size), n, size)
PairsRead(src, srcIndex, n, size) ==
  [b \in {src, srcIndex} |-> PairReads(PartialCount(n, size), n, size)]

\* scan_config: a block folds two elements per lane, 8 bytes of shared memory each.
Scan(n, reads, dst, size) ==
  Launch(<<PartialCount(n, size), 1, 1>>, size, 2 * size, {}, reads,
         (dst[1] :> dst[2]) @@ (dst[3] :> dst[4]))
\* enqueue_scan_plain, enqueue_scan_pair
ScanPlain(src, n, dst, size) == Scan(n, FirstReads(src, n, size), dst, size)
ScanPair(src, srcIndex, n, dst, size) == Scan(n, PairsRead(src, srcIndex, n, size), dst, size)

\* The loop of enqueue_round: the last pass writes the element out[3] of both outputs.
RECURSIVE TopKRound(_, _, _, _, _, _)
TopKRound(src, srcIndex, n, out, toA, size) ==
  LET p == PartialCount(n, size)
      dst == PairTarget(p, out, toA)
  IN << IF srcIndex = "none" THEN ScanPlain(src, n, dst, size)
        ELSE ScanPair(src, srcIndex, n, dst, size) >> \o
     IF p = 1 THEN <<>> ELSE TopKRound(dst[1], dst[3], p, out, ~toA, size)

\* Rounds round .. k - 1 of enqueue_top_k: the last winner is not masked.
RECURSIVE TopKRounds(_, _, _, _)
TopKRounds(round, k, n, size) ==
  TopKRound("data", "none", n, <<"values", "indices", round>>, TRUE, size) \o
  IF round + 1 < k THEN << TopKMask(round, n) >> \o TopKRounds(round + 1, k, n, size) ELSE <<>>

TopK(L, i, k, size) ==
  Allocating(TopKWorkspace(L[i].len, size),
    Joined(TopKValid(L, i, k),
           << TopKFill(i, L[i].len, size) >> \o TopKRounds(0, k, L[i].len, size)))

\* --- Softmax of one vector -----------------------------------------------
SoftmaxLoad(size) == Loading(LoadAccepts(size, FALSE, 0))

\* validate_execution, and validate_pooled_execution for pooled scalars.
SoftmaxValid(L, i, o) ==
  /\ L[i].len = L[o].len
  /\ L["max"].len = 1 /\ L["sum"].len = 1
  /\ SameContext(L, {i, o, "max", "sum"})
SoftmaxPooledValid(L, i, o) == SoftmaxValid(L, i, o)

ExpShift(i, o, n, size) ==
  Launch(FlatGrid(n, size), size, 0, {i, o},
         (i :> Flat(n, size)) @@ ("max" :> {0}), o :> Flat(n, size))
Normalize(o, n, size) ==
  Launch(FlatGrid(n, size), size, 0, {o},
         (o :> Flat(n, size)) @@ ("sum" :> {0}), o :> Flat(n, size))

\* Mutant: the sum is reduced before the exponentials are stored.
SumFirst(L, i, o, n, size, rsize) ==
  TreePasses(L, i, n, "max", rsize) \o TreePasses(L, o, n, "sum", rsize) \o
  << ExpShift(i, o, n, size) >> \o << Normalize(o, n, size) >>

\* enqueue_softmax: max tree, shifted exponentials, sum tree, division.
SoftmaxSteps(L, i, o, n, size, rsize) ==
  TreePasses(L, i, n, "max", rsize) \o << ExpShift(i, o, n, size) >> \o
  TreePasses(L, o, n, "sum", rsize) \o << Normalize(o, n, size) >>

\* softmax_into, on the caller's workspace: the max tree checks it before anything
\* is enqueued.  The reduction is loaded at its own block size rsize.
MaxAndSum == [max |-> Buffer(1), sum |-> Buffer(1)]
SoftmaxInto(L, i, o, w, size, rsize) ==
  LET M == MaxAndSum @@ L
  IN Allocating(MaxAndSum,
       Joined(/\ SoftmaxValid(M, i, o)
              /\ L[i].len > 0 => ReductionValid(M, i, "max", w, rsize),
              IF L[i].len = 0 THEN <<>> ELSE SoftmaxSteps(M, i, o, L[i].len, size, rsize)))
\* softmax makes the workspace for this input.
Softmax(L, i, o, size, rsize) ==
  LET room == Workspace(L[i].len, rsize)
  IN Allocating(room @@ MaxAndSum,
       SoftmaxInto(room @@ L, i, o, [room |-> L[i].len, size |-> rsize], size, rsize))
\* softmax_pooled: every scratch buffer from the allocator.
SoftmaxPooled(L, i, o, size, rsize) ==
  LET fresh == Workspace(L[i].len, rsize) @@ MaxAndSum
      M == fresh @@ L
  IN Allocating(fresh,
       Joined(SoftmaxPooledValid(M, i, o),
              IF L[i].len = 0 THEN <<>> ELSE SoftmaxSteps(M, i, o, L[i].len, size, rsize)))

\* --- Row softmax ---------------------------------------------------------
RowSoftmaxLoad(size) == Loading(LoadAccepts(size, TRUE, size))

\* validate_shapes, the same text in the three row families.
RowShapes(L, i, o, rows, cols) ==
  /\ L[i].len = rows * cols /\ L[o].len = rows * cols
  /\ SameContext(L, {i, o})

\* validate_execution of the three families: a workspace of the kernels' context
\* with a scalar per row in each column.
RowWorkspaceValid(L, i, o, columns, rows, cols) ==
  /\ RowShapes(L, i, o, rows, cols)
  /\ \A c \in columns : rows <= L[c].len
  /\ SameContext(L, columns)
\* workspace, pooled_workspace: columns of max_rows scalars.
RowWorkspace(columns, room) == [c \in columns |-> Buffer(room)]
SoftmaxColumns == {"row_scalars"}

\* fused_shared_memory: the row and one partial per lane.
FusedShared(cols, size) == cols + size
FusedAvailable(cols, size) == FusedShared(cols, size) <= MaxShared

\* Launches of one block per row.
RowReduction(src, column, rows, cols, size) ==
  Launch(<<rows, 1, 1>>, size, size, {src, column}, src :> Span(rows * cols), column :> Span(rows))
RowFused(i, o, rows, cols, size) ==
  Launch(<<rows, 1, 1>>, size, FusedShared(cols, size), {i, o}, i :> Span(rows * cols), o :> Span(rows * cols))

\* Kernels of one thread per element: index / cols picks the row's scalar.
RowOfIndex(n, cols, size) == {x \div cols : x \in Flat(n, size)}
RowExpShift(i, o, column, rows, cols, size) ==
  Launch(FlatGrid(rows * cols, size), size, 0, {i, o, column},
         (i :> Flat(rows * cols, size)) @@ (column :> RowOfIndex(rows * cols, cols, size)),
         o :> Flat(rows * cols, size))
RowNormalize(o, column, rows, cols, size) ==
  Launch(FlatGrid(rows * cols, size), size, 0, {o, column},
         (o :> Flat(rows * cols, size)) @@ (column :> RowOfIndex(rows * cols, cols, size)),
         o :> Flat(rows * cols, size))

\* enqueue_softmax_rows: one column of row scalars serves the max, then the sum.
RowSoftmaxSteps(i, o, rows, cols, size) ==
  << RowReduction(i, "row_scalars", rows, cols, size),
     RowExpShift(i, o, "row_scalars", rows, cols, size),
     RowReduction(o, "row_scalars", rows, cols, size),
     RowNormalize(o, "row_scalars", rows, cols, size) >>

\* softmax_rows, on the caller's workspace.
SoftmaxRowsIn(L, i, o, rows, cols, size) ==
  Joined(RowWorkspaceValid(L, i, o, SoftmaxColumns, rows, cols),
         IF rows = 0 \/ cols = 0 THEN <<>> ELSE RowSoftmaxSteps(i, o, rows, cols, size))
SoftmaxRows(L, i, o, rows, cols, size) ==
  LET fresh == RowWorkspace(SoftmaxColumns, rows)
  IN Allocating(fresh, SoftmaxRowsIn(fresh @@ L, i, o, rows, cols, size))

\* enqueue_fused_rows
FusedSoftmaxRows(L, i, o, rows, cols, size) ==
  Joined(/\ RowShapes(L, i, o, rows, cols)
         /\ (rows = 0 \/ cols = 0) \/ FusedAvailable(cols, size),
         IF rows = 0 \/ cols = 0 THEN <<>> ELSE << RowFused(i, o, rows, cols, size) >>)

\* softmax_rows_dispatched
SoftmaxRowsDispatched(L, i, o, rows, cols, size) ==
  IF FusedAvailable(cols, size) THEN FusedSoftmaxRows(L, i, o, rows, cols, size)
  ELSE SoftmaxRows(L, i, o, rows, cols, size)

\* --- RMS norm and layer norm ---------------------------------------------
RmsColumns == {"row_sumsq"}
LayerColumns == {"row_means", "row_vars"}
RmsNormLoad(size) == Loading(LoadAccepts(size, TRUE, size))
LayerNormLoad(size) == Loading(LoadAccepts(size, TRUE, size))

\* launch_row_sumsq and launch_row_stats: the columns are raw pointers whose
\* capacities are compared with rows.
RowStatistics(L, i, columns, rows, cols, size) ==
  [Launch(<<rows, 1, 1>>, size, size, {i}, i :> Span(rows * cols), [c \in columns |-> Span(rows)])
     EXCEPT !.fits = \A c \in columns : rows <= L[c].len]

\* launch_normalize of both families.
NormNormalize(i, o, columns, rows, cols, size) ==
  Launch(FlatGrid(rows * cols, size), size, 0, {i, o},
         (i :> Flat(rows * cols, size)) @@
           [c \in columns |-> RowOfIndex(rows * cols, cols, size)],
         o :> Flat(rows * cols, size))

\* Mutant: the rows are not compared with the workspace.
NormRowsUnchecked(L, i, o, columns, rows, cols, size) ==
  Joined(RowShapes(L, i, o, rows, cols) /\ SameContext(L, columns),
         IF rows = 0 \/ cols = 0 THEN <<>>
         ELSE << [RowStatistics(L, i, columns, rows, cols, size) EXCEPT !.fits = TRUE],
                 NormNormalize(i, o, columns, rows, cols, size) >>)
\* The same two launches of rms_norm.rs: one column.
RmsStatistics(L, i, rows, cols, size) == RowStatistics(L, i, RmsColumns, rows, cols, size)
RmsNormalize(i, o, rows, cols, size) == NormNormalize(i, o, RmsColumns, rows, cols, size)

\* enqueue_normalize_rows of layernorm.rs and of rms_norm.rs, after the validation.
LayerNormSteps(L, i, o, rows, cols, size) ==
  << RowStatistics(L, i, LayerColumns, rows, cols, size),
     NormNormalize(i, o, LayerColumns, rows, cols, size) >>
RmsNormSteps(L, i, o, rows, cols, size) ==
  << RmsStatistics(L, i, rows, cols, size), RmsNormalize(i, o, rows, cols, size) >>

\* normalize_rows, on the caller's workspace.
NormRowsIn(L, i, o, columns, rows, cols, size) ==
  Joined(RowWorkspaceValid(L, i, o, columns, rows, cols),
         IF rows = 0 \/ cols = 0 THEN <<>>
         ELSE IF columns = RmsColumns THEN RmsNormSteps(L, i, o, rows, cols, size)
         ELSE LayerNormSteps(L, i, o, rows, cols, size))
NormRows(L, i, o, columns, rows, cols, size) ==
  LET fresh == RowWorkspace(columns, rows)
  IN Allocating(fresh, NormRowsIn(fresh @@ L, i, o, columns, rows, cols, size))

\* launch_fused and enqueue_fused_rows of both families.
LayerFused(i, o, rows, cols, size) == RowFused(i, o, rows, cols, size)
RmsFused(i, o, rows, cols, size) == RowFused(i, o, rows, cols, size)
FusedLayerRows(L, i, o, rows, cols, size) ==
  Joined(/\ RowShapes(L, i, o, rows, cols)
         /\ (rows = 0 \/ cols = 0) \/ FusedAvailable(cols, size),
         IF rows = 0 \/ cols = 0 THEN <<>> ELSE << LayerFused(i, o, rows, cols, size) >>)
FusedRmsRows(L, i, o, rows, cols, size) ==
  Joined(/\ RowShapes(L, i, o, rows, cols)
         /\ (rows = 0 \/ cols = 0) \/ FusedAvailable(cols, size),
         IF rows = 0 \/ cols = 0 THEN <<>> ELSE << RmsFused(i, o, rows, cols, size) >>)

\* normalize_rows_dispatched and its pooled form.
RmsNorm(L, i, o, rows, cols, size) ==
  IF FusedAvailable(cols, size) THEN FusedRmsRows(L, i, o, rows, cols, size)
  ELSE NormRows(L, i, o, RmsColumns, rows, cols, size)
LayerNorm(L, i, o, rows, cols, size) ==
  IF FusedAvailable(cols, size) THEN FusedLayerRows(L, i, o, rows, cols, size)
  ELSE NormRows(L, i, o, LayerColumns, rows, cols, size)

\* bf16_norms.rs: widen, the F32 norm, narrow; empty shapes are refused.
Bf16NormValid(L, i, o, rows, cols) ==
  /\ rows # 0 /\ cols # 0
  /\ RowShapes(L, i, o, rows, cols)
Bf16Wide(rows, cols) == [wide_in |-> Buffer(rows * cols), wide_out |-> Buffer(rows * cols)]
Bf16RmsNorm(L, i, o, rows, cols, size) ==
  LET M == Bf16Wide(rows, cols) @@ L
  IN << Allocating(Bf16Wide(rows, cols), Plain(Bf16NormValid(L, i, o, rows, cols), <<>>)),
        Bf16Raw(M, i, "wide_in", size),
        RmsNorm(M, "wide_in", "wide_out", rows, cols, size),
        Bf16Raw(M, "wide_out", o, size) >>
Bf16LayerNorm(L, i, o, rows, cols, size) ==
  LET M == Bf16Wide(rows, cols) @@ L
  IN << Allocating(Bf16Wide(rows, cols), Plain(Bf16NormValid(L, i, o, rows, cols), <<>>)),
        Bf16Raw(M, i, "wide_in", size),
        LayerNorm(M, "wide_in", "wide_out", rows, cols, size),
        Bf16Raw(M, "wide_out", o, size) >>
===============================================================================
