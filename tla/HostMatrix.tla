------------------------------ MODULE HostMatrix ------------------------------
(***************************************************************************)
(* Host side of the matrix, projection, gather, scatter, rope and          *)
(* attention families of nnis-kernels, on top of the row families.         *)
(***************************************************************************)
EXTENDS HostRows

\* --- Tiled matrix products -----------------------------------------------
\* shared_memory_bytes, in floats: a tile of each operand.
TileShared(tile) == 2 * tile * tile
Bf16TileShared(tile) == TileShared(tile)

\* load_with_tile_side: a tile is a block; two tiles of shared memory.
GemmLoad(tile) ==
  Loading(tile # 0 /\ PowerOfTwoSize(tile) /\ tile * tile <= MaxBlockThreads
          /\ TileShared(tile) <= MaxShared)
Bf16GemmLoad(tile) ==
  Loading(tile # 0 /\ PowerOfTwoSize(tile) /\ tile * tile <= MaxBlockThreads
          /\ Bf16TileShared(tile) <= MaxShared)

\* The lengths validate_execution, its _nt form and validate_batched require;
\* g.z is 1 for the plain products.
GemmLengths(a, b, o, g) ==
  (a :> g.z * g.m * g.k) @@ (b :> g.z * g.k * g.n) @@ (o :> g.z * g.m * g.n)
GemmValid(L, a, b, o, g) == Exact(L, GemmLengths(a, b, o, g)) /\ SameContext(L, {a, b, o})
\* validate_batched_execution compares the buffers with the stream only.
BatchedValid(L, a, b, o, g) ==
  /\ g.z # 0 /\ g.z <= MaxGridYZ
  /\ Exact(L, GemmLengths(a, b, o, g))
  /\ \A x \in {a, b, o} : L[x].ctx = L["stream"].ctx
\* The same two validators on bf16 storage.
Bf16GemmValid(L, a, b, o, g) == GemmValid(L, a, b, o, g)
Bf16BatchedValid(L, a, b, o, g) == BatchedValid(L, a, b, o, g)

\* Mutant: the grid is rounded down and the last tile is lost.
WholeTiles(n, tile) == n \div tile
\* div_ceil
Tiles(n, tile) == CeilDiv(n, tile)

\* Rows and columns inside the grid and the kernel's guards.
Inside(n, tile) == Span(Least(Tiles(n, tile) * tile, n))

\* The kernels' indexing: batch, row and column of every thread in the guards.
GemmLaunch(a, b, o, g, nt, tile) ==
  Launch(<<Tiles(g.m, tile), Tiles(g.n, tile), g.z>>, tile * tile, TileShared(tile), {a, b, o},
    (a :> {(z * g.m + r) * g.k + e : z \in Span(g.z), r \in Inside(g.m, tile), e \in Span(g.k)}) @@
    (b :> {IF nt THEN (z * g.n + c) * g.k + e ELSE (z * g.k + e) * g.n + c :
             z \in Span(g.z), c \in Inside(g.n, tile), e \in Span(g.k)}),
    o :> {(z * g.m + r) * g.n + c : z \in Span(g.z), r \in Inside(g.m, tile), c \in Inside(g.n, tile)})

\* Mutant: nothing is enqueued for an empty inner dimension.
SkipEmptyInner(L, a, b, o, g, nt, tile) ==
  IF g.m = 0 \/ g.n = 0 \/ g.k = 0 THEN <<>> ELSE << GemmLaunch(a, b, o, g, nt, tile) >>
\* The common body of the enqueue functions: k = 0 fills the output with zero.
GemmSteps(L, a, b, o, g, nt, tile) ==
  IF g.m = 0 \/ g.n = 0 THEN <<>>
  ELSE IF g.k = 0 THEN ZeroFill(L, o)
  ELSE << GemmLaunch(a, b, o, g, nt, tile) >>

\* gemm
Gemm(L, a, b, o, g, tile) == Joined(GemmValid(L, a, b, o, g), GemmSteps(L, a, b, o, g, FALSE, tile))
\* gemm_transposed_b
GemmNt(L, a, b, o, g, tile) == Joined(GemmValid(L, a, b, o, g), GemmSteps(L, a, b, o, g, TRUE, tile))
\* gemm_batched
GemmBatched(L, a, b, o, g, tile) ==
  Joined(BatchedValid(L, a, b, o, g), GemmSteps(L, a, b, o, g, FALSE, tile))
\* gemm_transposed_b_batched
GemmNtBatched(L, a, b, o, g, tile) ==
  Joined(BatchedValid(L, a, b, o, g), GemmSteps(L, a, b, o, g, TRUE, tile))

\* bf16_gemm.rs, the same four operations on bf16 storage.
Bf16Gemm(L, a, b, o, g, tile) ==
  Joined(Bf16GemmValid(L, a, b, o, g), GemmSteps(L, a, b, o, g, FALSE, tile))
Bf16GemmNt(L, a, b, o, g, tile) ==
  Joined(Bf16GemmValid(L, a, b, o, g), GemmSteps(L, a, b, o, g, TRUE, tile))
Bf16GemmBatched(L, a, b, o, g, tile) ==
  Joined(Bf16BatchedValid(L, a, b, o, g), GemmSteps(L, a, b, o, g, FALSE, tile))
Bf16GemmNtBatched(L, a, b, o, g, tile) ==
  Joined(Bf16BatchedValid(L, a, b, o, g), GemmSteps(L, a, b, o, g, TRUE, tile))

\* --- Matrix-vector products ----------------------------------------------
GemvLoad(size) == Loading(LoadAccepts(size, TRUE, size))
\* INT4; the mixed, INT2 and sparse families load one kernel the same way.
ProjectionLoad(size) == Loading(LoadAccepts(size, TRUE, 0))
MixedLoad(size) == ProjectionLoad(size)
Int2Load(size) == ProjectionLoad(size)
SparseCscLoad(size) == ProjectionLoad(size)

\* validate_execution and validate_project_execution
GemvValid(L, rows, cols) ==
  /\ Exact(L, [matrix |-> rows * cols, vector |-> cols, out |-> rows])
  /\ SameContext(L, {"matrix", "vector", "out"})
ProjectValid(L, i, w, o, k, n) ==
  Exact(L, (i :> k) @@ (w :> k * n) @@ (o :> n)) /\ SameContext(L, {i, w, o})

\* gemv: one block per row; an empty shape zeroes the output.
Gemv(L, rows, cols, size) ==
  Joined(GemvValid(L, rows, cols),
         IF rows = 0 \/ cols = 0 THEN ZeroFill(L, "out")
         ELSE << Launch(<<rows, 1, 1>>, size, size, {"matrix", "vector", "out"},
                        [matrix |-> Span(rows * cols), vector |-> Span(cols)], "out" :> Span(rows)) >>)

\* The rest of enqueue_project_kn, the same in the dense, bf16, INT4 and INT2
\* families: one thread per column walks the rows of the weight.
ProjectionSteps(L, i, o, weights, k, n, size) ==
  IF n = 0 THEN <<>>
  ELSE IF k = 0 THEN ZeroFill(L, o)
  ELSE << Launch(FlatGrid(n, size), size, 0, {i, o} \cup DOMAIN weights,
                 (i :> Span(k)) @@ weights, o :> Flat(n, size)) >>

Flats(cols, k, n) == {row * n + col : row \in Span(k), col \in cols}

\* project_kn of gemv.rs and of mixed_weight_gemv.rs
Project(L, i, w, o, k, n, size) ==
  Joined(ProjectValid(L, i, w, o, k, n),
         ProjectionSteps(L, i, o, w :> Flats(Flat(n, size), k, n), k, n, size))
\* A thread of the mixed kernel widens the weight at row * n + col.
Bf16Reads(w, cols, k, n) == w :> Flats(cols, k, n)
Bf16WeightProject(L, i, w, o, k, n, size) ==
  Joined(ProjectValid(L, i, w, o, k, n),
         ProjectionSteps(L, i, o, Bf16Reads(w, Flat(n, size), k, n), k, n, size))

\* Mutant: an odd number of nibbles loses its last byte.
PackedDown(elements, perByte) == elements \div perByte
\* (elements + 1) / 2 and (elements + 3) / 4 in the validators.
PackedBytes(elements, perByte) == CeilDiv(elements, perByte)

\* The kernels read byte flat >> 1 (INT4) or flat >> 2 (INT2), and scale[0].
Int4Reads(cols, k, n) == [packed |-> {f \div 2 : f \in Flats(cols, k, n)}, scale |-> {0}]
Int2Reads(cols, k, n) == [packed |-> {f \div 4 : f \in Flats(cols, k, n)}, scale |-> {0}]
\* validate
PackedValid(L, k, n, perByte) ==
  /\ Exact(L, [in |-> k, packed |-> PackedBytes(k * n, perByte), scale |-> 1, out |-> n])
  /\ SameContext(L, {"in", "packed", "scale", "out"})
Int4Project(L, k, n, size) ==
  Joined(PackedValid(L, k, n, 2),
         ProjectionSteps(L, "in", "out", Int4Reads(Flat(n, size), k, n), k, n, size))
Int2Project(L, k, n, size) ==
  Joined(PackedValid(L, k, n, 4),
         ProjectionSteps(L, "in", "out", Int2Reads(Flat(n, size), k, n), k, n, size))

\* sparse_csc_gemv.rs: offsets and rows come from the device.  offsets is what
\* column_offsets holds and rows what row_indices holds; malformed columns
\* write NaN and read no further.
CscColumn(c, csc, k, nnz) ==
  LET first == csc.offsets[c]
      last == csc.offsets[c + 1]
      span == IF first > last \/ last > nnz THEN {} ELSE first .. last - 1
      bad == {x \in span : csc.rows[x] >= k}
      walked == IF bad = {} THEN span
                ELSE {x \in span : \A y \in bad : x <= y}
  IN [entries |-> walked, inputs |-> {csc.rows[x] : x \in walked \ bad},
      values |-> walked \ bad]

SparseProject(L, csc, k, n, size) ==
  LET nnz == L["values"].len
      columns == {CscColumn(c, csc, k, nnz) : c \in Flat(n, size)}
  IN Joined(/\ Exact(L, [in |-> k, offsets |-> n + 1, rows |-> nnz, out |-> n])
            /\ ~(k = 0 /\ nnz > 0)
            /\ SameContext(L, {"in", "offsets", "rows", "values", "out"}),
            IF n = 0 THEN <<>>
            ELSE IF nnz = 0 THEN ZeroFill(L, "out")
            ELSE << Launch(FlatGrid(n, size), size, 0, {"in", "offsets", "rows", "values", "out"},
                      [in |-> UNION {c.inputs : c \in columns},
                       offsets |-> UNION {{c, c + 1} : c \in Flat(n, size)},
                       rows |-> UNION {c.entries : c \in columns},
                       values |-> UNION {c.values : c \in columns}],
                      "out" :> Flat(n, size)) >>)

\* --- Gather, scatter, rope -----------------------------------------------
\* The gather kernels read row indices[index / cols] of the table.
MovedRows(idx, cols, covered) == {idx[(x \div cols) + 1] * cols + (x % cols) : x \in covered}
\* The scatter kernels write row positions[index / cols] of the output.
ScatteredRows(idx, cols, covered) == MovedRows(idx, cols, covered)

\* Mutant: the host check of the indices lets row = rows pass.
InclusiveRange(idx, rows) == \A j \in DOMAIN idx : idx[j] <= rows
\* gather and scatter read the indices back and refuse one out of range.
InRange(idx, rows) == \A j \in DOMAIN idx : idx[j] < rows

\* F32 gather: validate_common does not compare the output's context and the
\* table and the output are passed as raw pointers.
EnqueueGather(L, index, o, idx, rows, cols, size) ==
  Plain(/\ Exact(L, [table |-> rows * cols] @@ (index :> Len(idx)) @@ (o :> Len(idx) * cols))
        /\ SameContext(L, {"table", index}),
        IF idx = <<>> THEN <<>>
        ELSE << Launch(FlatGrid(Len(idx) * cols, size), size, 0, {index},
                  (index :> {x \div cols : x \in Flat(Len(idx) * cols, size)})
                    @@ [table |-> MovedRows(idx, cols, Flat(Len(idx) * cols, size))],
                  o :> Flat(Len(idx) * cols, size)) >>)
GatherF32(L, idx, rows, cols, size) ==
  LET s == EnqueueGather(L, "idx", "out", idx, rows, cols, size)
  IN Joined(InRange(idx, rows) /\ s.ok, s.steps)
GatherBf16(L, idx, rows, cols, size) ==
  LET s == GatherF32(L, idx, rows, cols, size)
  IN [s EXCEPT !.ok = @ /\ SameContext(L, {"out"})]

\* scatter: positions in range and all different.
Scatter(L, idx, rows, cols, size) ==
  Joined(/\ InRange(idx, rows)
         /\ \A x, y \in DOMAIN idx : idx[x] = idx[y] => x = y
         /\ Exact(L, [source |-> Len(idx) * cols, idx |-> Len(idx), out |-> rows * cols])
         /\ SameContext(L, {"source", "idx", "out"}),
         IF idx = <<>> THEN <<>>
         ELSE << Launch(FlatGrid(Len(idx) * cols, size), size, 0, {"source", "idx", "out"},
                   [idx |-> {x \div cols : x \in Flat(Len(idx) * cols, size)},
                    source |-> Flat(Len(idx) * cols, size)],
                   "out" :> ScatteredRows(idx, cols, Flat(Len(idx) * cols, size))) >>)

GatherLoad(size) == Loading(LoadAccepts(size, TRUE, 0))
Bf16GatherLoad(size) == GatherLoad(size)
ScatterLoad(size) == GatherLoad(size)
RopeLoad(size) == Loading(LoadAccepts(size, FALSE, 0))

\* Both halves of the pair that a thread rotates.
RopePair(x, half, interleaved) ==
  LET r == x \div half  j == x % half
  IN IF interleaved THEN {r * half * 2 + 2 * j, r * half * 2 + 2 * j + 1}
     ELSE {r * half * 2 + j, r * half * 2 + half + j}

\* apply_interleaved and apply_rotate_half, with validate.
Rope(L, rows, cols, interleaved, size) ==
  LET half == cols \div 2
      threads == Flat(rows * half, size)
      pairs == UNION {RopePair(x, half, interleaved) : x \in threads}
  IN Joined(/\ cols % 2 = 0
            /\ Exact(L, [in |-> rows * cols, out |-> rows * cols, cos |-> rows * half, sin |-> rows * half])
            /\ SameContext(L, {"in", "out", "cos", "sin"}),
            IF rows = 0 \/ cols = 0 THEN <<>>
            ELSE << Launch(FlatGrid(rows * half, size), size, 0, {"in", "cos", "sin", "out"},
                           [in |-> pairs, cos |-> threads, sin |-> threads], "out" :> pairs) >>)

\* --- Attention -----------------------------------------------------------
\* t: heads, query rows, head dim, kv rows, value dim, causal.
AttentionLoad(size) == Loading(LoadAccepts(size, TRUE, 0))
Bf16AttentionLoad(size) == Loading(LoadAccepts(size, TRUE, 0))

\* fused_shared_memory_bytes, in floats.
AttentionShared(t, size) == size * t.dim + size * t.vdim + 2 * size + t.dim + t.vdim
AttentionFits(t, size) == AttentionShared(t, size) <= MaxShared
\* The same of bf16_attention.rs: tiles are widened to f32 while staged.
Bf16AttentionShared(t, size) == AttentionShared(t, size)
Bf16AttentionFits(t, size) == Bf16AttentionShared(t, size) <= MaxShared

AttentionLengths(q, k, v, o, t) ==
  (q :> t.heads * t.q * t.dim) @@ (k :> t.heads * t.kv * t.dim) @@
  (v :> t.heads * t.kv * t.vdim) @@ (o :> t.heads * t.q * t.vdim)

\* validate_execution: one head, no empty dimension but the query rows.
AttentionValid(L, q, k, v, o, t) ==
  /\ t.dim # 0 /\ t.kv # 0 /\ t.vdim # 0
  /\ Exact(L, AttentionLengths(q, k, v, o, t))
  /\ SameContext(L, {q, k, v, o})

\* validate_multihead_execution refuses no empty dimension but the heads.
MultiheadValid(L, q, k, v, o, t) ==
  /\ t.heads # 0
  /\ Exact(L, AttentionLengths(q, k, v, o, t))
  /\ SameContext(L, {q, k, v, o})

\* A causal mask needs as many queries as keys.
MaskValid(t) == t.causal => t.q = t.kv

\* One block per head and query row; every block walks the head's keys.
FusedLaunch(q, k, v, o, t, size, shared) ==
  Launch(<<t.heads * t.q, 1, 1>>, size, shared, {q, k, v, o},
         (q :> Span(t.heads * t.q * t.dim)) @@ (k :> Span(t.heads * t.kv * t.dim)) @@
           (v :> Span(t.heads * t.kv * t.vdim)),
         o :> Span(t.heads * t.q * t.vdim))

\* attention_fused
AttentionFused(L, t, size) ==
  Joined(AttentionValid(L, "q", "k", "v", "out", t) /\ MaskValid(t) /\ AttentionFits(t, size),
         IF t.q = 0 THEN <<>> ELSE << FusedLaunch("q", "k", "v", "out", t, size, AttentionShared(t, size)) >>)
\* attention_fused_multihead
AttentionMultihead(L, t, size) ==
  Joined(MultiheadValid(L, "q", "k", "v", "out", t) /\ MaskValid(t) /\ AttentionFits(t, size),
         IF t.q = 0 THEN <<>> ELSE << FusedLaunch("q", "k", "v", "out", t, size, AttentionShared(t, size)) >>)
\* bf16_attention.rs
Bf16AttentionFused(L, t, size) ==
  Joined(AttentionValid(L, "q", "k", "v", "out", t) /\ MaskValid(t) /\ Bf16AttentionFits(t, size),
         IF t.q = 0 THEN <<>>
         ELSE << FusedLaunch("q", "k", "v", "out", t, size, Bf16AttentionShared(t, size)) >>)
Bf16AttentionMultihead(L, t, size) ==
  Joined(MultiheadValid(L, "q", "k", "v", "out", t) /\ MaskValid(t) /\ Bf16AttentionFits(t, size),
         IF t.q = 0 THEN <<>>
         ELSE << FusedLaunch("q", "k", "v", "out", t, size, Bf16AttentionShared(t, size)) >>)

\* enqueue_scale_causal and its multi-head form, awaited by the caller.
ScaleCausal(L, i, o, n, size) ==
  Plain(L[i].len = n /\ L[o].len = n /\ SameContext(L, {i, o}),
        IF n = 0 THEN <<>> ELSE << ElementwiseLaunch({i}, o, n, size, {i, o}) >>)
Masked(L, i, o, t, size) ==
  IF t.causal THEN ScaleCausal(L, i, o, t.heads * t.q * t.kv, size) ELSE Elementwise(L, {i}, o, size)

ScoreShape(t) == [z |-> t.heads, m |-> t.q, n |-> t.kv, k |-> t.dim]
ValueShape(t) == [z |-> t.heads, m |-> t.q, n |-> t.vdim, k |-> t.kv]

\* Mutant: the row softmax of the composed path is skipped.
ComposedUnmasked(L, q, k, v, o, t, size, tile) ==
  LET scores == [scores |-> Buffer(t.q * t.kv), probs |-> Buffer(t.q * t.kv)]
      M == scores @@ L
  IN << Allocating(scores, Plain(/\ t.dim # 0 /\ t.kv # 0 /\ t.vdim # 0 /\ MaskValid(t)
                                 /\ Exact(L, AttentionLengths(q, k, v, o, t)), <<>>)),
        GemmNt(M, q, k, "scores", ScoreShape(t), tile),
        SoftmaxRowsDispatched(M, "probs", "probs", t.q, t.kv, size),
        Gemm(M, "probs", v, o, ValueShape(t), tile) >>
\* attention_composed: the contexts are left to the calls it makes.
Composed(L, q, k, v, o, t, size, tile) ==
  LET scores == [scores |-> Buffer(t.q * t.kv), probs |-> Buffer(t.q * t.kv)]
      M == scores @@ L
  IN << Allocating(scores, Plain(/\ t.dim # 0 /\ t.kv # 0 /\ t.vdim # 0 /\ MaskValid(t)
                                 /\ Exact(L, AttentionLengths(q, k, v, o, t)), <<>>)),
        GemmNt(M, q, k, "scores", ScoreShape(t), tile),
        Masked(M, "scores", "probs", t, size),
        SoftmaxRowsDispatched(M, "probs", "probs", t.q, t.kv, size),
        Gemm(M, "probs", v, o, ValueShape(t), tile) >>

\* attention_composed_multihead: the scores are masked and normalized in place.
ComposedMultihead(L, q, k, v, o, t, size, tile) ==
  LET probs == [probs |-> Buffer(t.heads * t.q * t.kv)]
      M == probs @@ L
      refused == ~(MultiheadValid(L, q, k, v, o, t) /\ MaskValid(t))
  IN IF refused \/ t.q = 0 THEN << Plain(~refused, <<>>) >>
     ELSE << Allocating(probs, Plain(TRUE, <<>>)),
             GemmNtBatched(M, q, k, "probs", ScoreShape(t), tile),
             Masked(M, "probs", "probs", t, size),
             SoftmaxRowsDispatched(M, "probs", "probs", t.heads * t.q, t.kv, size),
             GemmBatched(M, "probs", v, o, ValueShape(t), tile) >>

WideBuffers(t) ==
  [wide_q |-> Buffer(t.heads * t.q * t.dim), wide_k |-> Buffer(t.heads * t.kv * t.dim),
   wide_v |-> Buffer(t.heads * t.kv * t.vdim), wide_o |-> Buffer(t.heads * t.q * t.vdim)]

\* The bf16 composed paths widen, call the F32 path and narrow the result.
Widened(L, ok, t, size, inner) ==
  IF ~ok \/ t.q = 0 THEN << Plain(ok, <<>>) >>
  ELSE LET M == WideBuffers(t) @@ L
       IN << Allocating(WideBuffers(t), Plain(TRUE, <<>>)), Bf16Raw(M, "q", "wide_q", size),
             Bf16Raw(M, "k", "wide_k", size), Bf16Raw(M, "v", "wide_v", size) >> \o
          inner \o << Bf16Raw(M, "wide_o", "out", size) >>

\* attention_composed of bf16_attention.rs
Bf16Composed(L, t, size, tile) ==
  Widened(L, AttentionValid(L, "q", "k", "v", "out", t) /\ MaskValid(t), t, size,
          Composed(WideBuffers(t) @@ L, "wide_q", "wide_k", "wide_v", "wide_o", t, size, tile))
\* attention_composed_multihead of bf16_attention.rs
Bf16ComposedMultihead(L, t, size, tile) ==
  Widened(L, MultiheadValid(L, "q", "k", "v", "out", t) /\ MaskValid(t), t, size,
          ComposedMultihead(WideBuffers(t) @@ L, "wide_q", "wide_k", "wide_v", "wide_o", t, size, tile))

\* attention_composed_quantized: scores and probabilities are narrowed to bf16.
Bf16ComposedQuantized(L, t, size, tile) ==
  LET fresh == [packed |-> Buffer(t.q * t.kv), probs |-> Buffer(t.q * t.kv)]
      M == fresh @@ L
      ok == AttentionValid(L, "q", "k", "v", "out", t) /\ MaskValid(t)
  IN IF ~ok \/ t.q = 0 THEN << Plain(ok, <<>>) >>
     ELSE << Allocating(fresh, Plain(TRUE, <<>>)),
             Bf16GemmNt(M, "q", "k", "packed", ScoreShape(t), tile),
             Bf16Raw(M, "packed", "probs", size),
             Masked(M, "probs", "probs", t, size),
             SoftmaxRowsDispatched(M, "probs", "probs", t.q, t.kv, size),
             Bf16Raw(M, "probs", "packed", size),
             Bf16Gemm(M, "packed", "v", "out", ValueShape(t), tile) >>
===============================================================================
