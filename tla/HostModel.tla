------------------------------ MODULE HostModel ------------------------------
(***************************************************************************)
(* Host side of the decoder kernels of nnis-model: the F32 kernels, the    *)
(* F16 reference kernels and the candidates that replace them.  size       *)
(* stands for the block size of the family: a constant of the source (128  *)
(* for reductions, 256 for elementwise kernels) except where a load takes  *)
(* it as an argument.                                                      *)
(***************************************************************************)
EXTENDS HostMatrix

\* An enqueue function: one launch, which the caller synchronizes.
Enqueued(ok, launch) == Plain(ok, << launch >>)
\* The same with an early return for empty shapes.
EnqueuedUnless(empty, ok, launch) == Plain(ok, IF empty THEN <<>> ELSE << launch >>)

\* --- Loads ---------------------------------------------------------------
DecoderLoad(size) == Loading(LoadAccepts(size, FALSE, size))
RuntimeLoad(size) == Loading(LoadAccepts(size, FALSE, 0))
F16ReferenceLoad(size) == Loading(LoadAccepts(size, FALSE, size))
TransposedLoad(size) == Loading(LoadAccepts(size, FALSE, size))
FusedGroupsLoad(size) == Loading(LoadAccepts(size, FALSE, size))
FusedMlpLoad(size) == Loading(LoadAccepts(size, FALSE, 2 * size))
CandidateRmsLoad(size) == Loading(LoadAccepts(size, TRUE, size))
SiluMultiplyLoad(size) == Loading(LoadAccepts(size, FALSE, 0))
\* The attention candidates only read the limits of their function.
AttentionCandidateLoad == Loading(TRUE)

\* --- Elementwise ---------------------------------------------------------
\* Every length and context is compared before an empty output returns.
Checked(L, ins, o) == SameLength(L, ins \cup {o}) /\ SameContext(L, ins \cup {o})
Mapped(L, ins, o, size) ==
  EnqueuedUnless(L[o].len = 0, Checked(L, ins, o),
                 ElementwiseLaunch(ins, o, L[o].len, size, ins \cup {o}))
NarrowF16(L, i, o, size) == Mapped(L, {i}, o, size)
WidenF16(L, i, o, size) == Mapped(L, {i}, o, size)
AddF16(L, a, b, o, size) == Mapped(L, {a, b}, o, size)
SiluMultiplyF16(L, gate, up, o, size) == Mapped(L, {gate, up}, o, size)
SiluMultiply(L, gate, up, o, size) == Mapped(L, {gate, up}, o, size)
\* multiply waits for the stream after a failed launch too.
MultiplyF32(L, a, b, o, size) == [Mapped(L, {a, b}, o, size) EXCEPT !.join = TRUE]

\* --- Weighted RMS norm: one block per row --------------------------------
WeightedRmsSteps(L, i, w, o, rows, cols, size) ==
  EnqueuedUnless(rows = 0 \/ cols = 0,
    /\ L[i].len = rows * cols /\ L[o].len = rows * cols /\ L[w].len = cols
    /\ SameContext(L, {i, w, o}),
    Launch(<<rows, 1, 1>>, size, size, {i, w, o},
           (i :> Span(rows * cols)) @@ (w :> Span(cols)), o :> Span(rows * cols)))
WeightedRmsNormF16(L, i, w, o, rows, cols, size) == WeightedRmsSteps(L, i, w, o, rows, cols, size)
WeightedRmsNorm(L, i, w, o, rows, cols, size) ==
  [WeightedRmsSteps(L, i, w, o, rows, cols, size) EXCEPT !.join = TRUE]
CandidateRmsNorm(L, i, w, o, rows, cols, size) == WeightedRmsNorm(L, i, w, o, rows, cols, size)

\* --- Projections: one block per output column ----------------------------
ProjectionShapes(L, i, w, o, k, n) ==
  L[i].len = k /\ L[w].len = k * n /\ L[o].len = n /\ SameContext(L, {i, w, o})
\* A row-major column is every n-th element, a transposed one a row of k.
KnColumn(k, n, col) == {row * n + col : row \in Span(k)}
NkColumn(k, col) == {col * k + row : row \in Span(k)}
KnCells(k, n, cols) == UNION {KnColumn(k, n, col) : col \in cols}
NkCells(k, cols) == UNION {NkColumn(k, col) : col \in cols}

\* An empty K still launches: every block stores a zero sum.
ColumnBlocks(i, w, o, k, n, cells, size) ==
  Launch(<<n, 1, 1>>, size, size, {i, w, o}, (i :> Span(k)) @@ (w :> cells), o :> Span(n))
ProjectKn(L, i, w, o, k, n, size) ==
  EnqueuedUnless(n = 0, ProjectionShapes(L, i, w, o, k, n),
                 ColumnBlocks(i, w, o, k, n, KnCells(k, n, Span(n)), size))
LmHeadKn(L, i, w, o, k, n, size) == ProjectKn(L, i, w, o, k, n, size)
ProjectNk(L, i, w, o, k, n, size) ==
  EnqueuedUnless(n = 0, ProjectionShapes(L, i, w, o, k, n),
                 ColumnBlocks(i, w, o, k, n, NkCells(k, Span(n)), size))
LmHeadNk(L, i, w, o, k, n, size) == ProjectNk(L, i, w, o, k, n, size)

\* One thread per element moves it to its transposed place.
Transposed(k, n, cells) == {(x % n) * k + (x \div n) : x \in cells}
TransposeKnToNk(L, src, dst, k, n, size) ==
  EnqueuedUnless(k * n = 0,
    L[src].len = k * n /\ L[dst].len = k * n /\ SameContext(L, {src, dst}),
    Launch(FlatGrid(k * n, size), size, 0, {src, dst}, src :> Flat(k * n, size),
           dst :> Transposed(k, n, Flat(k * n, size))))

\* The fused groups refuse empty shapes.
GroupShapes(L, i, w, o, k, n) == k # 0 /\ n # 0 /\ ProjectionShapes(L, i, w, o, k, n)

\* Mutant: the blocks of v subtract q_n only.
QkvColumnShifted(block, q, kv) ==
  IF block < q THEN <<"wq", "q", block>>
  ELSE IF block < q + kv THEN <<"wk", "k", block - q>>
  ELSE <<"wv", "v", block - q>>
\* Which weight and output a block of the fused QKV grid works on.
QkvColumn(block, q, kv) ==
  IF block < q THEN <<"wq", "q", block>>
  ELSE IF block < q + kv THEN <<"wk", "k", block - q>>
  ELSE <<"wv", "v", block - q - kv>>
QkvNk(L, i, k, q, kv, size) ==
  LET cols == {QkvColumn(b, q, kv) : b \in Span(q + 2 * kv)}
      part(place, name) == {c[3] : c \in {x \in cols : x[place] = name}}
  IN Enqueued(/\ GroupShapes(L, i, "wq", "q", k, q)
              /\ GroupShapes(L, i, "wk", "k", k, kv)
              /\ GroupShapes(L, i, "wv", "v", k, kv),
       Launch(<<q + 2 * kv, 1, 1>>, size, size, {i, "wq", "wk", "wv", "q", "k", "v"},
              (i :> Span(k)) @@ [w \in {"wq", "wk", "wv"} |-> NkCells(k, part(1, w))],
              [o \in {"q", "k", "v"} |-> part(2, o)]))

GateUpNk(L, i, k, n, size) ==
  LET columns == {IF b >= n THEN <<"up", b - n>> ELSE <<"gate", b>> : b \in Span(2 * n)}
      part(name) == {c[2] : c \in {x \in columns : x[1] = name}}
  IN Enqueued(GroupShapes(L, i, "w_gate", "gate", k, n) /\ GroupShapes(L, i, "w_up", "up", k, n),
       Launch(<<2 * n, 1, 1>>, size, size, {i, "w_gate", "w_up", "gate", "up"},
              (i :> Span(k)) @@ ("w_gate" :> NkCells(k, part("gate")))
                @@ ("w_up" :> NkCells(k, part("up"))),
              [gate |-> part("gate"), up |-> part("up")]))

\* The fused MLP keeps the two partial sums side by side in shared memory.
GateUpSiluNk(L, i, o, k, n, size) ==
  Enqueued(/\ k # 0 /\ n # 0
           /\ L[i].len = k /\ L["w_gate"].len = k * n /\ L["w_up"].len = k * n /\ L[o].len = n
           /\ SameContext(L, {i, "w_gate", "w_up", o}),
    Launch(<<n, 1, 1>>, size, 2 * size, {i, "w_gate", "w_up", o},
           (i :> Span(k)) @@ [w \in {"w_gate", "w_up"} |-> NkCells(k, Span(n))], o :> Span(n)))

\* --- Position-dependent kernels ------------------------------------------
\* The pairs that pass pair_index < pairs; a pair is two elements of a head.
RopePairs(heads, dim, size) == Flat(heads * (dim \div 2), size)
RopeElements(heads, dim, size) ==
  LET half == dim \div 2
  IN UNION {{(p \div half) * dim + (p % half), (p \div half) * dim + half + (p % half)}
              : p \in RopePairs(heads, dim, size)}
RopeAngles(heads, dim, position, size) ==
  {position * (dim \div 2) + (p % (dim \div 2)) : p \in RopePairs(heads, dim, size)}

RopePosition(L, i, o, heads, dim, position, max, size) ==
  Enqueued(/\ heads # 0 /\ dim # 0 /\ dim % 2 = 0
           /\ L[i].len = heads * dim /\ L[o].len = heads * dim
           /\ L["cos"].len = max * (dim \div 2) /\ L["sin"].len = max * (dim \div 2)
           /\ position < max
           /\ SameContext(L, {i, "cos", "sin", o}),
    Launch(FlatGrid(heads * (dim \div 2), size), size, 0, {i, "cos", "sin", o},
           (i :> RopeElements(heads, dim, size))
             @@ [a \in {"cos", "sin"} |-> RopeAngles(heads, dim, position, size)],
           o :> RopeElements(heads, dim, size)))
RopePositionF16(L, i, o, heads, dim, position, max, size) ==
  RopePosition(L, i, o, heads, dim, position, max, size)

SelectToken(L, position) ==
  Enqueued(/\ SameContext(L, {"ids", "current_token"})
           /\ L["current_token"].len = 1 /\ position < L["ids"].len,
    Launch(<<1, 1, 1>>, 1, 0, {"ids", "current_token"}, "ids" :> {position}, "current_token" :> {0}))
RecordToken(L, position) ==
  Enqueued(/\ SameContext(L, {"current_token", "generated"})
           /\ L["current_token"].len = 1 /\ position < L["generated"].len,
    Launch(<<1, 1, 1>>, 1, 0, {"current_token", "generated"}, "current_token" :> {0},
           "generated" :> {position}))

\* The row that the index names is copied; idx holds valid rows (it is a token
\* that the session has validated or that top_k has chosen).
GatherF16(L, index, o, idx, rows, cols, size) ==
  LET n == Len(idx) * cols
  IN EnqueuedUnless(n = 0,
       L["table"].len = rows * cols /\ L[o].len = n /\ SameContext(L, {"table", index, o}),
       Launch(FlatGrid(n, size), size, 0, {"table", index, o},
              ("table" :> {idx[1 + x \div cols] * cols + (x % cols) : x \in Flat(n, size)})
                @@ (index :> {x \div cols : x \in Flat(n, size)}),
              o :> Flat(n, size)))

\* --- Attention over the cache --------------------------------------------
\* c is the cache: layers, heads, dim, cap, the rows of this layer, and whether
\* the call's stream is the one that owns it.
KvIndex(c, layer, head, row, d) == ((layer * c.heads + head) * c.cap + row) * c.dim + d
KvCells(c, layer, heads, rows) ==
  {KvIndex(c, layer, h, r, d) : h \in heads, r \in Span(rows), d \in Span(c.dim)}

\* Query heads share the KV heads in equal groups.
QueryGroups(L, q, o, c) ==
  /\ L[q].len = L[o].len /\ c.dim # 0 /\ L[q].len % c.dim = 0
  /\ L[q].len > 0 /\ c.heads # 0 /\ (L[q].len \div c.dim) % c.heads = 0
KvHeadsOf(queries, c) ==
  LET group == queries \div c.heads
  IN {h \div (IF group = 0 THEN 1 ELSE group) : h \in Span(queries)}

\* One block per query head; the lanes write the dimensions they own.
DecodeLaunch(L, q, o, c, layer, threads, shared) ==
  LET queries == L[q].len \div c.dim
  IN Launch(<<queries, 1, 1>>, threads, shared, {q, "keys", "values", o},
       (q :> Span(L[q].len)) @@
         [b \in {"keys", "values"} |-> KvCells(c, layer, KvHeadsOf(queries, c), c.rows)],
       o :> {h * c.dim + d : h \in Span(queries), d \in Span(c.dim)})
DecodeValid(L, q, o, c, threads, shared) ==
  /\ QueryGroups(L, q, o, c)
  /\ c.rows # 0
  /\ SameContext(L, {q, "keys", "values", o})
  /\ c.own
  /\ threads \in 1 .. MaxBlockThreads
  /\ shared <= MaxShared
Decode(L, q, o, c, layer, threads, shared) ==
  Enqueued(DecodeValid(L, q, o, c, threads, shared), DecodeLaunch(L, q, o, c, layer, threads, shared))

\* The serial kernel has one lane per head and its wrapper joins on an error.
DecodeSerial(L, q, o, c, layer) == [Decode(L, q, o, c, layer, 1, 0) EXCEPT !.join = TRUE]
DecodeParallelValue(L, q, o, c, layer) == Decode(L, q, o, c, layer, c.dim, 0)
DecodeF16(L, q, o, c, layer) == Decode(L, q, o, c, layer, c.dim, 0)

\* supports_kv_rows: two and three floats of shared memory per row.
StagedSupports(rows) == rows > 0 /\ 2 * rows <= MaxShared
ScoresSupport(rows) == rows > 0 /\ 3 * rows <= MaxShared
DecodeStaged(L, q, o, c, layer) == Decode(L, q, o, c, layer, c.dim, 2 * c.rows)
\* The block size is a multiple of the warp (two lanes here), at least dim.
Warp == 2
DecodeParallelScores(L, q, o, c, layer, threads) ==
  LET s == Decode(L, q, o, c, layer, threads, 3 * c.rows)
  IN IF threads >= c.dim /\ threads % Warp = 0 THEN s ELSE Plain(FALSE, <<>>)
===============================================================================
