------------------------------ MODULE KernelHost ------------------------------
(***************************************************************************)
(* One synchronous call of the nnis-kernels host API on one stream.  The   *)
(* host validates, allocates and enqueues; the device executes what was    *)
(* enqueued, in order and at its own pace.  Any driver call may fail: an   *)
(* allocation, a launch, a synchronize.  A call that fails half-way leaves *)
(* launches behind, and its wrapper either waits for them or returns.      *)
(***************************************************************************)
EXTENDS HostSession

CONSTANTS
  Sizes,      \* block sizes and tile sides callers ask for
  Lens,       \* lengths of vectors
  Rows, Cols  \* shapes of matrices

ASSUME HostAssumption ==
  /\ \A s \in {Sizes, Lens, Rows, Cols} : s \subseteq Nat
  /\ \A b \in {MaxBlockThreads, MaxShared, MaxGridX, MaxGridYZ} : b \in Nat

VARIABLES
  hcall,    \* the call being made
  hbuf,     \* the buffers it knows: the caller's and its own
  hprog,    \* the sections still to run, the current one first
  hopen,    \* the current section has been validated
  hpend,    \* launches of the current section not yet enqueued
  hstream,  \* launches the device has not executed yet
  hmem,     \* elements written so far, per buffer
  hres      \* "running", "ok", "error", "draining" or "lost"

hostVars == <<hcall, hbuf, hprog, hopen, hpend, hstream, hmem, hres>>

-----------------------------------------------------------------------------
\* The public operations, by the shape of their arguments.
F32Maps == {"scale", "affine", "relu", "silu", "gelu_tanh"}
Bf16Maps == {"bf16_relu", "bf16_silu", "bf16_gelu_tanh"}
RawMaps == {"bf16_scale", "bf16_affine", "bf16_widen", "bf16_narrow"}
Adds == {"vector_add", "bf16_vector_add"}
Scalars == {"sum", "max", "bf16_sum", "bf16_max"}
Softmaxes == {"softmax", "softmax_pooled", "softmax_into"}
RowOps == {"softmax_rows", "rms_norm", "layer_norm", "bf16_rms_norm", "bf16_layer_norm"}
RowRooms == {"softmax_rows_in", "rms_norm_in", "layer_norm_in"}  \* on a workspace the caller made
Products == {"gemm", "gemm_nt", "gemm_batched", "gemm_nt_batched",
             "bf16_gemm", "bf16_gemm_nt", "bf16_gemm_batched", "bf16_gemm_nt_batched"}
Projections == {"gemv", "project", "bf16_weight_project", "int4_project", "int2_project"}
Ropes == {"rope_interleaved", "rope_rotate_half"}
Moves == {"gather_f32", "gather_bf16", "scatter"}
Attentions == {"fused", "bf16_fused", "fused_multihead", "bf16_fused_multihead", "composed",
               "composed_multihead", "bf16_composed", "bf16_composed_multihead", "bf16_quantized"}

VectorCalls == [op : F32Maps \cup Bf16Maps \cup RawMaps \cup Adds \cup Scalars \cup
                     {"argmax", "softmax", "softmax_pooled"}, size : Sizes, n : Lens]
RoomCalls == [op : {"sum_into", "max_into", "argmax_into", "softmax_into"}, size : Sizes, n : Lens,
              room : Lens, made : {1, 2}]
TopKCalls == [op : {"top_k"}, size : Sizes, n : Lens, k : {0, 1, 2}]
RowCalls == [op : RowOps \cup Ropes \cup Projections, size : Sizes, rows : Rows, cols : Cols]
RowRoomCalls == [op : RowRooms, size : {2}, rows : Rows, cols : {0, 2}, room : Rows]
ProductCalls == [op : Products, size : Sizes, z : {0, 1, 2}, m : {0, 1, 3}, n : {0, 1, 3}, k : {0, 2}]
CscCalls == [op : {"sparse_project"}, size : {1, 2}, k : {0, 2}, nnz : {0, 2},
             offsets : [0 .. 2 -> {0, 1, 2, 3}], rows : [0 .. 1 -> {0, 2}]]
MoveCalls == [op : Moves, size : {0, 1, 2, 3}, rows : {1, 2}, cols : {0, 1, 2},
              idx : {<<>>, <<0>>, <<1>>, <<2>>, <<1, 0>>, <<1, 1>>}]
AttentionCalls == [op : Attentions, size : Sizes,
                   t : [heads : {0, 1, 2}, q : {0, 1, 2}, dim : {0, 1}, kv : {0, 1, 2},
                        vdim : {2}, causal : BOOLEAN]]

\* A single-head operation has one head.
OneHead == {"fused", "bf16_fused", "composed", "bf16_composed", "bf16_quantized"}
HeadsFit(c) == c.op \in OneHead => c.t.heads = 1
\* The plain products are the batched text without blockIdx.z.
BatchFits(c) == c.op \in {"gemm", "gemm_nt", "bf16_gemm", "bf16_gemm_nt"} => c.z = 1

Calls == VectorCalls \cup RoomCalls \cup TopKCalls \cup RowCalls \cup RowRoomCalls \cup CscCalls \cup MoveCalls
         \cup {c \in ProductCalls : BatchFits(c)} \cup {c \in AttentionCalls : HeadsFit(c)}
         \cup ModelHostCalls

Shape(c) == [z |-> c.z, m |-> c.m, n |-> c.n, k |-> c.k]

\* The lengths that the documented shapes of an operation ask for.
Wanted(c) ==
  CASE c.op \in Adds -> [left |-> c.n, right |-> c.n, out |-> c.n]
    [] c.op \in F32Maps \cup Bf16Maps \cup RawMaps \cup Softmaxes -> [in |-> c.n, out |-> c.n]
    [] c.op \in Scalars \cup {"argmax"} -> [in |-> c.n]
    [] c.op \in {"sum_into", "max_into"} -> [in |-> c.n, out |-> 1]
    [] c.op = "argmax_into" -> [in |-> c.n, value |-> 1, index |-> 1]
    [] c.op = "top_k" -> [in |-> c.n, values |-> c.k, indices |-> c.k]
    [] c.op \in RowOps \cup RowRooms -> [in |-> c.rows * c.cols, out |-> c.rows * c.cols]
    [] c.op \in Ropes -> [in |-> c.rows * c.cols, out |-> c.rows * c.cols,
                          cos |-> c.rows * (c.cols \div 2), sin |-> c.rows * (c.cols \div 2)]
    [] c.op = "gemv" -> [matrix |-> c.rows * c.cols, vector |-> c.cols, out |-> c.rows]
    [] c.op \in {"project", "bf16_weight_project"} ->
         [in |-> c.rows, weight |-> c.rows * c.cols, out |-> c.cols]
    [] c.op = "int4_project" ->
         [in |-> c.rows, packed |-> CeilDiv(c.rows * c.cols, 2), scale |-> 1, out |-> c.cols]
    [] c.op = "int2_project" ->
         [in |-> c.rows, packed |-> CeilDiv(c.rows * c.cols, 4), scale |-> 1, out |-> c.cols]
    [] c.op = "sparse_project" ->
         [in |-> c.k, offsets |-> 3, rows |-> c.nnz, values |-> c.nnz, out |-> 2]
    [] c.op \in Products -> GemmLengths("a", "b", "out", Shape(c))
    [] c.op \in {"gather_f32", "gather_bf16"} ->
         [table |-> c.rows * c.cols, idx |-> Len(c.idx), out |-> Len(c.idx) * c.cols]
    [] c.op = "scatter" ->
         [source |-> Len(c.idx) * c.cols, idx |-> Len(c.idx), out |-> c.rows * c.cols]
    [] c.op \in Attentions -> AttentionLengths("q", "k", "v", "out", c.t)
    [] OTHER -> ModelWanted(c)

\* What a caller may pass: the wanted buffers, or one of them a little too
\* short or too long or from another context.  The device data that a test of
\* the kernel text depends on (indices, offsets) keeps its wanted length.
\* Wrong buffers are tried at one block size, the others change nothing there.
WrongAt == 2
Passed(c) ==
  LET good == [b \in DOMAIN Wanted(c) |-> Buffer(Wanted(c)[b])] @@ [stream |-> Buffer(0)]
      sized == DOMAIN Wanted(c) \ {"idx", "offsets", "rows", "keys", "values"}
  IN IF c.size # WrongAt THEN {good}
     ELSE {good}
          \cup {[good EXCEPT ![b].len = @ + 1] : b \in sized}
          \cup {[good EXCEPT ![b].len = @ - 1] : b \in {x \in sized : Wanted(c)[x] > 0}}
          \cup {[good EXCEPT ![b].ctx = 1] : b \in DOMAIN good}

\* Elements that hold the caller's data when the call starts; scatter updates
\* some rows of its destination and keeps the others.
IsModelCall(c) == c.op \in ModelOps
WrittenFor(c) ==
  CASE IsModelCall(c) -> ModelOutputs(c)
    [] c.op \in {"scatter"} \cup Scalars -> {}
    [] c.op \in {"argmax", "argmax_into"} -> {"value", "index"}
    [] c.op = "top_k" -> {"values", "indices"}
    [] OTHER -> {"out"}
Filled(c, b, n) ==
  IF IsModelCall(c) THEN ModelFilled(c, b, n) ELSE IF b \in WrittenFor(c) THEN {} ELSE Span(n)

\* The family's load, at the block size or tile side asked for.
LoadOf(c) ==
  CASE c.op \in F32Maps \cup {"vector_add"} -> ElementwiseLoad(c.size)
    [] c.op \in Bf16Maps \cup RawMaps \cup {"bf16_vector_add"} -> Bf16ElementwiseLoad(c.size)
    [] c.op \in {"sum", "max", "sum_into", "max_into", "argmax", "argmax_into"} -> ReductionLoad(c.size)
    [] c.op \in {"bf16_sum", "bf16_max"} -> Bf16ReductionLoad(c.size)
    [] c.op = "top_k" -> TopKLoad(c.size)
    [] c.op \in Softmaxes -> SoftmaxLoad(c.size)
    [] c.op \in {"softmax_rows", "softmax_rows_in"} -> RowSoftmaxLoad(c.size)
    [] c.op \in {"rms_norm", "rms_norm_in", "bf16_rms_norm"} -> RmsNormLoad(c.size)
    [] c.op \in {"layer_norm", "layer_norm_in", "bf16_layer_norm"} -> LayerNormLoad(c.size)
    [] c.op \in {"gemm", "gemm_nt", "gemm_batched", "gemm_nt_batched"} -> GemmLoad(c.size)
    [] c.op \in Products -> Bf16GemmLoad(c.size)
    [] c.op = "gemv" -> GemvLoad(c.size)
    [] c.op = "project" -> GemvLoad(c.size)
    [] c.op = "bf16_weight_project" -> MixedLoad(c.size)
    [] c.op = "int4_project" -> ProjectionLoad(c.size)
    [] c.op = "int2_project" -> Int2Load(c.size)
    [] c.op = "sparse_project" -> SparseCscLoad(c.size)
    [] c.op = "gather_f32" -> GatherLoad(c.size)
    [] c.op = "gather_bf16" -> Bf16GatherLoad(c.size)
    [] c.op = "scatter" -> ScatterLoad(c.size)
    [] c.op \in Ropes -> RopeLoad(c.size)
    [] c.op \in {"bf16_fused", "bf16_fused_multihead", "bf16_composed", "bf16_composed_multihead",
                 "bf16_quantized"} -> Bf16AttentionLoad(c.size)
    [] c.op \in Attentions -> AttentionLoad(c.size)
    [] OTHER -> ModelLoad(c)

\* Sub-kernels of the composed calls are loaded with sizes of their own.
SubTile == 1
SubSize == 2

ColumnsOf(op) ==
  CASE op = "softmax_rows_in" -> SoftmaxColumns
    [] op = "rms_norm_in" -> RmsColumns
    [] OTHER -> LayerColumns
\* The sections of the call proper.
BodyOf(c, L) ==
  CASE c.op \in F32Maps -> << Elementwise(L, {"in"}, "out", c.size) >>
    [] c.op \in Bf16Maps -> << Bf16Elementwise(L, {"in"}, "out", c.size) >>
    [] c.op \in RawMaps -> << Bf16Raw(L, "in", "out", c.size) >>
    [] c.op = "vector_add" -> << Elementwise(L, {"left", "right"}, "out", c.size) >>
    [] c.op = "bf16_vector_add" -> << Bf16Elementwise(L, {"left", "right"}, "out", c.size) >>
    [] c.op \in {"sum", "max"} -> << ReduceScalar(L, c.op, "in", c.size) >>
    [] c.op \in {"bf16_sum", "bf16_max"} -> << Bf16Reduce(L, "in", c.size) >>
    [] c.op \in {"sum_into", "max_into"} ->
         << Allocating(Workspace(c.room, c.made), Plain(TRUE, <<>>)),
            ReduceInto(Workspace(c.room, c.made) @@ L, IF c.op = "sum_into" THEN "sum" ELSE "max",
                       "in", "out", [room |-> c.room, size |-> c.made], c.size) >>
    [] c.op = "argmax" -> << Argmax(L, "in", c.size) >>
    [] c.op = "argmax_into" ->
         << Allocating(PairWorkspace(c.room, c.made), Plain(TRUE, <<>>)),
            ArgmaxInto(PairWorkspace(c.room, c.made) @@ L, "in", [room |-> c.room, size |-> c.made],
                       c.size) >>
    [] c.op = "top_k" -> << TopK(L, "in", c.k, c.size) >>
    [] c.op = "softmax" -> << Softmax(L, "in", "out", c.size, SubSize) >>
    [] c.op = "softmax_pooled" -> << SoftmaxPooled(L, "in", "out", c.size, SubSize) >>
    [] c.op = "softmax_into" ->
         << Allocating(Workspace(c.room, c.made), Plain(TRUE, <<>>)),
            SoftmaxInto(Workspace(c.room, c.made) @@ L, "in", "out",
                        [room |-> c.room, size |-> c.made], c.size, SubSize) >>
    [] c.op = "softmax_rows" -> << SoftmaxRowsDispatched(L, "in", "out", c.rows, c.cols, c.size) >>
    [] c.op \in RowRooms ->
         LET room == RowWorkspace(ColumnsOf(c.op), c.room)
             M == room @@ L
         IN << Allocating(room, Plain(TRUE, <<>>)),
               IF c.op = "softmax_rows_in" THEN SoftmaxRowsIn(M, "in", "out", c.rows, c.cols, c.size)
               ELSE NormRowsIn(M, "in", "out", ColumnsOf(c.op), c.rows, c.cols, c.size) >>
    [] c.op = "rms_norm" -> << RmsNorm(L, "in", "out", c.rows, c.cols, c.size) >>
    [] c.op = "layer_norm" -> << LayerNorm(L, "in", "out", c.rows, c.cols, c.size) >>
    [] c.op = "bf16_rms_norm" -> Bf16RmsNorm(L, "in", "out", c.rows, c.cols, c.size)
    [] c.op = "bf16_layer_norm" -> Bf16LayerNorm(L, "in", "out", c.rows, c.cols, c.size)
    [] c.op = "rope_interleaved" -> << Rope(L, c.rows, c.cols, TRUE, c.size) >>
    [] c.op = "rope_rotate_half" -> << Rope(L, c.rows, c.cols, FALSE, c.size) >>
    [] c.op = "gemm" -> << Gemm(L, "a", "b", "out", Shape(c), c.size) >>
    [] c.op = "gemm_nt" -> << GemmNt(L, "a", "b", "out", Shape(c), c.size) >>
    [] c.op = "gemm_batched" -> << GemmBatched(L, "a", "b", "out", Shape(c), c.size) >>
    [] c.op = "gemm_nt_batched" -> << GemmNtBatched(L, "a", "b", "out", Shape(c), c.size) >>
    [] c.op = "bf16_gemm" -> << Bf16Gemm(L, "a", "b", "out", Shape(c), c.size) >>
    [] c.op = "bf16_gemm_nt" -> << Bf16GemmNt(L, "a", "b", "out", Shape(c), c.size) >>
    [] c.op = "bf16_gemm_batched" -> << Bf16GemmBatched(L, "a", "b", "out", Shape(c), c.size) >>
    [] c.op = "bf16_gemm_nt_batched" -> << Bf16GemmNtBatched(L, "a", "b", "out", Shape(c), c.size) >>
    [] c.op = "gemv" -> << Gemv(L, c.rows, c.cols, c.size) >>
    [] c.op = "project" -> << Project(L, "in", "weight", "out", c.rows, c.cols, c.size) >>
    [] c.op = "bf16_weight_project" -> << Bf16WeightProject(L, "in", "weight", "out", c.rows, c.cols, c.size) >>
    [] c.op = "int4_project" -> << Int4Project(L, c.rows, c.cols, c.size) >>
    [] c.op = "int2_project" -> << Int2Project(L, c.rows, c.cols, c.size) >>
    [] c.op = "sparse_project" -> << SparseProject(L, c, c.k, 2, c.size) >>
    [] c.op = "gather_f32" -> << GatherF32(L, c.idx, c.rows, c.cols, c.size) >>
    [] c.op = "gather_bf16" -> << GatherBf16(L, c.idx, c.rows, c.cols, c.size) >>
    [] c.op = "scatter" -> << Scatter(L, c.idx, c.rows, c.cols, c.size) >>
    [] c.op = "fused" -> << AttentionFused(L, c.t, c.size) >>
    [] c.op = "bf16_fused" -> << Bf16AttentionFused(L, c.t, c.size) >>
    [] c.op = "fused_multihead" -> << AttentionMultihead(L, c.t, c.size) >>
    [] c.op = "bf16_fused_multihead" -> << Bf16AttentionMultihead(L, c.t, c.size) >>
    [] c.op = "composed" -> Composed(L, "q", "k", "v", "out", c.t, SubSize, SubTile)
    [] c.op = "composed_multihead" ->
         ComposedMultihead(L, "q", "k", "v", "out", c.t, SubSize, SubTile)
    [] c.op = "bf16_composed" -> Bf16Composed(L, c.t, SubSize, SubTile)
    [] c.op = "bf16_composed_multihead" -> Bf16ComposedMultihead(L, c.t, SubSize, SubTile)
    [] c.op = "bf16_quantized" -> Bf16ComposedQuantized(L, c.t, SubSize, SubTile)
    [] OTHER -> ModelBody(c, L)

-----------------------------------------------------------------------------
\* The load, and the call proper once it has succeeded.
ProgramOf(c, L) ==
  IF LoadOf(c).ok THEN << LoadOf(c) >> \o BodyOf(c, L) ELSE << LoadOf(c) >>

Now == hprog[1]

HostInit ==
  /\ hcall \in Calls
  /\ hbuf \in Passed(hcall)
  /\ hprog = ProgramOf(hcall, hbuf)
  /\ hopen = FALSE
  /\ hpend = <<>>
  /\ hstream = <<>>
  /\ hmem = [b \in DOMAIN hbuf |-> Filled(hcall, b, hbuf[b].len)]
  /\ hres = "running"

HostIdle ==
  /\ hcall = <<>> /\ hbuf = <<>> /\ hprog = <<>> /\ hopen = FALSE
  /\ hpend = <<>> /\ hstream = <<>> /\ hmem = <<>> /\ hres = "idle"

-----------------------------------------------------------------------------
\* A section begins: its allocations and its validation succeed.
Open ==
  /\ hres = "running" /\ hprog # <<>> /\ ~hopen
  /\ Now.ok
  /\ hbuf' = Now.fresh @@ hbuf
  /\ hmem' = [b \in DOMAIN Now.fresh |-> {}] @@ hmem
  /\ hpend' = Now.steps
  /\ hopen' = TRUE
  /\ UNCHANGED <<hcall, hprog, hstream, hres>>

\* The validation, or an allocation made by DeviceBuffer::new, fails: nothing
\* of this section has been enqueued and the sections before it have been awaited.
Refuse ==
  /\ hres = "running" /\ hprog # <<>> /\ ~hopen
  /\ ~Now.ok \/ DOMAIN Now.fresh # {}
  /\ hres' = "error"
  /\ UNCHANGED <<hcall, hbuf, hprog, hopen, hpend, hstream, hmem>>

\* KernelLaunch::launch is accepted and the driver takes it.
Enqueue ==
  /\ hres = "running" /\ hopen /\ hpend # <<>>
  /\ LaunchAccepted(hbuf, Head(hpend))
  /\ hstream' = Append(hstream, Head(hpend))
  /\ hpend' = Tail(hpend)
  /\ UNCHANGED <<hcall, hbuf, hprog, hopen, hmem, hres>>

\* The launch is refused by its own validation or by the driver: the error is
\* returned at once, or after the stream has been drained.
EnqueueFails ==
  /\ hres = "running" /\ hopen /\ hpend # <<>>
  /\ hres' = IF Now.join THEN "draining" ELSE "error"
  /\ UNCHANGED <<hcall, hbuf, hprog, hopen, hpend, hstream, hmem>>

\* Stream::synchronize returns: the section is over.
Await ==
  /\ hres = "running" /\ hopen /\ hpend = <<>> /\ hstream = <<>>
  /\ hprog' = Tail(hprog)
  /\ hopen' = FALSE
  /\ UNCHANGED <<hcall, hbuf, hpend, hstream, hmem, hres>>

\* The synchronize after a failed enqueue returns.
Drain ==
  /\ hres = "draining" /\ hstream = <<>>
  /\ hres' = "error"
  /\ UNCHANGED <<hcall, hbuf, hprog, hopen, hpend, hstream, hmem>>

\* A synchronize fails: the call returns with the device's state unknown.
SyncFails ==
  /\ hres = "draining" \/ (hres = "running" /\ hopen /\ hpend = <<>>)
  /\ hres' = "lost"
  /\ UNCHANGED <<hcall, hbuf, hprog, hopen, hpend, hstream, hmem>>

\* The device executes the oldest launch.
DeviceRun ==
  /\ hstream # <<>>
  /\ hstream' = Tail(hstream)
  /\ LET s == Head(hstream) IN
     hmem' = [b \in DOMAIN hmem |-> hmem[b] \cup IF b \in DOMAIN s.writes THEN s.writes[b] ELSE {}]
  /\ UNCHANGED <<hcall, hbuf, hprog, hopen, hpend, hres>>

\* The call returns its result.
Return ==
  /\ hres = "running" /\ hprog = <<>>
  /\ hres' = "ok"
  /\ UNCHANGED <<hcall, hbuf, hprog, hopen, hpend, hstream, hmem>>

\* The caller has its answer.
HostDone ==
  /\ hres \in {"ok", "error", "lost"} /\ hstream = <<>>
  /\ UNCHANGED hostVars

HostNext ==
  \/ Open \/ Refuse \/ Enqueue \/ EnqueueFails \/ Await \/ Drain \/ SyncFails
  \/ DeviceRun \/ Return \/ HostDone

-----------------------------------------------------------------------------
Touched(s, b) ==
  (IF b \in DOMAIN s.reads THEN s.reads[b] ELSE {}) \cup
  (IF b \in DOMAIN s.writes THEN s.writes[b] ELSE {})

\* Pointers that the code passes without remembering their context.
RawPointers ==
  CASE hcall.op \in RawMaps -> {"in", "out"}
    [] hcall.op \in {"gather_f32", "sum_into", "max_into"} -> {"out"}
    [] hcall.op \in {"argmax", "argmax_into"} -> {"value", "index"}
    [] OTHER -> {}

\* No launch that the host lets through touches an element outside its buffer
\* or a buffer of another context, whatever lengths, shapes, block sizes and
\* index data the caller passed; raw pointers are only held to their lengths.
InBounds ==
  \A i \in DOMAIN hstream : \A b \in DOMAIN hstream[i].reads \cup DOMAIN hstream[i].writes :
    /\ Touched(hstream[i], b) \subseteq Span(hbuf[b].len)
    /\ Touched(hstream[i], b) # {} /\ b \notin RawPointers => hbuf[b].ctx = 0

\* The scalar of an empty maximum is what EmptyMaxDefined is about.
EmptyMax == hcall.op \in {"max", "max_into"} /\ hbuf["in"].len = 0

\* A call that reports success has written every element of its outputs, for
\* ragged tiles, partial last blocks, several reduction passes and empty shapes.
OutputWhole ==
  hres = "ok" /\ ~EmptyMax =>
    /\ \A b \in WrittenFor(hcall) : hmem[b] = Span(hbuf[b].len)
    /\ hcall.op \in Scalars /\ (hcall.op = "sum" \/ hbuf["in"].len > 0) => hmem["scalar"] = {0}

\* Buffers whose elements one block reads and another block may write.
Scratchpads == {"scratch_a", "scratch_b", "values_a", "values_b", "indices_a", "indices_b"}

\* A launch reads only elements that an earlier launch or the caller wrote, and
\* no block of it overwrites the scratch that its other blocks still read:
\* ping-pong scratch, row columns and widened copies are ordered by the stream.
ScratchFresh ==
  hstream # <<>> =>
    LET s == Head(hstream) IN
    /\ \A b \in DOMAIN s.reads : s.reads[b] \subseteq hmem[b]
    /\ DOMAIN s.reads \cap DOMAIN s.writes \cap Scratchpads = {}

\* When a call returns, with a result or with an error, nothing it enqueued is
\* still running on buffers that the caller or its own frame is about to drop.
\* A failed synchronize is the one way out that cannot promise it.
Drained == hres \in {"ok", "error"} => hstream = <<>>

\* reduction.rs:443: "An empty input yields `-infinity`": the scalar that max
\* reads back has been written by the time the call succeeds.
EmptyMaxDefined == hres = "ok" /\ hcall.op = "max" => hmem["scalar"] = {0}
===============================================================================
