------------------------------ MODULE HostSession ------------------------------
(***************************************************************************)
(* The launches of one model: of the F32 model with its execution plans,   *)
(* and of the F16 reference model, whose weights are first narrowed and    *)
(* transposed on the device.  What one token sends down the layers, and    *)
(* the sections of prefill, decode_one and generate around it.  Layers     *)
(* share the names of their weights, which all have the same lengths.      *)
(***************************************************************************)
EXTENDS HostModel

\* heads, kv, dim, inter, vocab, cap, layers: the validated ModelConfig
CONSTANT Decoder

D == Decoder
Hidden == D.heads * D.dim
KvWidth == D.kv * D.dim
KernelSize == 2  \* the block size of every kernel of the model

\* F16ReferenceProjectionLayout and F16CachedAttentionKernel
Layouts == {"kn", "nk", "nk_groups", "nk_mlp"}
AttentionPlans == {"reference", "staged", "scores"}

\* A step of an enqueue function whose own validation fails is refused.
Refused == [Launch(<<1, 1, 1>>, 1, 0, {}, <<>>, <<>>) EXCEPT !.fits = FALSE]
Inline(s) == IF s.ok THEN s.steps ELSE << Refused >>
\* Copies between host and device on the session's stream.
Upload(b, n) == << Launch(<<1, 1, 1>>, 1, 0, {}, <<>>, b :> Span(n)) >>
ReadBack(b, n) == << Launch(<<1, 1, 1>>, 1, 0, {}, b :> Span(n), "host" :> Span(n)) >>
HostSlot(i) == << Launch(<<1, 1, 1>>, 1, 0, {}, "current_token" :> {0}, "host" :> {i}) >>

\* F16DecodeWorkspace::new, the cache, and the model's own buffers.
Workspaces ==
  [b \in {"hidden", "normed", "q", "q_rope", "attention", "projected", "residual", "mlp"} |-> Hidden]
    @@ [b \in {"k", "v", "k_rope"} |-> KvWidth] @@ [b \in {"gate", "up", "gated"} |-> D.inter]
    @@ [logits |-> D.vocab, current_token |-> 1, top_value |-> 1, data |-> D.vocab]
    @@ [b \in {"values_a", "values_b", "indices_a", "indices_b"} |-> PartialCount(D.vocab, KernelSize)]
Planes == [b \in {"keys", "values"} |-> D.layers * D.kv * D.cap * D.dim]
\* The weights in the order from_f32 makes them; a projection has K and N.
Weights ==
  << [src |-> "f32_table", dst |-> "table", k |-> D.vocab, n |-> Hidden, projection |-> FALSE],
     [src |-> "f32_norm_in", dst |-> "norm_in", k |-> 1, n |-> Hidden, projection |-> FALSE],
     [src |-> "f32_wq", dst |-> "wq", k |-> Hidden, n |-> Hidden, projection |-> TRUE],
     [src |-> "f32_wk", dst |-> "wk", k |-> Hidden, n |-> KvWidth, projection |-> TRUE],
     [src |-> "f32_wv", dst |-> "wv", k |-> Hidden, n |-> KvWidth, projection |-> TRUE],
     [src |-> "f32_wo", dst |-> "wo", k |-> Hidden, n |-> Hidden, projection |-> TRUE],
     [src |-> "f32_norm_post", dst |-> "norm_post", k |-> 1, n |-> Hidden, projection |-> FALSE],
     [src |-> "f32_gate", dst |-> "w_gate", k |-> Hidden, n |-> D.inter, projection |-> TRUE],
     [src |-> "f32_up", dst |-> "w_up", k |-> Hidden, n |-> D.inter, projection |-> TRUE],
     [src |-> "f32_down", dst |-> "w_down", k |-> D.inter, n |-> Hidden, projection |-> TRUE],
     [src |-> "f32_norm", dst |-> "final_norm", k |-> 1, n |-> Hidden, projection |-> FALSE],
     [src |-> "f32_lm_head", dst |-> "lm_head", k |-> Hidden, n |-> D.vocab, projection |-> TRUE] >>
Angles == [b \in {"cos", "sin"} |-> D.cap * (D.dim \div 2)]
Resident == [dst \in {Weights[i].dst : i \in DOMAIN Weights} |->
               LET w == CHOOSE x \in {Weights[i] : i \in DOMAIN Weights} : x.dst = dst IN w.k * w.n]
Sources == [src \in {Weights[i].src : i \in DOMAIN Weights} |->
              LET w == CHOOSE x \in {Weights[i] : i \in DOMAIN Weights} : x.src = src IN w.k * w.n]
SessionLengths == Workspaces @@ Planes @@ Resident @@ Angles

\* --- One token -----------------------------------------------------------
\* enqueue_projection and enqueue_lm_head
Projected(L, layout, i, w, o, k, n) ==
  Inline(IF layout = "kn" THEN ProjectKn(L, i, w, o, k, n, KernelSize)
         ELSE ProjectNk(L, i, w, o, k, n, KernelSize))
LmHead(L, layout) ==
  Inline(IF layout = "kn" THEN LmHeadKn(L, "normed", "lm_head", "logits", Hidden, D.vocab, KernelSize)
         ELSE LmHeadNk(L, "normed", "lm_head", "logits", Hidden, D.vocab, KernelSize))

QkvGroup(L, layout) ==
  IF layout \in {"nk_groups", "nk_mlp"}
  THEN Inline(QkvNk(L, "normed", Hidden, Hidden, KvWidth, KernelSize))
  ELSE Projected(L, layout, "normed", "wq", "q", Hidden, Hidden) \o
       Projected(L, layout, "normed", "wk", "k", Hidden, KvWidth) \o
       Projected(L, layout, "normed", "wv", "v", Hidden, KvWidth)

GateUpGroup(L, layout) ==
  IF layout \in {"nk_groups", "nk_mlp"} THEN Inline(GateUpNk(L, "normed", Hidden, D.inter, KernelSize))
  ELSE Projected(L, layout, "normed", "w_gate", "gate", Hidden, D.inter) \o
       Projected(L, layout, "normed", "w_up", "up", Hidden, D.inter)
GateUpSiluGroup(L, layout) ==
  IF layout = "nk_mlp" THEN Inline(GateUpSiluNk(L, "normed", "gated", Hidden, D.inter, KernelSize))
  ELSE GateUpGroup(L, layout) \o Inline(SiluMultiplyF16(L, "gate", "up", "gated", KernelSize))

\* The session's cache, whose layer holds this many rows.
Cache(rows) ==
  [heads |-> D.kv, dim |-> D.dim, cap |-> D.cap, rows |-> rows, own |-> TRUE]

\* append_layer_async of one token, as one launch; KvCache has its copies.
Append1(L, layer, row) ==
  LET cell(h, d) == KvIndex(Cache(row), layer, h, row, d)
  IN [Launch(<<1, 1, 1>>, 1, 0, {"k_rope", "v"}, [b \in {"k_rope", "v"} |-> Span(KvWidth)],
             [b \in {"keys", "values"} |-> {cell(h, d) : h \in Span(D.kv), d \in Span(D.dim)}])
        EXCEPT !.fits = row < D.cap]

\* threads_per_block of the KA17 policy, scaled: 4 rows take 128 threads, 5 to
\* 16 take 256, 17 to 35 take 512; 0 stands for None.
ScoreThreads(rows) == CASE rows = 2 -> 2 [] rows = 3 -> 4 [] OTHER -> 0
StagedMinRows == 2

\* enqueue_attention: staged falls back to the reference kernel, a parallel
\* policy that the device does not support is an error.
Attend(L, plan, layer, rows) ==
  Inline(CASE plan = "staged" /\ rows >= StagedMinRows /\ StagedSupports(rows) ->
                DecodeStaged(L, "q_rope", "attention", Cache(rows), layer)
           [] plan = "scores" /\ ScoreThreads(rows) # 0 ->
                IF ScoresSupport(rows)
                THEN DecodeParallelScores(L, "q_rope", "attention", Cache(rows), layer, ScoreThreads(rows))
                ELSE Plain(FALSE, <<>>)
           [] OTHER -> DecodeF16(L, "q_rope", "attention", Cache(rows), layer))

Normed(L, i, w) == Inline(WeightedRmsNormF16(L, i, w, "normed", 1, Hidden, KernelSize))
Roped(L, i, o, heads, position) ==
  Inline(RopePositionF16(L, i, o, heads, D.dim, position, D.cap, KernelSize))

\* Mutant: the attention of a layer reads the cache before the append.
LayerAttendsFirst(L, layout, plan, layer, position, row) ==
  Normed(L, "hidden", "norm_in") \o QkvGroup(L, layout) \o
  Roped(L, "q", "q_rope", D.heads, position) \o Roped(L, "k", "k_rope", D.kv, position) \o
  Attend(L, plan, layer, row + 1) \o << Append1(L, layer, row) >> \o
  Projected(L, layout, "attention", "wo", "projected", Hidden, Hidden) \o
  Inline(AddF16(L, "hidden", "projected", "residual", KernelSize)) \o
  Normed(L, "residual", "norm_post") \o GateUpSiluGroup(L, layout) \o
  Projected(L, layout, "gated", "w_down", "mlp", D.inter, Hidden) \o
  Inline(AddF16(L, "residual", "mlp", "hidden", KernelSize))
\* The body of the layer loop of enqueue_current_token.
LayerSteps(L, layout, plan, layer, position, row) ==
  Normed(L, "hidden", "norm_in") \o QkvGroup(L, layout) \o
  Roped(L, "q", "q_rope", D.heads, position) \o Roped(L, "k", "k_rope", D.kv, position) \o
  << Append1(L, layer, row) >> \o Attend(L, plan, layer, row + 1) \o
  Projected(L, layout, "attention", "wo", "projected", Hidden, Hidden) \o
  Inline(AddF16(L, "hidden", "projected", "residual", KernelSize)) \o
  Normed(L, "residual", "norm_post") \o GateUpSiluGroup(L, layout) \o
  Projected(L, layout, "gated", "w_down", "mlp", D.inter, Hidden) \o
  Inline(AddF16(L, "residual", "mlp", "hidden", KernelSize))

RECURSIVE LayersFrom(_, _, _, _, _, _)
LayersFrom(L, layout, plan, layer, position, rows) ==
  IF layer = D.layers THEN <<>>
  ELSE LayerSteps(L, layout, plan, layer, position, rows[layer + 1]) \o
       LayersFrom(L, layout, plan, layer + 1, position, rows)

\* enqueue_current_token; the gather takes the largest token of the vocabulary.
TokenSteps(L, layout, plan, position, rows) ==
  IF position >= D.cap THEN << Refused >>
  ELSE Inline(GatherF16(L, "current_token", "hidden", << D.vocab - 1 >>, D.vocab, Hidden, KernelSize)) \o
       LayersFrom(L, layout, plan, 0, position, rows) \o
       Normed(L, "hidden", "final_norm") \o LmHead(L, layout)

\* --- The F32 model -------------------------------------------------------
\* Its plans in one record.  A family of projections names its GEMV block size,
\* 0 is the GEMM; silu is the fused kernel's block size, 0 the two launches; lanes
\* are those of the parallel-value attention, 0 the serial one.
F32Families == {"qo", "kv", "gate_up", "down", "head"}
F32Baseline == [f \in F32Families |-> 0] @@ [bf16 |-> FALSE, silu |-> 0, lanes |-> 0]
FusedSilu == 2   \* stands for the one admitted block size, 256
ValueLanes == 2  \* stands for the one admitted geometry, 64 threads per head
F32PlanValid(p) ==
  /\ \A f \in F32Families : p[f] # 0 => PowerOfTwoSize(p[f])
  /\ p.silu \in {0, FusedSilu}
  /\ p.lanes \in {0, ValueLanes} /\ (p.lanes # 0 => p.lanes = D.dim)
\* Model::new and its kin: the plans that a constructor leaves at the baseline.
F32Plan(entry, p) ==
  LET given == CASE entry = "new" -> {}
                 [] entry = "projections" -> F32Families
                 [] entry = "plans" -> F32Families \cup {"bf16"}
                 [] entry = "all" -> F32Families \cup {"bf16", "silu"}
                 [] OTHER -> DOMAIN p
  IN [f \in DOMAIN p |-> IF f \in given THEN p[f] ELSE F32Baseline[f]]

\* enqueue_projection, enqueue_lm_head, enqueue_silu_multiply and
\* enqueue_cached_attention_decode.
F32Project(L, choice, i, w, o, k, n) ==
  Inline(IF choice = 0 THEN Gemm(L, i, w, o, [z |-> 1, m |-> 1, n |-> n, k |-> k], KernelSize)
         ELSE Project(L, i, w, o, k, n, choice))
F32LmHead(L, p) ==
  IF p.bf16 THEN Inline(Bf16WeightProject(L, "normed", "lm_head", "logits", Hidden, D.vocab, p.head))
  ELSE F32Project(L, p.head, "normed", "lm_head", "logits", Hidden, D.vocab)
F32Silu(L, p) ==
  IF p.silu # 0 THEN Inline(SiluMultiply(L, "gate", "up", "gated", p.silu))
  ELSE Inline(Elementwise(L, {"gate"}, "activated", KernelSize)) \o
       Inline(MultiplyF32(L, "activated", "up", "gated", KernelSize))
F32Attend(L, p, layer, rows) ==
  Inline(IF p.lanes = 0 THEN DecodeSerial(L, "q_rope", "attention", Cache(rows), layer)
         ELSE DecodeParallelValue(L, "q_rope", "attention", Cache(rows), layer))
F32Normed(L, i, w) == Inline(WeightedRmsNorm(L, i, w, "normed", 1, Hidden, KernelSize))
F32Roped(L, i, o, heads, position) ==
  Inline(RopePosition(L, i, o, heads, D.dim, position, D.cap, KernelSize))
F32Add(L, a, b, o) == Inline(Elementwise(L, {a, b}, o, KernelSize))

\* Mutant: the value projection is not enqueued.
F32LayerAddsNormed(L, p, layer, position, row) ==
  F32Normed(L, "hidden", "norm_in") \o
  F32Project(L, p.qo, "normed", "wq", "q", Hidden, Hidden) \o
  F32Project(L, p.kv, "normed", "wk", "k", Hidden, KvWidth) \o
  F32Roped(L, "q", "q_rope", D.heads, position) \o F32Roped(L, "k", "k_rope", D.kv, position) \o
  << Append1(L, layer, row) >> \o F32Attend(L, p, layer, row + 1) \o
  F32Project(L, p.qo, "attention", "wo", "projected", Hidden, Hidden) \o
  F32Add(L, "hidden", "projected", "residual") \o
  F32Normed(L, "residual", "norm_post") \o
  F32Project(L, p.gate_up, "normed", "w_gate", "gate", Hidden, D.inter) \o
  F32Project(L, p.gate_up, "normed", "w_up", "up", Hidden, D.inter) \o
  F32Silu(L, p) \o F32Project(L, p.down, "gated", "w_down", "mlp", D.inter, Hidden) \o
  F32Add(L, "residual", "mlp", "hidden")
\* The body of the layer loop of enqueue_current_token.
F32LayerSteps(L, p, layer, position, row) ==
  F32Normed(L, "hidden", "norm_in") \o
  F32Project(L, p.qo, "normed", "wq", "q", Hidden, Hidden) \o
  F32Project(L, p.kv, "normed", "wk", "k", Hidden, KvWidth) \o
  F32Project(L, p.kv, "normed", "wv", "v", Hidden, KvWidth) \o
  F32Roped(L, "q", "q_rope", D.heads, position) \o F32Roped(L, "k", "k_rope", D.kv, position) \o
  << Append1(L, layer, row) >> \o F32Attend(L, p, layer, row + 1) \o
  F32Project(L, p.qo, "attention", "wo", "projected", Hidden, Hidden) \o
  F32Add(L, "hidden", "projected", "residual") \o
  F32Normed(L, "residual", "norm_post") \o
  F32Project(L, p.gate_up, "normed", "w_gate", "gate", Hidden, D.inter) \o
  F32Project(L, p.gate_up, "normed", "w_up", "up", Hidden, D.inter) \o
  F32Silu(L, p) \o F32Project(L, p.down, "gated", "w_down", "mlp", D.inter, Hidden) \o
  F32Add(L, "residual", "mlp", "hidden")

RECURSIVE F32LayersFrom(_, _, _, _, _)
F32LayersFrom(L, p, layer, position, rows) ==
  IF layer = D.layers THEN <<>>
  ELSE F32LayerSteps(L, p, layer, position, rows[layer + 1]) \o
       F32LayersFrom(L, p, layer + 1, position, rows)
F32TokenSteps(L, p, position, rows) ==
  IF position >= D.cap THEN << Refused >>
  ELSE Inline(EnqueueGather(L, "current_token", "hidden", << D.vocab - 1 >>, D.vocab, Hidden, KernelSize)) \o
       F32LayersFrom(L, p, 0, position, rows) \o
       F32Normed(L, "hidden", "final_norm") \o F32LmHead(L, p)
\* DecodeWorkspace::new: the fused plan has no buffer for the activation.
F32Lengths(p) ==
  SessionLengths @@ (IF p.silu = 0 THEN [activated |-> D.inter] ELSE <<>>)

\* --- Calls of a session --------------------------------------------------
F32Ops == {"f32_prefill", "f32_decode", "f32_generate", "f32_until_eos"}
Token1(L, c, position, rows) ==
  IF c.op \in F32Ops THEN F32TokenSteps(L, c.plan, position, rows)
  ELSE TokenSteps(L, c.layout, c.plan, position, rows)
\* top_k of the logits with k = 1 into top_value and current_token.
Selected(L) ==
  << TopKFill("logits", D.vocab, KernelSize) >> \o
  TopKRound("data", "none", D.vocab, <<"top_value", "current_token", 0>>, TRUE, KernelSize)

\* validate_prompt
ValidPrompt(prompt, extra) ==
  /\ prompt # <<>>
  /\ \A i \in DOMAIN prompt : prompt[i] < D.vocab
  /\ Len(prompt) + extra <= D.cap

EmptyRows(n) == [l \in 1 .. D.layers |-> n]
\* enqueue_prefill on a session that has just been reset.
RECURSIVE PrefillFrom(_, _, _)
PrefillFrom(L, c, i) ==
  IF i = Len(c.prompt) THEN <<>>
  ELSE Inline(SelectToken(L, i)) \o Token1(L, c, i, EmptyRows(i)) \o PrefillFrom(L, c, i + 1)
PrefillSteps(L, c) == PrefillFrom(L, c, 0)

\* reset waits for the stream before it clears the lengths.
ResetAfter(ok) == Plain(ok, <<>>)
IdsOf(c) == [ids |-> Buffer(Len(c.prompt))]
UploadIds(c) == Allocating(IdsOf(c), Plain(TRUE, Upload("ids", Len(c.prompt))))
ToHost(b, n) == Allocating([host |-> Buffer(n)], Plain(TRUE, ReadBack(b, n)))

Prefill(L, c) ==
  << ResetAfter(ValidPrompt(c.prompt, 0)), UploadIds(c),
     Joined(TRUE, PrefillSteps(IdsOf(c) @@ L, c)), ToHost("logits", D.vocab) >>

\* decode_one at a position whose layers hold rows: after a failed call some
\* layers hold a row more than position says.
DecodeOne(L, c) ==
  << Plain(c.prompt[1] < D.vocab /\ c.position < D.cap, <<>>),
     Joined(TRUE, Upload("current_token", 1) \o Token1(L, c, c.position, c.rows)),
     ToHost("logits", D.vocab) >>

\* The loops of generate_fixed (record, then forward) and of the profile, whose
\* last token is not fed back.
RECURSIVE FixedFrom(_, _, _, _)
FixedFrom(L, c, step, forwards) ==
  IF step = c.new THEN <<>>
  ELSE Selected(L) \o Inline(RecordToken(L, step)) \o
       (IF step < forwards
        THEN Token1(L, c, Len(c.prompt) + step, EmptyRows(Len(c.prompt) + step))
        ELSE <<>>) \o
       FixedFrom(L, c, step + 1, forwards)

Generated(c) == IdsOf(c) @@ [generated |-> Buffer(c.new)]
GenerateFixed(L, c) ==
  LET M == Generated(c) @@ L
  IN << ResetAfter(c.new > 0 /\ ValidPrompt(c.prompt, c.new)),
        UploadIds(c), Allocating([generated |-> Buffer(c.new)], Plain(TRUE, <<>>)),
        Joined(TRUE, PrefillSteps(M, c) \o FixedFrom(M, c, 0, c.new)), ToHost("generated", c.new) >>
ProfileGreedy(L, c) ==
  LET M == Generated(c) @@ L
  IN << ResetAfter(c.new >= 2 /\ ValidPrompt(c.prompt, c.new - 1)),
        UploadIds(c), Allocating([generated |-> Buffer(c.new)], Plain(TRUE, <<>>)),
        Joined(TRUE, PrefillSteps(M, c) \o FixedFrom(M, c, 0, c.new - 1)), ToHost("generated", c.new) >>

\* generate_until_eos: a forward is awaited together with the next selection,
\* except the last one, which is that of EOS or of the last token.
Forward(L, c, i) ==
  Token1(L, c, Len(c.prompt) + i, EmptyRows(Len(c.prompt) + i))
RECURSIVE UntilEosFrom(_, _, _, _)
UntilEosFrom(L, c, i, shown) ==
  IF i = shown THEN << Joined(TRUE, Forward(L, c, i - 1)) >>
  ELSE << Joined(TRUE, Forward(L, c, i - 1) \o Selected(L) \o HostSlot(i)) >> \o
       UntilEosFrom(L, c, i + 1, shown)
GenerateUntilEos(L, c) ==
  LET M == IdsOf(c) @@ L
      shown == Least(c.stop, c.new)
  IN << ResetAfter(c.new > 0 /\ ValidPrompt(c.prompt, c.new)), UploadIds(c),
        Joined(TRUE, PrefillSteps(M, c)),
        Allocating([host |-> Buffer(shown)], Joined(TRUE, Selected(M) \o HostSlot(0))) >> \o
     UntilEosFrom(M, c, 1, shown)

\* --- Materialization -----------------------------------------------------
\* narrow_resident, and narrow_projection with its temporary K-major copy.
NarrowResident(L, w) ==
  LET fresh == w.dst :> Buffer(L[w.src].len)
  IN << Allocating(fresh, NarrowF16(fresh @@ L, w.src, w.dst, KernelSize)) >>
NarrowProjection(L, w) ==
  LET kn == "kn" :> Buffer(L[w.src].len)
      nk == w.dst :> Buffer(L[w.src].len)
  IN << Allocating(kn, NarrowF16(kn @@ L, w.src, "kn", KernelSize)),
        Allocating(nk, TransposeKnToNk(nk @@ kn @@ L, "kn", w.dst, w.k, w.n, KernelSize)) >>

RECURSIVE MaterializeFrom(_, _, _)
MaterializeFrom(L, layout, i) ==
  IF i > Len(Weights) THEN <<>>
  ELSE (IF Weights[i].projection /\ layout # "kn" THEN NarrowProjection(L, Weights[i])
        ELSE NarrowResident(L, Weights[i])) \o
       MaterializeFrom(L, layout, i + 1)

\* build_rope_cache and the copies of its two tables.
RopeTables ==
  << Allocating([cos |-> Buffer(Angles.cos)], Plain(TRUE, Upload("cos", Angles.cos))),
     Allocating([sin |-> Buffer(Angles.sin)], Plain(TRUE, Upload("sin", Angles.sin))) >>
\* ProjectionKernels::load: a GEMV per block size that some family asks for, and
\* that of a BF16 head, which has no GEMM.
F32ProjectionKernels(p) ==
  LET families == IF p.bf16 THEN F32Families \ {"head"} ELSE F32Families
      sizes == {p[f] : f \in families} \ {0}
  IN << Loading(\A size \in sizes : GemvLoad(size).ok),
        Loading(p.bf16 => p.head # 0 /\ MixedLoad(p.head).ok) >>
\* Model::new_with_execution_plans: the plans, the base graph's type, the
\* representation and context of the weights, then the kernels.
LoadF32(L, c) ==
  LET p == F32Plan(c.entry, c.plan)
  IN << Plain(F32PlanValid(p) /\ c.graph = "F32", <<>>),
        Plain(Exact(L, Resident) /\ SameContext(L, DOMAIN Resident) /\ p.bf16 = (c.head = "BF16"), <<>>),
        GatherLoad(KernelSize), GemmLoad(KernelSize) >> \o F32ProjectionKernels(p) \o
     (IF p.silu # 0 THEN << SiluMultiplyLoad(p.silu) >> ELSE <<>>) \o
     (IF p.lanes # 0 THEN << AttentionCandidateLoad >> ELSE <<>>) \o
     << ElementwiseLoad(KernelSize), TopKLoad(KernelSize), DecoderLoad(KernelSize), RuntimeLoad(KernelSize) >>
     \o RopeTables
\* new_with_execution_and_attention_plan_impl: validation, the kernels that the
\* plans ask for, the weights, the rope tables.
LoadModel(L, c) ==
  << Plain(Exact(L, Sources) /\ SameContext(L, DOMAIN Sources), <<>>), F16ReferenceLoad(KernelSize) >> \o
  (IF c.layout # "kn" THEN << TransposedLoad(KernelSize) >> ELSE <<>>) \o
  (IF c.layout \in {"nk_groups", "nk_mlp"} THEN << FusedGroupsLoad(KernelSize) >> ELSE <<>>) \o
  (IF c.layout = "nk_mlp" THEN << FusedMlpLoad(KernelSize) >> ELSE <<>>) \o
  (IF c.plan # "reference" THEN << AttentionCandidateLoad >> ELSE <<>>) \o
  << TopKLoad(KernelSize), RuntimeLoad(KernelSize) >> \o MaterializeFrom(L, c.layout, 1) \o RopeTables

-----------------------------------------------------------------------------
\* The calls of nnis-model that KernelHost makes: the kernels one by one with
\* any lengths and contexts, and the calls of a session, which owns its buffers
\* and starts from a cache in some earlier state.
ModelSizes == {2, 8}  \* 8 is beyond what a function accepts

ModelMaps == {"f16_narrow", "f16_widen", "f16_add", "f16_silu_multiply", "multiply", "silu_multiply"}
ModelRms == {"f16_rms", "decoder_rms", "candidate_rms"}
ModelProjections == {"f16_project", "f16_lm_head", "project_nk", "lm_head_nk"}
ModelDecodes == {"decode_serial", "decode_value", "decode_f16", "decode_staged", "decode_scores"}
SessionOps == {"f16_prefill", "f16_decode", "f16_generate", "f16_profile", "f16_until_eos"} \cup F32Ops

MapCalls == [op : ModelMaps, size : ModelSizes, n : {0, 1, 3}]
RmsCalls == [op : ModelRms, size : {0, 2, 3, 8}, rows : {0, 2}, cols : {0, 1, 3}]
ProjectCalls == [op : ModelProjections \cup {"transpose", "gate_up", "gate_up_silu"},
                 size : ModelSizes, k : {0, 1, 2}, n : {0, 1, 3}]
QkvCalls == [op : {"qkv"}, size : ModelSizes, k : {0, 2}, q : {0, 2}, kv : {0, 1}]
RopeCalls == [op : {"rope_position", "f16_rope"}, size : ModelSizes, heads : {0, 1, 2},
              dim : {0, 2, 3, 4}, position : {0, 1, 2}, max : {2}]
TokenCalls == [op : {"select_token", "record_token"}, size : {2}, n : {0, 2}, position : {0, 1, 2}]
LookupCalls == [op : {"f16_gather"}, size : ModelSizes, rows : {2}, cols : {0, 1, 3},
                idx : {<<>>, <<1>>, <<1, 0>>}]
DecodeCalls == [op : ModelDecodes, size : {1, 2, 3}, queries : {0, 1, 2, 4}, layer : {0, 1},
                c : [heads : {1, 2}, dim : {1, 2}, cap : {4}, rows : {0, 1, 3, 4}, own : {TRUE}]
                    \cup [heads : {2}, dim : {1}, cap : {2}, rows : {1}, own : {FALSE}]]

Token == D.vocab - 1
BadToken == D.vocab
Prompts == {<<>>, <<Token>>, <<Token, 0>>, <<BadToken>>}
Skewed == {[l \in 1 .. D.layers |-> IF l <= n THEN p + 1 ELSE p] : n \in Span(D.layers), p \in Span(D.cap)}

SessionCalls ==
  [op : {"f16_prefill"}, size : {1}, layout : Layouts, plan : {"reference"}, prompt : {<<Token, 0>>}]
  \cup [op : {"f16_prefill"}, size : {1}, layout : {"kn"}, plan : {"reference"}, prompt : Prompts]
  \cup [op : {"f16_decode"}, size : {1}, layout : {"nk_mlp"}, plan : AttentionPlans,
        prompt : {<<Token>>}, position : 0 .. D.cap, rows : Skewed]
  \cup [op : {"f16_decode"}, size : {1}, layout : {"kn"}, plan : {"reference"},
        prompt : {<<BadToken>>}, position : {0}, rows : {EmptyRows(0)}]
  \cup [op : {"f16_generate", "f16_profile"}, size : {1}, layout : {"nk_groups"}, plan : {"staged"},
        prompt : {<<Token>>}, new : {0, 1, 2, 3}]
  \cup [op : {"f16_until_eos"}, size : {1}, layout : {"nk_mlp"}, plan : {"scores"},
        prompt : {<<Token>>}, new : {2}, stop : {1, 2, 3}]
\* Plans of the F32 model: some families on the GEMV, a BF16 head, the fused and
\* the parallel kernels.
F32Mixed == [F32Baseline EXCEPT !.qo = 2, !.head = 2]
F32Candidate == [F32Baseline EXCEPT !.kv = 1, !.down = 2, !.head = 2, !.bf16 = TRUE, !.silu = FusedSilu, !.lanes = ValueLanes]
F32Plans == {F32Baseline, F32Mixed, F32Candidate}
F32SessionCalls ==
  [op : {"f32_prefill"}, size : {1}, plan : F32Plans, prompt : {<<>>, <<Token, 0>>, <<BadToken>>}]
  \cup [op : {"f32_decode"}, size : {1}, plan : F32Plans, prompt : {<<Token>>}, position : 0 .. D.cap, rows : Skewed]
  \cup [op : {"f32_generate"}, size : {1}, plan : {F32Mixed}, prompt : {<<Token>>}, new : {0, 2, 3}]
  \cup [op : {"f32_until_eos"}, size : {1}, plan : {F32Candidate}, prompt : {<<Token>>}, new : {2}, stop : {1, 3}]
\* A failed token leaves at most one layer after another a row ahead.
SessionReady(c) == c.op \in {"f16_decode", "f32_decode"} => \E l \in 1 .. D.layers : c.rows[l] = c.position
LoadCalls ==
  [op : {"f16_load"}, size : {2}, layout : Layouts, plan : {"scores"}]
  \cup [op : {"f32_load"}, size : {2}, entry : {"new", "projections", "plans", "all", "execution"},
        plan : F32Plans \cup {[F32Candidate EXCEPT !.head = 0], [F32Mixed EXCEPT !.qo = 3],
                              [F32Mixed EXCEPT !.silu = 1], [F32Mixed EXCEPT !.lanes = 1]},
        graph : {"F32"}, head : {"F32", "BF16"}]
  \cup [op : {"f32_load"}, size : {1}, entry : {"new"}, plan : {F32Baseline}, graph : {"BF16"}, head : {"BF16"}]

ModelOps ==
  ModelMaps \cup ModelRms \cup ModelProjections \cup ModelDecodes \cup SessionOps \cup
  {"transpose", "gate_up", "gate_up_silu", "qkv", "rope_position", "f16_rope", "select_token",
   "record_token", "f16_gather", "f16_load", "f32_load"}
ModelHostCalls ==
  MapCalls \cup RmsCalls \cup ProjectCalls \cup QkvCalls \cup RopeCalls \cup TokenCalls
  \cup LookupCalls \cup DecodeCalls \cup {c \in SessionCalls \cup F32SessionCalls : SessionReady(c)} \cup LoadCalls

\* The lengths that the declared shapes of a kernel ask for.
ModelWanted(c) ==
  CASE c.op \in {"f16_narrow", "f16_widen"} -> [in |-> c.n, out |-> c.n]
    [] c.op \in ModelMaps -> [left |-> c.n, right |-> c.n, out |-> c.n]
    [] c.op \in ModelRms -> [in |-> c.rows * c.cols, weight |-> c.cols, out |-> c.rows * c.cols]
    [] c.op \in ModelProjections -> [in |-> c.k, weight |-> c.k * c.n, out |-> c.n]
    [] c.op = "transpose" -> [in |-> c.k * c.n, out |-> c.k * c.n]
    [] c.op = "gate_up" -> [in |-> c.k, w_gate |-> c.k * c.n, w_up |-> c.k * c.n, gate |-> c.n, up |-> c.n]
    [] c.op = "gate_up_silu" -> [in |-> c.k, w_gate |-> c.k * c.n, w_up |-> c.k * c.n, out |-> c.n]
    [] c.op = "qkv" -> [in |-> c.k, wq |-> c.k * c.q, wk |-> c.k * c.kv, wv |-> c.k * c.kv,
                        q |-> c.q, k |-> c.kv, v |-> c.kv]
    [] c.op \in {"rope_position", "f16_rope"} ->
         [in |-> c.heads * c.dim, out |-> c.heads * c.dim,
          cos |-> c.max * (c.dim \div 2), sin |-> c.max * (c.dim \div 2)]
    [] c.op = "select_token" -> [ids |-> c.n, current_token |-> 1]
    [] c.op = "record_token" -> [current_token |-> 1, generated |-> c.n]
    [] c.op = "f16_gather" -> [table |-> c.rows * c.cols, idx |-> Len(c.idx), out |-> Len(c.idx) * c.cols]
    [] c.op \in ModelDecodes ->
         [in |-> c.queries * c.c.dim, out |-> c.queries * c.c.dim,
          keys |-> 2 * c.c.heads * c.c.cap * c.c.dim, values |-> 2 * c.c.heads * c.c.cap * c.c.dim]
    [] c.op \in F32Ops -> F32Lengths(c.plan)
    [] c.op \in SessionOps -> SessionLengths
    [] c.op = "f16_load" -> Sources
    [] c.op = "f32_load" -> Resident

\* The elements that hold data when the call starts.
ModelFilled(c, b, n) ==
  CASE c.op \in ModelDecodes /\ b \in {"keys", "values"} ->
         KvCells(c.c, c.layer, Span(c.c.heads), c.c.rows)
    [] c.op \in SessionOps ->
         IF b \in DOMAIN Resident \cup DOMAIN Angles THEN Span(n)
         ELSE IF c.op \in {"f16_decode", "f32_decode"} /\ b \in {"keys", "values"}
         THEN UNION {KvCells(Cache(0), l, Span(D.kv), c.rows[l + 1]) : l \in Span(D.layers)}
         ELSE {}
    [] c.op = "gate_up" /\ b \in {"gate", "up"} -> {}
    [] c.op = "qkv" /\ b \in {"q", "k", "v"} -> {}
    [] c.op = "select_token" /\ b = "current_token" -> {}
    [] c.op = "record_token" /\ b = "generated" -> {}
    [] b = "out" -> {}
    [] OTHER -> Span(n)

\* What a call that succeeds has written in full.
ModelOutputs(c) ==
  CASE c.op \in SessionOps -> {"host"}
    [] c.op = "f16_load" -> DOMAIN Resident \cup DOMAIN Angles
    [] c.op = "f32_load" -> DOMAIN Angles
    [] c.op = "gate_up" -> {"gate", "up"}
    [] c.op = "qkv" -> {"q", "k", "v"}
    [] c.op = "select_token" -> {"current_token"}
    [] c.op = "record_token" -> {}
    [] OTHER -> {"out"}

ModelLoad(c) ==
  CASE c.op \in {"multiply", "decoder_rms"} -> DecoderLoad(c.size)
    [] c.op = "silu_multiply" -> SiluMultiplyLoad(c.size)
    [] c.op = "candidate_rms" -> CandidateRmsLoad(c.size)
    [] c.op \in {"project_nk", "lm_head_nk", "transpose"} -> TransposedLoad(c.size)
    [] c.op \in {"qkv", "gate_up"} -> FusedGroupsLoad(c.size)
    [] c.op = "gate_up_silu" -> FusedMlpLoad(c.size)
    [] c.op \in {"rope_position", "select_token", "record_token"} -> RuntimeLoad(c.size)
    [] c.op \in ModelDecodes \cup SessionOps \cup {"f16_load", "f32_load"} -> AttentionCandidateLoad
    [] OTHER -> F16ReferenceLoad(c.size)

ModelBody(c, L) ==
  CASE c.op = "f16_narrow" -> << NarrowF16(L, "in", "out", c.size) >>
    [] c.op = "f16_widen" -> << WidenF16(L, "in", "out", c.size) >>
    [] c.op = "f16_add" -> << AddF16(L, "left", "right", "out", c.size) >>
    [] c.op = "f16_silu_multiply" -> << SiluMultiplyF16(L, "left", "right", "out", c.size) >>
    [] c.op = "silu_multiply" -> << SiluMultiply(L, "left", "right", "out", c.size) >>
    [] c.op = "multiply" -> << MultiplyF32(L, "left", "right", "out", c.size) >>
    [] c.op = "f16_rms" -> << WeightedRmsNormF16(L, "in", "weight", "out", c.rows, c.cols, c.size) >>
    [] c.op = "decoder_rms" -> << WeightedRmsNorm(L, "in", "weight", "out", c.rows, c.cols, c.size) >>
    [] c.op = "candidate_rms" -> << CandidateRmsNorm(L, "in", "weight", "out", c.rows, c.cols, c.size) >>
    [] c.op = "f16_project" -> << ProjectKn(L, "in", "weight", "out", c.k, c.n, c.size) >>
    [] c.op = "f16_lm_head" -> << LmHeadKn(L, "in", "weight", "out", c.k, c.n, c.size) >>
    [] c.op = "project_nk" -> << ProjectNk(L, "in", "weight", "out", c.k, c.n, c.size) >>
    [] c.op = "lm_head_nk" -> << LmHeadNk(L, "in", "weight", "out", c.k, c.n, c.size) >>
    [] c.op = "transpose" -> << TransposeKnToNk(L, "in", "out", c.k, c.n, c.size) >>
    [] c.op = "gate_up" -> << GateUpNk(L, "in", c.k, c.n, c.size) >>
    [] c.op = "gate_up_silu" -> << GateUpSiluNk(L, "in", "out", c.k, c.n, c.size) >>
    [] c.op = "qkv" -> << QkvNk(L, "in", c.k, c.q, c.kv, c.size) >>
    [] c.op = "rope_position" -> << RopePosition(L, "in", "out", c.heads, c.dim, c.position, c.max, c.size) >>
    [] c.op = "f16_rope" -> << RopePositionF16(L, "in", "out", c.heads, c.dim, c.position, c.max, c.size) >>
    [] c.op = "select_token" -> << SelectToken(L, c.position) >>
    [] c.op = "record_token" -> << RecordToken(L, c.position) >>
    [] c.op = "f16_gather" -> << GatherF16(L, "idx", "out", c.idx, c.rows, c.cols, c.size) >>
    [] c.op = "decode_serial" -> << DecodeSerial(L, "in", "out", c.c, c.layer) >>
    [] c.op = "decode_value" -> << DecodeParallelValue(L, "in", "out", c.c, c.layer) >>
    [] c.op = "decode_f16" -> << DecodeF16(L, "in", "out", c.c, c.layer) >>
    [] c.op = "decode_staged" -> << DecodeStaged(L, "in", "out", c.c, c.layer) >>
    [] c.op = "decode_scores" -> << DecodeParallelScores(L, "in", "out", c.c, c.layer, c.size) >>
    [] c.op \in {"f16_prefill", "f32_prefill"} -> Prefill(L, c)
    [] c.op \in {"f16_decode", "f32_decode"} -> DecodeOne(L, c)
    [] c.op \in {"f16_generate", "f32_generate"} -> GenerateFixed(L, c)
    [] c.op = "f16_profile" -> ProfileGreedy(L, c)
    [] c.op \in {"f16_until_eos", "f32_until_eos"} -> GenerateUntilEos(L, c)
    [] c.op = "f16_load" -> LoadModel(L, c)
    [] c.op = "f32_load" -> LoadF32(L, c)
===============================================================================
