# A TLA+ verification project for NNIS

NNIS (NVIDIA Native Inference Stack) is a Rust substrate for decoder inference: a
CUDA runtime with device memory, streams and a KV cache, a JIT compile cache, kernel
families and the decoder runtimes built on them, and beside them a portable engine
with a CPU and a WGPU backend, checkpoint and weight formats, and the records in
which runs are reported. This directory models the parts that keep state across
fallible or asynchronous steps and the algorithms those steps rest on, checks them
with TLC and proves the central ones with TLAPS. The modules are translated from the
Rust source; `PROJECT.json` names the lines behind every definition, the hazards of
the code with the properties that watch them, and the theorems.

## 1. Inventory

| Component (source) | State it keeps | Operations | What is hard |
|---|---|---|---|
| Decoder session (`nnis-model` `runtime.rs`, `runtime/kv_selection.rs`, `sampling.rs`, `streaming.rs`, `speculative_session.rs`) | position, KV cache, workspace (logits, current token), pending appends | `reset`, `prefill`, `decode_one`, `generate` (fixed / until EOS / sampled / streaming), `verify_greedy_draft`, `compact_kv_cache_rows` | a token is a long sequence of fallible launches, one cache append per layer; errors leave the session where the failing step found it; rewinds after compaction; logits that outlive the state they belong to |
| KVLab backends (`nnis-cli/src/bin`) | one session, one request, its scored steps | read, prefill, select rows, bridge, score, answer | scores must belong to the rows, positions and bytes the answer states |
| KV cache (`nnis-rt` `kv_cache.rs`, `async_work.rs`) | two planes, a length per layer, ownership records of appends | `append_layer(_async)`, `wait`, drop, `truncate`, `reset`, `reset_layer` | the host runs ahead of the device; driver errors in the middle of a plan; who may free what when |
| KV compaction (`nnis-rt` `kv_compaction.rs`) | a replacement cache and dense scratch | `compact_kv_cache`, `compact_kv_cache_layer` | all or nothing over several layers |
| Memory pool (`nnis-rt` `pool.rs`) | per buffer: pointer, consumer streams | `alloc`, `share_with`, copies and fills, drop | blocks are reused in stream order; event dependencies in both directions |
| JIT cache (`nnis-jit` `cache.rs`) | map from key to compiled object under a mutex | `compile`, `clear` | compilation happens outside the lock |
| Kernel host code (`nnis-kernels`, and `nnis-model` `kernels.rs`, `runtime_kernels.rs`, `f16_*`, `fused_swiglu.rs`) | buffers of a call, launches in flight | one synchronous call per operation; prefill, decode and generate as sequences of launches | lengths, grids and index data of the caller against what threads touch; several launches through one scratch; failures half-way |
| CUDA kernels (sources embedded in the same files) | shared memory of a block | row reductions, softmax, norms, fused and decode attention, tiled products | barriers between lanes; any block size and row length |
| Portable session (`nnis-core`, `nnis-cpu`, `nnis-wgpu` `session.rs`, `kv_fp4_shadow.rs`) | dense rows, running sum, pending row, logits, position, FP4 shadow | `stage_token`, `advance_kv`, `encode`, `decode_one`, `truncate`, `reset` | every kernel or readback may fail between two assignments |
| Portable backends (`nnis-cpu`, `nnis-wgpu`: memory, `numerical.rs`, `graph.rs`, `replay.rs`, `fp4*.rs`, `speculative.rs`, `pvp.rs`; their contracts in `nnis-core`) | buffers, queue, error scopes; plans and budgets; replay sources; banks | transfers, F32 kernels, admission and execution of graphs, replay windows, FP4 rows, draft verification, subset-zeta transform | two implementations of one contract; early returns between push and pop of a scope; limits of the number types |
| Kernel artifacts (`kernel_artifact.rs`, `nnis-wgpu` `lib.rs`) | an artifact, its fingerprint, a binding | `new`, `bind`, `add_f32` | what was validated and what is dispatched are different values |
| Portable evidence and campaigns (`adapter_evidence.rs`, `host_evidence.rs`, `dsv41_campaign*.rs`, `evidence/` of both backends, `nnis-cli` `evidence.rs`) | a record, a preregistration | qualify, write, review; preregister, submit | suites that end early; edited records; a value compared with itself or with nothing |
| Checkpoints and weights (`safetensors_loader.rs`, `safetensors_preflight.rs`, `config.rs`, `weights.rs`, `int4_reference.rs`, `int2_*`, `sparse_*`, `dense_weight_materialization.rs`, `f16_materialization_memory.rs`, `representation_plan.rs`) | tensors, shared buffers, resident and dense forms, byte ledger | preflight, load, convert, materialize | two readers of one directory; shared sources; peaks of memory |
| Weight qualification (`weight_*`, `qualified_weight_*`, `elastic_stage_b_handoff.rs`, the campaign example, `nnis-cli` `main.rs`) | an artifact and the records issued from it | run a campaign, read back, issue a record, hand off | a chain of validators, each seeing only its own document |
| Rebuild transition (`execution_transition.rs`) | phase, plans, memory budget of a transaction | `new`, `execute` with rollback | a call of the serving owner fails at any point; clients open sessions meanwhile; overflow in the admission |
| Session batches, bindings, benchmarks, tokenizer | - | - | loops over the above, or foreign code without protocol state |

How they interact: a session owns its cache, its stream and its workspace, calls
`append_layer_async` once per layer and token, and sends the launches of the kernel
families in between; compaction builds a second cache on the same stream and swaps;
`PendingGpuWork` ties each append to an event of that stream. The pool and the JIT
cache are shared between threads. The rebuild transition drives an external serving
owner through a trait. A portable session stands on the buffers, kernels and FP4
shadow of its backend; evidence is taken of all of them by suites and reviewed later
from a file.

## 2. Modules

```
KvLayout               shape and cell addressing of the cache
  KvCache              asynchronous appends, ownership, the device's stream
  KvCompaction         staging, replacement, swap
      implements KvRows (abstract: rows per layer, requests, one-step answers)
InferenceSession       calls of one decoder session over the rows of KvRows
  KvlabBackend         a process that drives it through one request
StreamPool             pooled buffers on several streams

JitCache               threads sharing a compile cache        \
HostRows               launches; elementwise, norms, softmax   |
  HostMatrix           products, gathers, rope, attention      |
    HostModel          the kernels of nnis-model               |  MCKernelPipeline
      HostSession      what one token of a model launches      |
        KernelHost     a call: validate, enqueue, run, drain   |
ThreadBlock            lanes, barriers, accesses of a block    |
  RowKernels, FusedAttention, DecodeAttention, TiledGemm       |
    DeviceKernels      one launch of any of them              /

PortableSession, PortableBuffers, PortableNumerical <- PortableGraph, PortableReplay,
PortableFp4, PortableSpeculative, PortablePvp, PortableArtifact, PortableEvidence
  MCPortableStack      the layers of the portable engine, one run

WeightFormats <- CheckpointLoader <- WeightStorage <- WeightEvidence
RebuildTransition      rebuild coordinator, its runtime, its clients

*Proofs                theorems about the module they extend
MC*                    instances for TLC
```

`MCKernelPipeline`, `MCPortableStack` and `MCRebuildTransition` put layers side by side
that meet in values only (a compiled object, a launch, the bytes of a buffer, a
model): a behaviour works in one layer while the others stand still, so their state
spaces add and do not multiply, and one run asks one question of a whole stack.

### Sessions and their cache

**InferenceSession.** `rows[l]` is the valid prefix of cache layer `l`; a row is
the token and position it was computed for. `logits` is the token history its
content was computed from. A public call is a record `call`; its steps are actions:
`Feed` sends one token through all layers (`enqueue_current_token`), `FeedError`
fails after `k` layers and then drains the stream or fails to, `SyncError` is a
failed `finish` or readback, `Choose`/`Show`/`GenerateDone` are the generation
loop, `Verify`/`Judge`/`VerifyDone`/`UnwindOk`/`UnwindError` the speculative step,
`Compact` the row selection. Any token may be chosen and any draft prefix accepted,
since the model leaves the numbers out. Ghost variables: the history the session
stands for, the first row a failed step may have spoilt (`faultAt`), and whether
the cache was compacted, rewound after that, or a call unwound.

**KvlabBackend** adds the process around a session: the validation of a v3 or v4
request, prefill, selection of rows, the bridge token, teacher-forced scoring and the
answer. It uses the session's own actions, with their failures; a failure ends it.
`BackendSpec` is the process alone; the run also lets other callers use the session.

**KvCache.** `stream` is the queue of submitted operations; `SubmitCopy` adds one
`cuMemcpyAsync` of the append's plan, `Commit` adds the event and advances the
length, `DeviceStep` executes the head. `status[a]` is the ownership record of
append `a`; `SourceLive` and `CacheLive` say when an allocation still has an owner.
`SubmitFail`, `DrainOk` and `DrainFail` are the error paths, `Leak` the drop whose
event cannot be waited for. The caller's kernels (`WriteSource`) overwrite the
sources on the same stream, as the session does with its workspace.

**KvCompaction** keeps the planes cell by cell, one plane for both sides;
`ReadRows` maps it to **KvRows**, which states what a cache promises its users
and is the view InferenceSession is written against.

**StreamPool** has one queue per stream, events, `share_with` split at its
submissions, and the drop consumer by consumer. A block may be handed out again
as soon as the free is enqueued, which is what stream-ordered allocation allows.

### Kernels

**JitCache** splits `compile` at its two critical sections.

**HostRows** and the chain over it give every synchronous operation of the kernel
families as a section: the conditions of its validators, the buffers it allocates, its
launches in order, and whether its wrapper waits after a failure. A launch is the
sets of elements its threads read and write, computed from the kernel's text and from
the grid the host computes, so that a guard missing on either side shows.
**HostSession** composes the sections of one token of the F32 model under every
execution plan, and of the F16 reference model with the narrowing and transposing of
its weights. **KernelHost** runs a section: `Validate`, allocations, launches that may
each be refused, a device that executes at its own pace, drains that may fail.

**ThreadBlock** is one block: each lane has a program counter, `__syncthreads` waits
for all lanes, and shared-memory accesses since the last barrier are kept. Values are
symbolic: the bag of columns folded into a partial result (**RowKernels**), the set of
keys attended to and the maximum it is relative to (**FusedAttention**), the cache rows
blended with their own weights (**DecodeAttention**), address pairs multiplied
(**TiledGemm**). A lost, doubled or stale term is a different value.

### The portable engine

**PortableSession** splits `encode` and `decode_one` into their stages and commits; a
floating-point sum is the sequence of rows added, since addition is not associative,
logits are the sum they were projected from. **PortableBuffers** makes every call on
both backends: bytes on the CPU; on WGPU a program of device steps over padded buffers,
with the read-modify-write of an unaligned span and nested error scopes.
**PortableNumerical** has the F32 kernels of both backends: the CPU fuses each step of a
projection, the device fuses it or rounds the product by itself (`DeviceFmas`), which may
also overflow where the fused step does not. **PortableGraph** is the admission of plans
and their execution on the CPU kernels. **PortableReplay** has sources, windows, generations
and the reuse plan; **PortableFp4** the layout, the encoder, both decoders (the WGPU one
in integers) and the shadow; **PortableSpeculative** the schedule, both greedy verifiers
and the statistics; **PortablePvp** the packed banks and both transforms, the WGPU one as
invocations in any order; **PortableArtifact** artifacts, capabilities, bindings and the
dispatch of `add_f32`.

**PortableEvidence** has three parts. The oracle of the CPU suites, an exact integer
arithmetic that rounds once. The suites with the sizes they compare, the tallies, the
records, their validators and strict parsers, and the commands with their exit status;
`EditedRecords` is a record changed in one place before somebody reviews it. And the
preregistered campaigns, whose evidence must report each cell once.

### Weights and plans

**CheckpointLoader** reads a directory (one file, shards with an index, or an NNIS
manifest) the way the loader and the preflight do; a tensor is named by its suffix and
layer, a payload is numbers, and the order in which a shard's tensors come is that of a hash
map (`Orders`). **WeightFormats** and **WeightStorage** convert the source
buffers to INT4, INT2 or sparse forms and back to the dense model that executes, or to
F16 or a BF16 head, with the byte ledger of each step. **WeightEvidence** runs a campaign
over three families while files may be replaced between its reads, and issues what the
command line derives from its artifact (`EvidenceSpec` is that alone). **RebuildTransition** has an action for every call
`execute` makes; the runtime is a trait without implementation in the repository: its
state (`active`, `admitting`, `sessions`, `kv`) is modelled from the trait's contract and
marked external where no line stands behind it.

## 3. Runs

Deadlock checking is off in every run: calls, kernels, threads and files are bounded, so
a behaviour ends when the bounds are used up.

| Run | Instance and why it is enough | Distinct states |
|---|---|---|
| `session` | 2 tokens, 2 layers (the smallest with a skew between layers), capacity 4, prompts and drafts of up to 2 tokens, 4 calls: room for prefill, compaction, a failed and a following verification; and backends of both versions with every request of up to 2 prompt and 3 scored tokens and every selection, and requests with one field wrong | about 656 000 |
| `session_rewound`, `session_logits` | the same instance | violations |
| `kv_cache` | 2 layers, 2 heads, capacity 2, sources of one and two tokens, 2 appends, 2 kernels: append, fail, truncate, append again with both queued, head by head | about 3 130 000 |
| `kv_compaction` | 2 layers, 2 heads, capacity 3, every selection | about 39 000 |
| `stream_pool` | 2 consumers, 2 buffers and ONE block, so that reuse always conflicts; 2 uses, 4 events, together at most `MaxWork` 4 | about 425 000 |
| `portable_session` | one instance per layer, below | about 562 000 |
| `portable_accounting` | the session layer alone, 4 calls | violation |
| `rebuild_transition` | checkpoints, campaigns and transitions, below | about 128 000 |
| `kernels` | 3 threads and 2 keys in the cache; calls with lengths 0, 1, 3, 9 and shapes up to 3 x 9; blocks of up to 4 lanes, rows of 0 to 8 elements; below | about 507 000 |
| `attention_race`, `empty_max` | the same instance | violations |

*Kernels.* `MaxBlockThreads` 4 with block sizes 1 to 4 has trees with and without odd
remainders, rows shorter and longer than a block, and grids of several blocks that need a
second and third reduction pass (`MaxGridX` 16 and `MaxGridYZ` 2 make the grid limits
bite). Attention is checked with two lanes and two chunks, two query rows and heads;
decode attention with grouped heads; tiles of side 2 with ragged edges. The decoder has
two heads over one KV head, odd sizes, 2 layers and a cache of 3 positions.

*Portable stack.* Session: capacity 3, prompts one longer, 6 calls. Buffers: alignment 2,
up to 4 bytes and a size refused, 2 transfers, each failing at each step. Kernels:
values -2, 1 and 3 with 4 the greatest, so that sums and products overflow, and a product
with a slip of 1 where the fused sum does not. Graphs: every
plan of 2 nodes over the input shapes of `MCShapes`, under limits some exceed. Replay:
positions 0..2 standing for u64, so that the inclusive range of all positions overflows as
it does in the code; 3 layers. FP4: groups of 2 with a ragged last one; zeroes, ties and a
value far above its group, in a float of 2 mantissa bits and 4 exponents. Speculation: bit patterns of 2 bits and sign (both zeros,
both infinities), drafts of up to 2 and one too long. PVP: up to 4 addresses, words that
the gates fill in part. Artifacts: fields at and beyond the limits of the device.
Evidence: a float of 3 mantissa bits with every kind of magnitude, `StickyGap` 8, which
is at least 2 * bits + 1 as 60 is in the code; all suites with their real sizes (the replay
suite with 4 source rows for 16); one thing wrong in a run and one member changed before a
review, so that every verdict has a cause; campaigns of 4 to 8 cells with one thing wrong.

*Models.* About 100 directories: complete ones of every layout, and each of the ways in
which one can be incomplete, foreign or doubled; one layer, 2 heads over one KV head,
vocabulary 3; weights with ties between levels, zero tensors and values that are not
finite; shared buffers; a shard's tensors in both directions (the proof has every order).
Campaigns: one file replaced between two reads (`MaxChanges`), one
edit of an artifact or record (`MaxEdits`). Transitions: 2 plans, 2 clients, byte counts
0..2 standing for u64, one further transaction object with arbitrary fields.

Symmetry is used over tokens, payloads, threads, plans and clients where no definition
tells them apart, and never in the run with the liveness property.

What the passing runs show:

* **Sessions.** `IntactPrefix`: below the first failed step all layers hold exactly
  the session's tokens at their positions, whatever failed before. `RetainedHistory`:
  compaction keeps rows of the history with their original positions. `JudgedLogits`:
  a draft is judged against the logits of its own prefixes. `VerifyOutcome`: a
  verification leaves the accepted prefix plus one token, or what it found.
  `GenerateExact` and `ShownIsExecuted`: returned and streamed tokens have been executed.
  `ScoresAttested`: what a KVLab backend answers was computed from the rows, positions
  and tokens of its request and nothing else, and the bytes it states are theirs.
* **KV cache.** `NoUseAfterFree`, `ReleasedIsDone`: no order of failures and drops
  frees memory the stream still refers to. `CommittedRows`: a counted position holds,
  or has a copy underway to hold, the row that was appended there.
* **Compaction.** `ImplementsKvRows`: the copy-and-swap compaction refines the
  one-step compaction: a reader sees all of it, in every layer at once, or nothing, and
  what is left are the rows the caller asked for (the abstract state carries the request).
* **Pool.** `PoolSafe`: a use meets its own block, after the writes it was shared behind.
  `DroppedIsFreed` (liveness): a dropped buffer is given back.
* **Kernels.** `OneResultPerEpoch` of the cache. Of the host calls: `InBounds`,
  `OutputWhole` (a success has written every element of its outputs), `ScratchFresh` (no
  launch reads what nobody wrote or what its own blocks overwrite), `Drained` (nothing is
  left running when a call returns, but for a failed synchronize). Of the lanes:
  `OrderedAccess` (no two lanes race for a shared cell) and `FormulaComplete` (what a block
  leaves is its formula).
* **Portable stack.** `SumIsCommitted`, `LogitsCurrent`, `EncodePrefix` of the session;
  `MemoryAgrees` and `ErrorsReported` of the buffers. `KernelsAgree`: what a backend
  accepts is finite, what it refuses leaves the output alone; every kernel but the
  projection accepts the same operands on both with the same result; projections that both
  accept are within the declared bound, and both accept those that stay clear of the limits
  (`Ample`). Near the limits either backend may refuse alone, and the run has such cases.
  `GraphExecutes`, on the CPU kernels: an admitted plan runs within its bound and computes
  what it denotes. `ReplayExact`, `Fp4Nearest`, `VerifyGreedy`, `ZetaIsSubsetXor`: both
  backends do the same, and it is what the definition written beside the property says.
  `BoundFits`: a device can run the artifact it was bound to.
  `EvidenceHonest`: the oracle rounds as exact arithmetic does; a run is said to agree only
  when every value of every suite was compared and agreed, on a clean commit and hardware; a
  review returns the verdict of the run, and one changed member cannot turn a failure into
  an agreement; accepted campaign evidence has each cell once.
* **Models.** `LoadedIsSource`, `PreflightAgrees`; `DenseIsNearest`, `LedgerIsEvidence`;
  `HandoffHonest`: a record speaks of what was measured on the checkpoint it names;
  `TransitionSafe` and `CommitsOnce` of the rebuild.

The violation runs record disagreements between a comment or document and the code:

1. `session_rewound`: `verify_greedy_draft` rewinds a compacted cache by a logical
   position, so rows of rejected tokens stay, while the comment says that cache and
   position are rewound to the accepted prefix.
2. `session_logits`: after a verification that failed and was rewound, the logits
   buffer is that of a discarded token, while the comment says the logits of the
   current position are read back.
3. `portable_accounting`: a `truncate` that fails to refresh its logits leaves the FP4
   shadow at the old length, while the document promises exact accounting.
4. `attention_race`: the fused attention kernels store a weight in the cell that holds the
   maximum with no barrier after the read, so a late lane of another warp takes one for the
   other and the output is not the attention formula of the comment.
5. `empty_max`: the maximum of an empty input is read back from memory nobody wrote, while
   the comment defines it.

**Fairness.** Only `StreamPool` claims liveness. `FairSpec` assumes that a started drop
runs to its end (it is a loop of host code without waits) and that a stream whose
next operation can run runs it (CUDA executes submitted work). Nothing is assumed of
callers: they need never share, use or drop.

## 4. Proofs

Everything below holds for all values of the constants, under the named assumptions
of the modules (dimensions positive, bounds natural numbers, `SrcTokens` a function
on the sources, `None` not a plan).

* `InferenceSessionProofs`: `PrefixIntact` and `SessionTypes`. `IntactPrefix` alone is
  not inductive: that a rewind lands inside the intact part needs `CallProgress` (how
  far the call in progress has moved position beyond its start) and `FaultBelow` (a
  recorded fault lies at or below position until a rewind passes it). The proof splits
  the invariant into the data, the call and the rest, and has a lemma for each way the
  rows change (`EnqueueKeeps`, `PartKeeps`, `ResetKeeps`, `RewindKeeps`).
  A second invariant, `HInv`, stands on this one and carries the other properties:
  `ShownHolds`, `JudgedHolds`, `RetainedHolds`, and for the ends of a call `GenerateHolds`
  and `VerifyHolds`. It says what the call in progress has executed of what it was given
  (`GenerateProgress`, `VerifyProgress`), that the rows a verification began with were
  those of its history (`StartRows`), that one row of logits is judged per token decoded
  (`JudgedSoFar`), and that logits belong to the history unless a rewind or a failed
  readback left them behind (`LogitsFresh`, the flag `unwound`).
  `AttestedHolds` is about the process of `KvlabBackend` over that session. `BackendInv`
  says what validation and loading leave of a request (`Usable`: the rows to keep increase,
  lie inside the input and are those of the retained positions or ids), and for each step of
  the process how far the session is, unless a call failed: how much of the input has a row
  on every layer (`Filling`), then how many evaluated tokens stand behind the selected rows
  (`Decoded`). That the kept rows fit into the cache is the pigeonhole principle
  (`KeptFits`), and the bytes of the response are a cardinality (`CachedRows`). It assumes
  that the lists of a request are lists (`BackendAssumption`).
* `KvCacheProofs`: `MemorySafety` and `TypeCorrect`. The invariant adds that an unused
  append has nothing in the stream, copies read sources their append retains, the
  event of an append stands behind its copies (`EventIsLast`, `PendingHasEvent`), and
  the record in flight is the one of the call the host is in (`HostOwns`).
  On it stand `ReleasedHolds` (a retired append has no copy left to run) and
  `CommittedHolds` (the valid prefix holds, or still has on its way, exactly what its
  appends were given). The second needs `Data`: for every valid row the last writer of
  each of its cells is known, be it in the plane or in a copy of the stream, and so is what
  that copy will find in its source. A copy into one row must leave every other alone,
  which is arithmetic:
* `KvLayout` proves that distinct layers, positions and columns are distinct cells
  (`CellInjective`), inside the plane (`CellInPlane`), and that a head's row is one run
  of cells (`CellRun`), from the uniqueness of quotient and remainder.
* `KvCompactionProofs`: `CompactionHolds`, the invariant (`SelectionsValid`;
  `LayersReplaced`: the layers done hold their selected rows in order in the replacement
  and the others nothing; `ScratchStaged`: the scratch is the staged layer), and
  `CompactionImplementsKvRows`: initial states map to initial states, the steps of a
  compaction are stutters until the swap, and the swap is the abstract selection. The
  code compares neighbouring positions of a selection only; that all of them increase
  (`ValidIncreasing`) is proved by taking the least counterexample (`LeastNatural`).
* `StreamPoolProofs`: `PoolInvariant` and from it `PoolSafeHolds`. A position of one
  queue comes *after* one of another (`Before`) when an event recorded behind the second
  is awaited ahead of the first. The invariant says that every use on a consumer comes
  after the allocation and the writes it was shared behind (`UsesPromised`), that the free
  comes after every such use unless an ordering call of the drop failed
  (`UsesProtected`), and that two buffers have one block only one after the other in the
  allocating stream (`BlocksTakenInTurn`). The proof has a host half and a device half. A
  call of the host only appends to queues (`HostShape`), so what came before something
  still does. The device removes the head of one queue (`Shift`), and an event that has
  fired leaves the relation on both sides. A use at the head of its queue comes after
  nothing, so what it was promised has executed, and its free is not among that.
* `JitCacheProofs`: `OneResult`; strengthened by `ReturnedIsKept`: a result returned
  since the last clear is the one still in the map.
* `RebuildTransitionProofs`: `RebuildSafe` (the three parts of `TransitionSafe`) and
  `CommitsOnceHolds`; strengthened by `TxProgress`, which says what each phase has
  already established.
  `HandoffHolds`, of `EvidenceSpec`, for any payloads, tokenizers, devices and summaries and
  any number of replaced files and of edits. Half of it is about no behaviour at all: of any
  artifact the checks accept, the record says what `HandoffHonest` asks (`AcceptedHonest`; a
  storage summary in the place of a model is `StorageIsNotReady`). `CampaignInv` is the other
  half: what the runner has noted and verified at each step (`Noted`, `Counted`, `Agreeing`),
  that it is still so of the disk while no file was replaced (`Unreplaced`), and that the file
  unless edited is that of its campaign (`Written`), the answer one about the file as it is. It assumes
  that a storage summary counts at least one weight, and no buffer without a name
  (`EvidenceAssumption`).
  `LoadedHolds` and `PreflightHolds`, of `WeightsSpec`, so that conversions may follow the
  load. `LoaderInv` splits the slots of the directory's files into those ahead of the load
  and those behind: a slot comes once, the tensors uploaded are those of the slots behind,
  which the preflight would accept and which have different names (`Visiting`), and each
  has the shape, type and words it should (`Contents`). So a load that has seen every slot
  has checked what the preflight checks, and one that was refused met a slot, or misses a
  name, that the preflight refuses (`Judged`). The rest is arithmetic: element (r, c) of a
  row-major buffer is where it should be (`RowMajor`), and `transpose_matrix` reads it at
  (c, r) (`TransposeAt`). It assumes that configurations hold natural numbers and that a
  file lists its tensors in an order that has each of them once (`CheckpointAssumption`).
* `PortableProofs`, for the session: `SumHolds`, `LogitsHold` and the action property
  `EncodeHolds`. The invariant adds `PendingIsStaged` (a pending row has room, and the
  logits are those of the sum with it) and `EncodeProgress` (what `encode` was asked is
  what it has committed, staged and still to do). The rest are facts about sequences:
  a commit appends (`CommitAppends`), a truncation cuts (`CutKeeps`).
  For replay: `ReplayHolds`. The invariant says that the owners of the plan, and no other
  layers, have a source of the present generation (`OwnersBound`), and that a request
  stays inside the source it names (`RequestMade`). That the row extent of a window is
  exactly its positions, all columns, is `WindowRows`; counts overflow only with the count
  of the source (`WindowCounts`), which could not have been made then.
  For artifacts: `BoundHolds`. A fingerprint names one artifact (`FingerprintNames`); slots
  that increase between neighbours are all different (`SlotsIncrease`); the greatest size is
  at least each of them (`GreatestOf`); and a dispatch that rounds up covers every element
  (`GroupsCover`). The invariant ties the binding to the artifact and to the one device
  that was granted while no thread was discovering.
  For buffers: `MemoryHolds` and `ErrorsHold`, of `BufferSpec`. Between calls a device buffer
  is the host's bytes, padded with zeros (`AllPadded`). During a call the steps still to do
  say how far it is (`Reading`, `Writing`, `Copying`, `Closing`): which scopes of its own are
  open, that an error raised is in one of those its next pop asks, and what the span in hand
  holds. A readback keeps what lies below its scopes (`ReadingGoes`), so it can stand inside
  the scope of a write. That a span read around an unaligned payload, overlaid and stored
  back, is the payload written in place is `PatchThroughSpan`, and that it stays inside the
  buffer is arithmetic of rounding (`UpIsLeast`, `UpMonotone`). It assumes that the sizes
  asked for are numbers.
  For verification: `SpeculationHolds`, of `SpeculativeSpec`. Order keys are in the order
  of the numbers, with one key for the two zeroes (`KeysOrder`). So the loop over values and
  the loop over keys are at the same column after every turn, the first of the greatest so
  far (`Abreast`, `TurnKeeps`, `ArgmaxAgrees`); that both loops have values at all is
  `LoopHasValues`, by a least counterexample. Given this, an accepted outcome continues the
  target greedily (`OutcomeContinues`), and the invariant is about the order of events: a
  row is unwritten or holds what its loop finds, a backend that has answered has answered
  what the CPU would, and its counters are those of the other backend or one outcome ahead
  (`Counted`). It assumes that tokens, confidences and bounds are natural numbers, and that
  a row has one pattern per vocabulary entry, of any width.
  For the F32 kernels: `KernelsHold`, of `NumericalSpec`. Once the operands were validated, a
  dispatch that is no projection leaves in scratch and status what the CPU computes and
  decides (`DispatchAgrees`). A projection leaves whatever a device may round to: as long as
  both sums of a column are finite they part by at most one slip a row (`FmaClose`,
  `ColumnsClose`), and in an ample projection no sum leaves the finite values, fused or not
  (`FmaAmple`, `ColumnsAmple`), both by going up the rows (`Upward`).
  The kernels without a status word need none, for they write finite inputs only
  (`UnflaggedFinite`), and a scatter that adds up duplicates keeps its scratch finite also
  when it stops half way (`ScatterFinite`). The invariant (`KernelCall`) says that the output
  is untouched until the status word is read, and what the word means at each step.

Only model-checked:

* `DroppedIsFreed`: it rests on fairness, which this prover has no rules for.
* The properties of stored weights (`DenseIsNearest`, `LedgerIsEvidence`): their steps
  sum and pack with the folds of the community modules, and packing shifts by powers of two.
* The properties of CUDA kernels, on the host and in the lanes. The host modules compose
  launches with recursive operators, which the provers cannot see into, and the lane
  modules evaluate symbolic sums over whole blocks.
* The other portable layers (graph, FP4 blocks, PVP banks and
  evidence), and what their recursive functions compute for
  every input: the library's induction theorems take an operator as their parameter, which
  no prover here can instantiate. An induction over the naturals can be replaced by a least
  counterexample, as in `KvCompactionProofs` and `PortableProofs`; one over data cannot.

## 5. Not modelled

* Floating-point values, wherever no property is about rounding: kernels are checked for
  what enters a result and not for its bits. The exceptions are the FP4 codec, the order
  keys of the verifier and the oracle, which are integer algorithms. The scales of the
  stored formats are kept as the magnitudes they are made of.
* The sampler's distribution: a sampled token may be any.
* Digests and fingerprints are injective; texts are shapes (canonical, padded, control,
  blank); JSON syntax is a document with exactly the members of its schema or not.
* Subnormal values in the F32 kernels, which a device may flush in arithmetic and which the
  WGSL kernels put outside their contract; and the bits of a rounded result: `Slip` stands
  for the error of one step in the bound `(3k + 1) * 2^-24 * sum |x * w|` of a projection.
  A graph on WGPU is not modelled apart: end to end it promises no equality with the CPU
  once it has a projection.
* What a campaign loaded when its payload was exchanged between the verification of its
  digest and its loading. `WeightEvidence.ReplaceFile` allows the exchange; that the
  artifact is of the exact payload is claimed of undisturbed campaigns only.
* The release of call-owned upload buffers after a failed synchronize, and drop-time
  errors of the pool, which the code declares best effort.
* Session batches (a loop over independent sessions), the foreign function tables, context
  and module wrappers, the tokenizer library, argument syntax and the benchmarks' timing.

`PROJECT.json` gives the reason for each component.

## 6. Plan

1. `InBounds` for the elementwise sections, once the recursive operators of `HostRows`
   and `HostSession` are functions.
2. The asynchronous kernel calls whose caller synchronizes, over the ownership records of
   `KvCache`.
