----------------------------- MODULE WeightStorage -----------------------------
(***************************************************************************)
(* Loaded F32 weights become a compact representation, one allocation per  *)
(* source buffer however many weights share it, and from it the dense      *)
(* model that executes (int4_reference.rs, int2_model_storage.rs,          *)
(* sparse_model_storage.rs); or the F16 weights of the reference runtime,  *)
(* one buffer per name (f16_reference_runtime.rs); or their head becomes   *)
(* BF16 (representation_plan.rs).  Nobody else touches the weights         *)
(* meanwhile; a device operation that fails ends the call, and what it had *)
(* allocated is dropped with it.                                           *)
(***************************************************************************)
EXTENDS CheckpointLoader

CONSTANT Thresholds     \* of the sparse representation

VARIABLES
  family,    \* "none", or the representation being built
  cut,       \* threshold, of the sparse one
  stage,     \* "idle", "converting", "materializing", "narrowing", "ready", "failed"
  at,        \* weights visited, or compact allocations made dense
  compact,   \* allocations: [source, payload, rows of the summary]
  binding,   \* weight -> index of its compact allocation
  dense,     \* dense buffers, one per compact allocation
  resident,  \* whether the source weights are still owned
  most,      \* most bytes of weights owned at once
  hostMost,  \* peak_host_temporary_payload_bytes
  evidence,  \* DenseWeightMaterializationEvidenceV2, that of the F16 weights, or NoEvidence
  tracker,   \* F16WeightMaterializationTracker
  transient  \* the K-major copy of the projection at hand, or <<>>

storageVars ==
  <<family, cut, stage, at, compact, binding, dense, resident, most, hostMost, evidence, tracker, transient>>
f16Vars == <<tracker, transient>>

Families == {"int4", "int2", "sparse"}
F16Layouts == {"f16_kn", "f16_nk"}  \* the fused candidates store as "f16_nk" does
NoEvidence == [values |-> 0]

\* --- One tensor of each family ---------------------------------------------------
\* What its allocation holds, and the bytes of its two device buffers.
Int4Convert(vals) ==
  LET q == Int4Quantize(vals)
  IN [payload |-> q, bytes |-> <<Len(q.bytes), 4>>, serialized |-> PackedSerialized(q)]
Int2Convert(vals) ==
  LET q == Int2Quantize(vals)
  IN [payload |-> q, bytes |-> <<Len(q.bytes), 4>>, serialized |-> PackedSerialized(q)]
SparseConvert(vals, threshold) ==
  LET s == Sparsify(vals, threshold)
  IN [payload |-> s, bytes |-> <<Len(s.bytes), 4 * Len(s.kept)>>, serialized |-> SparseSerialized(s)]
Converted(vals) ==
  CASE family = "int4" -> Int4Convert(vals)
    [] family = "int2" -> Int2Convert(vals)
    [] OTHER -> SparseConvert(vals, cut)
\* What goes back to the host and out again; a payload that fails its checks is
\* an error.
Int4Restore(p) == [valid |-> Int4Valid(p), values |-> Int4Dequantize(p)]
Int2Restore(p) == [valid |-> Int2Valid(p), values |-> Int2Dequantize(p)]
SparseRestore(p) == [valid |-> SparseValid(p), values |-> Densify(p)]
Restored(p) ==
  CASE family = "int4" -> Int4Restore(p)
    [] family = "int2" -> Int2Restore(p)
    [] OTHER -> SparseRestore(p)
\* Steps of a source unit a dequantized weight counts in.
Levels == IF family = "int4" THEN 7 ELSE 1

\* --- Accounting ---------------------------------------------------------------------
ByteSum(f(_), S) == MapThenSumSet(f, S)
\* summarize_weight_allocations: references, and each owned buffer once.
Summary(w) ==
  [references |-> Cardinality(DOMAIN w.owner),
   elements |-> ByteSum(LAMBDA n : Len(w.buffer[w.owner[n]].words), DOMAIN w.owner),
   buffers |-> Cardinality(DOMAIN w.buffer),
   values |-> ByteSum(LAMBDA b : Len(w.buffer[b].words), DOMAIN w.buffer),
   bytes |-> ByteSum(LAMBDA b : (IF w.buffer[b].dtype = "F32" THEN 4 ELSE 2) * Len(w.buffer[b].words),
                     DOMAIN w.buffer)]
CompactBytes(c) == ByteSum(LAMBDA i : c[i].row.bytes[1] + c[i].row.bytes[2], DOMAIN c)
ValueBytes == IF family \in Families THEN 4 ELSE 2
DenseBytes(d) == ByteSum(LAMBDA i : ValueBytes * Len(d[i]), DOMAIN d)
Owned(src, c, d) == (IF src THEN Summary(weights).bytes ELSE 0) + CompactBytes(c) + DenseBytes(d)
\* What the conversion counted itself.
Tally(c, b) ==
  [references |-> Cardinality(DOMAIN b),
   elements |-> ByteSum(LAMBDA n : c[b[n]].row.values, DOMAIN b),
   buffers |-> Len(c),
   values |-> ByteSum(LAMBDA i : c[i].row.values, DOMAIN c),
   bytes |-> ByteSum(LAMBDA i : 4 * c[i].row.values, DOMAIN c)]

\* --- Conversion ---------------------------------------------------------------------
Order == NameSeq(execution)
StorageEnds ==
  /\ stage' = "failed" /\ compact' = <<>> /\ binding' = <<>> /\ dense' = <<>> /\ resident' = FALSE
  /\ UNCHANGED <<family, cut, at, most, hostMost, evidence>>
\* from_f32_model_weights of the materialized models, which own the source.
BeginConvert(f, t) ==
  /\ stage = "idle" /\ loading = "loaded"
  /\ family' = f /\ cut' = t
  /\ IF execution.dtype = "F32"
     THEN /\ stage' = "converting" /\ at' = 0 /\ most' = Owned(TRUE, <<>>, <<>>)
          /\ resident' = TRUE /\ UNCHANGED <<compact, binding, dense, hostMost, evidence>>
     ELSE /\ stage' = "failed" /\ UNCHANGED <<at, most, resident, compact, binding, dense, hostMost, evidence>>
\* source_indices, keyed by the device pointer.
Known(n) == {i \in DOMAIN compact : compact[i].source = weights.owner[n]}
\* for_each_logical_tensor, one weight.
ConvertTensor ==
  /\ stage = "converting" /\ at < Len(Order)
  /\ LET n == Order[at + 1]
         vals == weights.buffer[weights.owner[n]].words
         row == Converted(vals)
     IN IF Known(n) # {}
        THEN /\ binding' = binding @@ (n :> CHOOSE i \in Known(n) : TRUE)
             /\ UNCHANGED <<compact, most>>
        ELSE /\ Finite(vals)
             /\ compact' = Append(compact,
                  [source |-> weights.owner[n], payload |-> row.payload,
                   row |-> [values |-> Len(vals), bytes |-> row.bytes, serialized |-> row.serialized]])
             /\ binding' = binding @@ (n :> Len(compact) + 1)
             /\ most' = Max({most, Owned(TRUE, compact', <<>>)})
  /\ at' = at + 1
  /\ UNCHANGED <<family, cut, stage, dense, resident, hostMost, evidence>>
\* A weight that is not finite, or a device operation that fails.
ConvertEnds == stage = "converting" /\ StorageEnds
\* The tallies reconcile with the allocation summary of the source.
ConvertDone ==
  /\ stage = "converting" /\ at = Len(Order)
  /\ Tally(compact, binding) = Summary(weights)
  /\ stage' = "materializing" /\ at' = 0
  /\ UNCHANGED <<family, cut, compact, binding, dense, resident, most, hostMost, evidence>>

\* --- Dense materialization ------------------------------------------------------------
\* validate_resident_allocations; its INT2 and sparse copies ask the same.
Intact(c, b) ==
  /\ \A i \in DOMAIN c : c[i].row.bytes[1] = Len(c[i].payload.bytes)
  /\ Range(b) \subseteq DOMAIN c /\ DOMAIN b = DOMAIN weights.owner
\* materialize_dense_f32_weights, one allocation: packed bytes, scale or retained
\* values and the dense values are on the host together.
MaterializeTensor ==
  /\ stage = "materializing" /\ at < Len(compact) /\ Intact(compact, binding)
  /\ LET a == compact[at + 1]
         back == Restored(a.payload)
     IN /\ back.valid
        /\ dense' = Append(dense, back.values)
        /\ hostMost' = Max({hostMost, a.row.bytes[1] + a.row.bytes[2] + 4 * Len(back.values)})
  /\ most' = Max({most, Owned(TRUE, compact, dense')})
  /\ at' = at + 1
  /\ UNCHANGED <<family, cut, stage, compact, binding, resident, evidence>>
MaterializeEnds == stage = "materializing" /\ StorageEnds

\* DenseWeightMaterializationEvidenceV1::new.
EvidenceOf(values, source, kept, executed, temporary, host) ==
  [values |-> values, source |-> source, kept |-> kept, executed |-> executed,
   final |-> kept + executed, peak |-> source + kept + executed + temporary, host |-> host]
\* ...::validate.
EvidenceValid(e) ==
  /\ e.values > 0 /\ e.source = 4 * e.values /\ e.executed = 4 * e.values /\ e.kept > 0
  /\ e.final = e.kept + e.executed /\ e.peak = e.source + e.final
\* Mutant: the peak is the final residency.
EvidenceWithoutSource(e) == [e EXCEPT !.peak = e.final]
Evidence(e) == e
\* ModelWeights::from_named_logical_tensors rebuilds the graph over the dense
\* buffers, the denominators reconcile, the model is built (or is not:
\* MaterializeEnds); the source weights are dropped on return.
MaterializeDone ==
  /\ stage = "materializing" /\ at = Len(compact)
  /\ Summary(weights).values = ByteSum(LAMBDA i : Len(dense[i]), DOMAIN dense)
  /\ evidence' = Evidence(EvidenceOf(Summary(weights).values, Summary(weights).bytes, CompactBytes(compact),
                                     DenseBytes(dense), 0, hostMost))
  /\ stage' = "ready" /\ resident' = FALSE
  /\ UNCHANGED <<family, cut, at, compact, binding, dense, most, hostMost>>

\* --- Execution ---------------------------------------------------------------------------
\* execute_projection: the plan, the binding and its shape must agree.
Int4Projects(p, n) ==
  PlanValid(p) /\ Intact(compact, binding) /\ n \in DOMAIN binding
  /\ Shape(execution, n) = <<p.rows, p.cols>>
Int2Projects(p, n) == Int2PlanValid(p) /\ Int4Projects(p, n)
\* Mutant: the packed kernel walks a column-major payload.
LevelAtColumnMajor(p, k, c, rows, cols) ==
  IF family = "int4" THEN Int4Level(p, (c * rows) + k) ELSE Int2Level(p, (c * rows) + k)
\* The packed kernels (int4_weight_gemv.rs, int2_weight_gemv.rs): the level a
\* lane multiplies input k with for output c.
LevelAt(p, k, c, rows, cols) ==
  IF family = "int4" THEN Int4Level(p, (k * cols) + c) ELSE Int2Level(p, (k * cols) + c)
PackedWeight(n, k, c) ==
  LET p == compact[binding[n]].payload
      shape == Shape(execution, n)
  IN LevelAt(p, k, c, shape[1], shape[2]) * p.peak

\* The totals of a storage summary, from what the allocations hold; the evidence
\* must reconcile with them.
PackedTotals(c) ==
  [values |-> ByteSum(LAMBDA i : c[i].payload.count, DOMAIN c),
   resident |-> ByteSum(LAMBDA i : Len(c[i].payload.bytes) + 4, DOMAIN c),
   serialized |-> ByteSum(LAMBDA i : PackedSerialized(c[i].payload), DOMAIN c)]
Int4Totals(c) == PackedTotals(c)
Int2Totals(c) == PackedTotals(c)
SparseTotals(c) ==
  [values |-> ByteSum(LAMBDA i : c[i].payload.count, DOMAIN c),
   resident |-> ByteSum(LAMBDA i : Len(c[i].payload.bytes) + 4 * Len(c[i].payload.kept), DOMAIN c),
   serialized |-> ByteSum(LAMBDA i : SparseSerialized(c[i].payload), DOMAIN c)]
Totals(c) ==
  CASE family = "int4" -> Int4Totals(c)
    [] family = "int2" -> Int2Totals(c)
    [] OTHER -> SparseTotals(c)
Reconciles(e) ==
  /\ EvidenceValid(e) /\ e.values = Totals(compact).values /\ e.source = Tally(compact, binding).bytes
  /\ e.kept = Totals(compact).resident
  /\ Totals(compact).serialized = ByteSum(LAMBDA i : compact[i].row.serialized, DOMAIN compact)

\* --- F16 reference weights ------------------------------------------------------------
\* record: the totals of one more event, and their peaks.
Recorded(t, kind, bytes) ==
  [t EXCEPT !.peakLive = Max({@, t.live}), !.peakTemporary = Max({@, t.temporary}),
            !.peak = Max({@, t.source + t.live}), !.events = Append(@, <<kind, bytes, t.live>>)]
Started(source) ==
  [source |-> source, live |-> 0, temporary |-> 0, peakLive |-> 0, peakTemporary |-> 0, peak |-> source,
   events |-> <<>>]
AllocatedResident(t, bytes) == Recorded([t EXCEPT !.live = @ + bytes], "resident", bytes)
AllocatedTemporary(t, bytes) ==
  Recorded([t EXCEPT !.live = @ + bytes, !.temporary = @ + bytes], "temporary", bytes)
\* Mutant: a release is booked on the temporary bytes only.
ReleasedTemporaryOnly(t, bytes) == Recorded([t EXCEPT !.temporary = @ - bytes], "release", bytes)
Released(t, bytes) ==
  Recorded([t EXCEPT !.live = @ - bytes, !.temporary = @ - bytes], "release", bytes)

\* new_with_execution_and_attention_plan_impl, which owns the source.
BeginNarrow(layout) ==
  /\ stage = "idle" /\ loading = "loaded"
  /\ family' = layout
  /\ IF execution.dtype = "F32"
     THEN /\ stage' = "narrowing" /\ resident' = TRUE /\ most' = Summary(weights).bytes
          /\ tracker' = Started(Summary(weights).bytes)
     ELSE stage' = "failed" /\ UNCHANGED <<resident, most, tracker>>
  /\ UNCHANGED <<cut, at, compact, binding, dense, hostMost, evidence, transient>>
AtHand == Order[at + 1]
SourceOf(n) == weights.buffer[weights.owner[n]].words
F16Bytes(words) == 2 * Len(words)
Narrowing == stage = "narrowing" /\ at < Len(Order)
Turned(n) == family = "f16_nk" /\ Transposed(n)
Holds(words, extra) ==
  /\ dense' = Append(dense, words) /\ binding' = binding @@ (AtHand :> Len(dense) + 1)
  /\ most' = Max({most, Owned(TRUE, <<>>, dense') + extra})
\* narrow_resident.  The numbers of this model are exact in F16.
NarrowResident ==
  /\ Narrowing /\ ~Turned(AtHand)
  /\ Holds(SourceOf(AtHand), 0)
  /\ tracker' = AllocatedResident(tracker, F16Bytes(SourceOf(AtHand)))
  /\ at' = at + 1
  /\ UNCHANGED <<family, cut, stage, compact, resident, hostMost, evidence, transient>>
\* narrow_projection: a K-major copy, the transposed weight, the copy dropped.
NarrowTemporary ==
  /\ Narrowing /\ Turned(AtHand) /\ transient = <<>>
  /\ transient' = SourceOf(AtHand)
  /\ tracker' = AllocatedTemporary(tracker, F16Bytes(transient'))
  /\ most' = Max({most, Owned(TRUE, <<>>, dense) + F16Bytes(transient')})
  /\ UNCHANGED <<family, cut, stage, at, compact, binding, dense, resident, hostMost, evidence>>
TransposeResident ==
  /\ Narrowing /\ transient # <<>> /\ Len(dense) = at
  /\ LET shape == Shape(execution, AtHand) IN
     Holds(Transpose(transient, shape[1], shape[2]), F16Bytes(transient))
  /\ tracker' = AllocatedResident(tracker, F16Bytes(transient))
  /\ UNCHANGED <<family, cut, stage, at, compact, resident, hostMost, evidence, transient>>
ReleaseTemporary ==
  /\ Narrowing /\ transient # <<>> /\ Len(dense) > at
  /\ tracker.temporary >= F16Bytes(transient) /\ tracker.live >= F16Bytes(transient)
  /\ tracker' = Released(tracker, F16Bytes(transient))
  /\ transient' = <<>> /\ at' = at + 1
  /\ UNCHANGED <<family, cut, stage, compact, binding, dense, resident, most, hostMost, evidence>>
\* failure_evidence, and finish with its checks; the source outlives both.
FailureEvidence(t) == [values |-> 0, peak |-> t.peak, final |-> t.source + t.live, temporary |-> t.temporary]
Finishes(t) == t.temporary = 0 /\ t.live = DenseBytes(dense) /\ t.peak >= t.source + t.live
\* A step fails, perhaps once it has recorded a buffer of b bytes; what is at
\* hand, and then the source, are dropped.
NarrowFails ==
  /\ stage = "narrowing"
  /\ \E b \in {0} \cup (IF Narrowing /\ Len(dense) = at THEN {F16Bytes(SourceOf(AtHand))} ELSE {}) :
       /\ tracker' = IF b = 0 THEN tracker
                     ELSE IF Turned(AtHand) /\ transient = <<>> THEN AllocatedTemporary(tracker, b)
                     ELSE AllocatedResident(tracker, b)
       /\ most' = Max({most, Owned(TRUE, <<>>, dense) + F16Bytes(transient) + b})
  /\ evidence' = FailureEvidence(tracker')
  /\ stage' = "failed" /\ dense' = <<>> /\ binding' = <<>> /\ transient' = <<>> /\ resident' = FALSE
  /\ UNCHANGED <<family, cut, at, compact, hostMost>>
NarrowDone ==
  /\ stage = "narrowing" /\ at = Len(Order) /\ Finishes(tracker)
  /\ evidence' = [values |-> Summary(weights).values, peak |-> tracker.peak,
                   final |-> tracker.source + tracker.live, temporary |-> tracker.peakTemporary]
  /\ stage' = "ready" /\ resident' = FALSE
  /\ UNCHANGED <<family, cut, at, compact, binding, dense, most, hostMost, tracker, transient>>

\* --- BF16 head ---------------------------------------------------------------------------
\* validate_weights asks for every weight's shape and type anew.
PlanAccepts ==
  \A n \in Names(execution) \ {Head0} :
    /\ weights.buffer[weights.owner[n]].dtype = "F32"
    /\ Len(SourceOf(n)) = Elements(Shape(execution, n))
\* An F32 word whose low half is zero.
ExactlyBf16(word) == word = NonFinite \/ word % Fine = 0
HighHalf(word) == IF word = NonFinite THEN word ELSE word \div Fine
\* load_model_directory_with_representation_plan, once the directory is loaded:
\* a head that does not fit exactly is refused.
PackHead ==
  /\ stage = "idle" /\ loading = "loaded" /\ dir.kind = "manifest"
  /\ family' = "bf16_head"
  /\ IF /\ execution.dtype = "F32" /\ PlanAccepts
        /\ \A i \in DOMAIN SourceOf(Head0) : ExactlyBf16(SourceOf(Head0)[i])
     THEN /\ stage' = "ready"
          /\ dense' = << [i \in DOMAIN SourceOf(Head0) |-> HighHalf(SourceOf(Head0)[i])] >>
          /\ binding' = (Head0 :> 1)
     ELSE stage' = "failed" /\ UNCHANGED <<dense, binding>>
  /\ UNCHANGED <<cut, at, compact, resident, most, hostMost, evidence, f16Vars>>

StorageInit ==
  /\ family = "none" /\ cut = 0 /\ stage = "idle" /\ at = 0 /\ compact = <<>> /\ binding = <<>>
  /\ dense = <<>> /\ resident = FALSE /\ most = 0 /\ hostMost = 0 /\ evidence = NoEvidence
  /\ tracker = Started(0) /\ transient = <<>>
StorageNext ==
  \/ /\ \/ \E f \in Families : \E t \in IF f = "sparse" THEN Thresholds ELSE {0} : BeginConvert(f, t)
        \/ ConvertTensor \/ ConvertEnds \/ ConvertDone
        \/ MaterializeTensor \/ MaterializeEnds \/ MaterializeDone
     /\ UNCHANGED f16Vars
  \/ \E layout \in F16Layouts : BeginNarrow(layout)
  \/ NarrowResident \/ NarrowTemporary \/ TransposeResident \/ ReleaseTemporary \/ NarrowFails \/ NarrowDone
  \/ PackHead

WeightsInit == CheckpointInit /\ StorageInit
WeightsNext ==
  \/ CheckpointNext /\ UNCHANGED storageVars
  \/ StorageNext /\ UNCHANGED checkpointVars
WeightsSpec == WeightsInit /\ [][WeightsNext]_<<checkpointVars, storageVars>>

-----------------------------------------------------------------------------
\* The dense model's value of element i, from 1, of a weight.
DenseAt(n, i) == dense[binding[n]][i]
\* What a source value may become: the nearest level, the outer one of two.
Nearest(v, peak, top) ==
  LET off(l) == Abs((v * top) - (l * peak))
      best == {l \in -top..top : \A m \in -top..top : off(l) <= off(m)}
  IN CHOOSE l \in best : \A m \in best : Abs(m) <= Abs(l)
\* The model that executes holds, under every name and alias, each source weight
\* rounded to its nearest representable level (or zero up to the threshold), and
\* weights share a dense buffer exactly if they shared the source's.
NearestLevels ==
  stage = "ready" /\ family \in Families =>
    /\ \A n \in DOMAIN weights.owner :
         LET vals == weights.buffer[weights.owner[n]].words
             peak == Largest(vals)
             zero(v) == Abs(v) <= cut
         IN \A i \in DOMAIN vals :
              DenseAt(n, i) =
                CASE family = "int4" -> IF peak = 0 THEN 0 ELSE Nearest(vals[i], peak, 7) * peak
                  [] family = "int2" -> IF peak = 0 THEN 0 ELSE Nearest(vals[i], peak, 1) * peak
                  [] OTHER -> IF zero(vals[i]) THEN 0 ELSE vals[i]
    /\ \A m, n \in DOMAIN weights.owner :
         binding[m] = binding[n] <=> weights.owner[m] = weights.owner[n]

\* execute_projection (int4_reference.rs:916-965, int2_model_storage.rs:586-635)
\* and sparse_csc_gemv.rs: every projection multiplies with the weights of the
\* dense model, whichever compact form it reads them from.
CompactProjects ==
  stage = "ready" /\ family \in Families =>
    \A n \in {m \in DOMAIN binding : Len(Shape(execution, m)) = 2} :
      LET shape == Shape(execution, n)
          plan == [current |-> TRUE, named |-> TRUE, rows |-> shape[1], cols |-> shape[2], densifies |-> FALSE]
          vals == weights.buffer[weights.owner[n]].words
          csc == CscOf(vals, shape[1], shape[2], cut)
      IN IF family = "sparse"
         THEN CscPlanValid(plan) /\ CscValid(csc) /\ CscDensify(csc) = dense[binding[n]]
         ELSE /\ IF family = "int4" THEN Int4Projects(plan, n) ELSE Int2Projects(plan, n)
              /\ \A k \in 0..shape[1] - 1, c \in 0..shape[2] - 1 :
                   PackedWeight(n, k, c) = DenseAt(n, (k * shape[2]) + c + 1)
\* f16_reference_runtime.rs:218-265: a projection reads, in either layout, the
\* source's matrix, and every name has a buffer of its own.
F16IsSource ==
  stage = "ready" /\ family \in F16Layouts =>
    /\ \A m, n \in Names(execution) : m # n => binding[m] # binding[n]
    /\ \A n \in Names(execution) :
         LET shape == Shape(execution, n)
             element(i) == IF Turned(n) THEN (((i - 1) % shape[2]) * shape[1]) + ((i - 1) \div shape[2]) + 1 ELSE i
         IN \A i \in DOMAIN SourceOf(n) : DenseAt(n, element(i)) = SourceOf(n)[i]
\* representation_plan.rs:204-216: the BF16 head widens back to the F32 head.
HeadIsSource ==
  stage = "ready" /\ family = "bf16_head" =>
    \A i \in DOMAIN SourceOf(Head0) : Widen(DenseAt(Head0, i)) = SourceOf(Head0)[i]

\* int4_reference.rs:4-13, int2_reference.rs:1-9, sparse_model_storage.rs:1-8: the
\* model that executes holds each source weight rounded to its nearest level, and
\* both it and the projections of the compact form compute with that one weight.
DenseIsNearest == NearestLevels /\ CompactProjects /\ F16IsSource /\ HeadIsSource

\* dense_weight_materialization.rs:15-18 and 77-86, f16_materialization_memory.rs:28-35:
\* the evidence states the most bytes of weights that were owned at once, and
\* those owned at the end; of a failed materialization to F16 too.
LedgerIsEvidence ==
  /\ stage = "ready" /\ family \in Families =>
       /\ evidence.peak = most /\ evidence.final = Owned(resident, compact, dense)
       /\ Reconciles(evidence)
  /\ stage = "ready" /\ family \in F16Layouts =>
       evidence.peak = most /\ evidence.final = Owned(TRUE, <<>>, dense)
  /\ stage = "narrowing" => tracker.source + tracker.live = Owned(TRUE, <<>>, dense) + F16Bytes(transient)
  /\ stage = "failed" /\ evidence # NoEvidence => evidence.peak = most
================================================================================
