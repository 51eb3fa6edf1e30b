----------------------------- MODULE KvCompaction -----------------------------
(***************************************************************************)
(* Physical compaction of the KV cache (nnis-rt kv_compaction.rs): the     *)
(* selected rows of each layer are staged into dense scratch, appended to  *)
(* a fresh cache, and the caches are swapped at the end.  The two planes   *)
(* are treated alike by the code and are one plane here.  A stage and an   *)
(* append each end in a synchronize, so a step stands for its completed    *)
(* copies; what an unfinished one leaves behind is never looked at.        *)
(***************************************************************************)
EXTENDS KvLayout, Sequences

CONSTANT Payloads      \* contents of appended rows

VARIABLES
    plane, lengths,      \* the cache
    rplane, rlengths,    \* the replacement being built
    scratch,             \* staged rows of one layer: [head][retained]
    job                  \* the compaction in progress

vars == <<plane, lengths, rplane, rlengths, scratch, job>>

Junk == <<"junk", 0>>
Contents == {<<p, h>> : p \in Payloads, h \in Heads} \cup {Junk}
FreshPlane == [c \in Cells |-> Junk]
NoLengths  == [l \in Layers |-> 0]
Selections == UNION {[1..n -> 0..(Capacity - 1)] : n \in 0..Capacity}
NoJob == [pc |-> "idle", layer |-> 0, sels |-> [l \in Layers |-> <<>>]]

TypeOK ==
    /\ plane \in [Cells -> Contents] /\ rplane \in [Cells -> Contents]
    /\ lengths \in [Layers -> 0..Capacity] /\ rlengths \in [Layers -> 0..Capacity]
    /\ job \in [pc : {"idle", "stage", "append"}, layer : 0..NumLayers,
               sels : [Layers -> Selections]]
    /\ job.pc = "append" => /\ job.layer \in Layers
                            /\ scratch \in [DOMAIN scratch -> Contents]
                            /\ Len(job.sels[job.layer]) > 0

Init ==
    /\ plane = FreshPlane /\ lengths = NoLengths
    /\ rplane = FreshPlane /\ rlengths = NoLengths
    /\ scratch = <<>>
    /\ job = NoJob

-----------------------------------------------------------------------------
\* Mutant: the capacity check is missing.
AppendTokenUnchecked(l, p) ==
    /\ job.pc = "idle"
    /\ plane' = [c \in Cells |->
          IF \E h \in Heads : c = CellOf(l, h, lengths[l])
          THEN <<p, CHOOSE h \in Heads : c = CellOf(l, h, lengths[l])>>
          ELSE plane[c]]
    /\ lengths' = [lengths EXCEPT ![l] = @ + 1]
    /\ UNCHANGED <<rplane, rlengths, scratch, job>>

\* append_layer of one token with payload p (KvCache has it step by step).
AppendToken(l, p) ==
    /\ job.pc = "idle"
    /\ lengths[l] < Capacity
    /\ plane' = [c \in Cells |->
          IF \E h \in Heads : c = CellOf(l, h, lengths[l])
          THEN <<p, CHOOSE h \in Heads : c = CellOf(l, h, lengths[l])>>
          ELSE plane[c]]
    /\ lengths' = [lengths EXCEPT ![l] = @ + 1]
    /\ UNCHANGED <<rplane, rlengths, scratch, job>>

\* KvCache::truncate.
Truncate(n) ==
    /\ job.pc = "idle"
    /\ \A l \in Layers : lengths[l] >= n
    /\ lengths' = [l \in Layers |-> n]
    /\ UNCHANGED <<plane, rplane, rlengths, scratch, job>>

\* validate_retained_positions.
Valid(active, sel) ==
    /\ \A i \in DOMAIN sel : sel[i] < active
    /\ \A i \in DOMAIN sel : i > 1 => sel[i - 1] < sel[i]

\* The selection 0..active-1.
Identity(active) == [i \in 1..active |-> i - 1]

\* rebuild_and_swap starts: a fresh cache, layer 0 next.
Rebuild(sels) ==
    /\ job' = [pc |-> "stage", layer |-> 0, sels |-> sels]
    /\ rplane' = FreshPlane /\ rlengths' = NoLengths
    /\ scratch' = <<>>
    /\ UNCHANGED <<plane, lengths>>

\* compact_kv_cache, past its checks; the identity only synchronizes.
CompactAll(sel) ==
    /\ job.pc = "idle"
    /\ \A l \in Layers : lengths[l] = lengths[0]
    /\ Valid(lengths[0], sel)
    /\ sel # Identity(lengths[0])
    /\ \/ sel = <<>> /\ lengths' = NoLengths
          /\ UNCHANGED <<plane, rplane, rlengths, scratch, job>>
       \/ sel # <<>> /\ Rebuild([l \in Layers |-> sel])

\* compact_kv_cache_layer: the other layers keep all their rows.
CompactLayer(layer, sel) ==
    /\ job.pc = "idle"
    /\ Valid(lengths[layer], sel)
    /\ sel # Identity(lengths[layer])
    /\ \/ sel = <<>> /\ lengths' = [lengths EXCEPT ![layer] = 0]
          /\ UNCHANGED <<plane, rplane, rlengths, scratch, job>>
       \/ sel # <<>> /\ Rebuild([l \in Layers |-> IF l = layer THEN sel
                                                  ELSE Identity(lengths[l])])

\* A layer with nothing to keep is passed over.
SkipLayer ==
    /\ job.pc = "stage" /\ job.layer < NumLayers
    /\ job.sels[job.layer] = <<>>
    /\ job' = [job EXCEPT !.layer = @ + 1]
    /\ UNCHANGED <<plane, lengths, rplane, rlengths, scratch>>

\* Mutant: the plan indexes the source by destination position.
StagedFromPrefix(layer, sel) ==
    [d \in 0..(NumHeads * Len(sel) - 1) |->
        plane[CellOf(layer, d \div Len(sel), d % Len(sel))]]

\* The copies of stage_selected_rows: scratch element head * retained + i is
\* the cell of the i-th retained position of that head.
Staged(layer, sel) ==
    [d \in 0..(NumHeads * Len(sel) - 1) |->
        plane[CellOf(layer, d \div Len(sel), sel[(d % Len(sel)) + 1])]]

\* stage_selected_rows of the next layer, ending in its synchronize.
Stage ==
    /\ job.pc = "stage" /\ job.layer < NumLayers
    /\ job.sels[job.layer] # <<>>
    /\ scratch' = Staged(job.layer, job.sels[job.layer])
    /\ job' = [job EXCEPT !.pc = "append"]
    /\ UNCHANGED <<plane, lengths, rplane, rlengths>>

\* Mutant: the finished layer's rows go straight into the live cache.
AppendInPlace ==
    /\ job.pc = "append"
    /\ LET l == job.layer
           n == Len(job.sels[l])
       IN /\ plane' = [c \in Cells |->
               IF \E h \in Heads : c \in CellOf(l, h, 0)..(CellOf(l, h, n - 1))
               THEN LET h == CHOOSE h \in Heads : c \in CellOf(l, h, 0)..CellOf(l, h, n - 1)
                    IN  scratch[h * n + (c - CellOf(l, h, 0))]
               ELSE plane[c]]
          /\ lengths' = [lengths EXCEPT ![l] = n]
          /\ rlengths' = [rlengths EXCEPT ![l] = n]
    /\ rplane' = plane'
    /\ job' = [job EXCEPT !.pc = "stage", !.layer = @ + 1]
    /\ UNCHANGED scratch

\* replacement.append_layer: head h of the scratch, n rows from h * n on, goes
\* to the head's rows from rlengths on.
AppendScratch ==
    /\ job.pc = "append"
    /\ LET l == job.layer
           n == Len(job.sels[l])
           at == rlengths[l]
           To(h) == CellOf(l, h, at)..CellOf(l, h, at + n - 1)
       IN /\ at + n <= Capacity
          /\ rplane' = [c \in Cells |->
               IF \E h \in Heads : c \in To(h)
               THEN LET h == CHOOSE h \in Heads : c \in To(h)
                    IN  scratch[h * n + (c - CellOf(l, h, at))]
               ELSE rplane[c]]
          /\ rlengths' = [rlengths EXCEPT ![l] = at + n]
    /\ job' = [job EXCEPT !.pc = "stage", !.layer = @ + 1]
    /\ UNCHANGED <<plane, lengths, scratch>>

\* The last synchronize succeeded: mem::swap, and the old cache is dropped.
Swap ==
    /\ job.pc = "stage" /\ job.layer = NumLayers
    /\ plane' = rplane /\ lengths' = rlengths
    /\ rplane' = FreshPlane /\ rlengths' = NoLengths
    /\ scratch' = <<>>
    /\ job' = NoJob

\* An allocation, a copy, an append or a synchronize fails: the error returns,
\* scratch and replacement are dropped (or leaked).
Fail ==
    /\ job.pc # "idle"
    /\ rplane' = FreshPlane /\ rlengths' = NoLengths
    /\ scratch' = <<>>
    /\ job' = NoJob
    /\ UNCHANGED <<plane, lengths>>

Next ==
    \/ \E l \in Layers, p \in Payloads : AppendToken(l, p)
    \/ \E n \in 0..Capacity : Truncate(n)
    \/ \E sel \in Selections : CompactAll(sel)
    \/ \E l \in Layers, sel \in Selections : CompactLayer(l, sel)
    \/ SkipLayer \/ Stage \/ AppendScratch \/ Swap \/ Fail

Spec == Init /\ [][Next]_vars

-----------------------------------------------------------------------------
\* The rows a reader of the cache finds: position i of every head of layer l.
ReadRows == [l \in Layers |-> [i \in 1..lengths[l] |->
                [h \in Heads |-> plane[CellOf(l, h, i - 1)]]]]

Abstract == INSTANCE KvRows WITH
    Rows  <- {[h \in Heads |-> <<p, h>>] : p \in Payloads},
    rows  <- ReadRows,
    asked <- IF job.pc = "idle" THEN <<>> ELSE job.sels

\* kv_compaction.rs:20-24 and 67-76: a reader sees a compaction happen in one
\* step for all layers or, whatever fails along the way, not at all; what it
\* leaves are the rows the caller asked for, in their order and with their
\* content in every head, and all rows of the layers it was not asked about.
ImplementsKvRows == Abstract!Spec

-----------------------------------------------------------------------------
\* What a compaction in progress has reached, the inductive invariant behind
\* the refinement.

\* The selections are still good for the cache: its lengths have not moved.
SelectionsValid == \A l \in Layers : Valid(lengths[l], job.sels[l])

\* The layers done hold the selected rows, the others nothing yet.
LayersReplaced ==
    \A l \in Layers :
        IF l < job.layer
        THEN /\ rlengths[l] = Len(job.sels[l])
             /\ \A h \in Heads, i \in 1..Len(job.sels[l]) :
                  rplane[CellOf(l, h, i - 1)] = plane[CellOf(l, h, job.sels[l][i])]
        ELSE rlengths[l] = 0

ScratchStaged ==
    job.pc = "append" => scratch = Staged(job.layer, job.sels[job.layer])

IInv ==
    /\ TypeOK
    /\ job.pc # "idle" => SelectionsValid /\ LayersReplaced /\ ScratchStaged
=============================================================================
