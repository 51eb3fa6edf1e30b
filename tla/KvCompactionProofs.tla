-------------------------- MODULE KvCompactionProofs ---------------------------
(***************************************************************************)
(* TLAPS proofs about KvCompaction, for every number of layers, heads and  *)
(* positions: its compaction, built layer by layer in a second cache and   *)
(* swapped in at the end, implements the one indivisible step of KvRows.   *)
(***************************************************************************)
EXTENDS KvCompaction, SequenceTheorems, WellFoundedInduction, TLAPS

\* A non-empty set of naturals has a least element.
LEMMA LeastNatural ==
    ASSUME NEW T, T \subseteq Nat, T # {}
    PROVE  \E x \in T : \A y \in T : x <= y
<1> DEFINE R == OpToRel(<, Nat)
<1>1. IsWellFoundedOn(R, Nat)
  BY NatLessThanWellFounded
<1>2. \A x, y \in Nat : y < x => <<y, x>> \in R
  BY DEF OpToRel
<1> HIDE DEF R
<1>3. PICK x \in T : \A y \in T : ~(<<y, x>> \in R)
  BY <1>1, WFMin
<1>4. \A y \in T : ~(y < x)
  BY <1>2, <1>3, Zenon
<1>5. \A y \in T : y \in Nat /\ x \in Nat
  OBVIOUS
<1>6. \A y \in T : x <= y
  BY <1>4, <1>5
<1> QED BY <1>6

\* The shape of a selection.
LEMMA SelectionShape ==
    ASSUME NEW sel \in Selections
    PROVE  /\ Len(sel) \in 0..Capacity /\ DOMAIN sel = 1..Len(sel)
           /\ \A i \in 1..Len(sel) : sel[i] \in 0..(Capacity - 1)
           /\ sel = <<>> <=> Len(sel) = 0
<1>1. PICK n \in 0..Capacity : sel \in [1..n -> 0..(Capacity - 1)]
  BY DEF Selections
<1>2. n \in Nat /\ Len(sel) = n /\ DOMAIN sel = 1..n /\ sel \in Seq(0..(Capacity - 1))
  BY <1>1, KvShapeAssumption
<1>3. sel = <<>> <=> n = 0
  BY <1>2, EmptySeq
<1> QED BY <1>1, <1>2, <1>3

\* Comparing neighbours, as validate_retained_positions does, is comparing all.
LEMMA ValidIncreasing ==
    ASSUME NEW n, NEW sel \in Selections, Valid(n, sel)
    PROVE  \A i, j \in DOMAIN sel : i < j => sel[i] < sel[j]
<1> SUFFICES ASSUME NEW i \in DOMAIN sel, NEW k \in DOMAIN sel, i < k, ~(sel[i] < sel[k])
             PROVE  FALSE
  OBVIOUS
<1> DEFINE T == {j \in DOMAIN sel : i < j /\ ~(sel[i] < sel[j])}
<1>1. /\ DOMAIN sel = 1..Len(sel) /\ Len(sel) \in Nat
      /\ \A j \in DOMAIN sel : sel[j] \in Nat
  BY SelectionShape, KvShapeAssumption
<1>2. PICK j \in T : \A m \in T : j <= m
  <2>1. T \subseteq Nat /\ T # {}
    BY <1>1
  <2> HIDE DEF T
  <2> QED BY <2>1, LeastNatural
<1>3. j - 1 \in DOMAIN sel /\ j > 1 /\ i <= j - 1
  BY <1>1, <1>2
<1>4. sel[j - 1] < sel[j]
  BY <1>2, <1>3 DEF Valid
<1>5. CASE i = j - 1
  BY <1>2, <1>4, <1>5
<1>6. CASE i # j - 1
  <2>1. sel[i] < sel[j - 1]
    <3>1. j - 1 \notin T
      BY <1>1, <1>2
    <3> QED BY <3>1, <1>1, <1>3, <1>6
  <2> QED BY <2>1, <1>1, <1>2, <1>3, <1>4
<1> QED BY <1>5, <1>6

\* Valid means to the cache what Selection means to the reader.
LEMMA ValidIsSelection ==
    ASSUME NEW n, NEW sel \in Selections, Valid(n, sel)
    PROVE  Abstract!Selection(n, sel)
  BY ValidIncreasing DEF Valid, Abstract!Selection

\* Division with remainder.
LEMMA DivMod ==
    ASSUME NEW n \in Nat \ {0}, NEW y \in Nat
    PROVE  y \div n \in Nat /\ y % n \in 0..(n - 1) /\ y = (y \div n) * n + (y % n)
  OBVIOUS

\* The quotient of a cell number by the plane's width stays below the plane's height:
\* a cell of layer l is below the first cell of layer l + 1.
LEMMA QuotientBound ==
    ASSUME NEW n \in Nat \ {0}, NEW b \in Nat, NEW y \in 0..(b * n - 1)
    PROVE  y \div n \in 0..(b - 1)
<1>1. b * n \in Nat
  OBVIOUS
<1>2. y \in Nat /\ y < b * n
  BY <1>1
<1>3. PICK q \in Nat, m \in 0..(n - 1) : q = y \div n /\ y = q * n + m
  BY <1>2, DivMod
<1>4. ASSUME q >= b PROVE FALSE
  <2>1. PICK e \in Nat : q = b + e
    <3>1. q - b \in Nat /\ q = b + (q - b)
      BY <1>4
    <3> QED BY <3>1
  <2>2. q * n = b * n + e * n /\ e * n \in Nat /\ q * n \in Nat
    BY <2>1
  <2> QED BY <2>2, <1>1, <1>2, <1>3
<1> QED BY <1>3, <1>4

\* Where an element of the scratch belongs.
LEMMA ScratchIndex ==
    ASSUME NEW n \in Nat \ {0}, NEW h \in Heads, NEW r \in 0..(n - 1)
    PROVE  /\ h * n + r \in 0..(NumHeads * n - 1)
           /\ (h * n + r) \div n = h /\ (h * n + r) % n = r
<1>1. h \in Nat /\ h + 1 <= NumHeads /\ NumHeads \in Nat
  BY KvShapeAssumption DEF Heads
<1>2. h * n \in Nat /\ h * n + r \in Nat
  BY <1>1
<1>3. h * n + r <= NumHeads * n - 1
  <2>1. PICK d \in Nat : NumHeads = h + 1 + d
    <3>1. NumHeads - h - 1 \in Nat /\ NumHeads = h + 1 + (NumHeads - h - 1)
      BY <1>1
    <3> QED BY <3>1
  <2>2. NumHeads * n = h * n + n + d * n
    BY <2>1, <1>1
  <2>3. d * n \in Nat
    OBVIOUS
  <2> QED BY <2>2, <2>3, <1>2
<1>4. NumHeads * n \in Nat
  BY <1>1
<1> DEFINE x == h * n + r
           q == x \div n
           m == x % n
<1>5. x \in Nat /\ q \in Nat /\ m \in 0..(n - 1) /\ x = q * n + m
  <2>1. \A y \in Nat : y \div n \in Nat /\ y % n \in 0..(n - 1)
                       /\ y = (y \div n) * n + (y % n)
    OBVIOUS
  <2> QED BY <2>1, <1>2
<1>6. q * n + m = h * n + r
  BY <1>5
<1> HIDE DEF x, q, m
<1>7. q = h /\ m = r
  BY <1>1, <1>5, <1>6, DivisionUnique
<1> QED BY <1>2, <1>3, <1>4, <1>7 DEF x, q, m

-----------------------------------------------------------------------------
\* The empty selection and the identity are selections.
LEMMA Trivial ==
    /\ <<>> \in Selections
    /\ \A n \in 0..Capacity : Identity(n) \in Selections /\ Valid(n, Identity(n))
<1>1. <<>> \in Selections
  <2>1. 0 \in 0..Capacity /\ <<>> \in [1..0 -> 0..(Capacity - 1)]
    BY KvShapeAssumption
  <2> QED BY <2>1 DEF Selections
<1>2. ASSUME NEW n \in 0..Capacity
      PROVE  Identity(n) \in Selections /\ Valid(n, Identity(n))
  <2>1. Identity(n) \in [1..n -> 0..(Capacity - 1)]
    BY KvShapeAssumption DEF Identity
  <2>2. Identity(n) \in Selections
    BY <2>1 DEF Selections
  <2>3. DOMAIN Identity(n) = 1..n /\ \A i \in 1..n : Identity(n)[i] = i - 1
    BY DEF Identity
  <2>4. Valid(n, Identity(n))
    BY <2>3, KvShapeAssumption DEF Valid
  <2> QED BY <2>2, <2>4
<1> QED BY <1>1, <1>2

\* What TypeOK says of the caches, the scratch and the job of compact_kv_cache.
LEMMA JobTypes ==
    ASSUME IInv
    PROVE  /\ plane \in [Cells -> Contents] /\ rplane \in [Cells -> Contents]
           /\ lengths \in [Layers -> 0..Capacity] /\ rlengths \in [Layers -> 0..Capacity]
           /\ job \in [pc : {"idle", "stage", "append"}, layer : 0..NumLayers,
                       sels : [Layers -> Selections]]
           /\ Capacity \in Nat \ {0} /\ NumLayers \in Nat \ {0} /\ NumHeads \in Nat \ {0}
           /\ 0 \in Layers
  BY KvShapeAssumption DEF IInv, TypeOK, Layers

\* A fresh replacement cache and the absence of a job have their types.
LEMMA FreshTypes ==
    /\ FreshPlane \in [Cells -> Contents] /\ NoLengths \in [Layers -> 0..Capacity]
    /\ NoJob \in [pc : {"idle", "stage", "append"}, layer : 0..NumLayers,
                  sels : [Layers -> Selections]]
    /\ NoJob.pc = "idle"
  BY KvShapeAssumption, Trivial DEF FreshPlane, NoLengths, NoJob, Contents

\* KvCache::new: an empty cache, no compaction running.
LEMMA InitIInv == Init => IInv
  BY FreshTypes, KvShapeAssumption DEF Init, IInv, TypeOK

\* Steps of an idle cache that start no compaction.
LEMMA IdleIInv ==
    ASSUME IInv, job.pc = "idle", job' = job, rplane' = rplane, rlengths' = rlengths,
           plane' \in [Cells -> Contents], lengths' \in [Layers -> 0..Capacity]
    PROVE  IInv'
  BY JobTypes DEF IInv, TypeOK

\* A compaction starts with valid selections.
LEMMA RebuildIInv ==
    ASSUME IInv, job.pc = "idle", NEW sels \in [Layers -> Selections], Rebuild(sels),
           \A l \in Layers : Valid(lengths[l], sels[l])
    PROVE  IInv'
<1>1. /\ job'.pc = "stage" /\ job'.layer = 0 /\ job'.sels = sels
      /\ UNCHANGED <<plane, lengths>> /\ rplane' = FreshPlane /\ rlengths' = NoLengths
      /\ job' \in [pc : {"idle", "stage", "append"}, layer : 0..NumLayers,
                   sels : [Layers -> Selections]]
  BY KvShapeAssumption DEF Rebuild
<1>2. TypeOK'
  BY <1>1, FreshTypes, JobTypes DEF TypeOK
<1>3. SelectionsValid'
  BY <1>1 DEF SelectionsValid
<1>4. LayersReplaced'
  BY <1>1, KvShapeAssumption DEF LayersReplaced, NoLengths, Layers
<1>5. ScratchStaged'
  BY <1>1 DEF ScratchStaged
<1> QED BY <1>2, <1>3, <1>4, <1>5 DEF IInv

\* AppendToken leaves a plane of contents.
LEMMA AppendTokenIInv ==
    ASSUME IInv, NEW l \in Layers, NEW p \in Payloads, AppendToken(l, p)
    PROVE  IInv'
<1>1. plane' \in [Cells -> Contents]
  <2>1. \A c \in Cells : (\E h \in Heads : c = CellOf(l, h, lengths[l])) =>
           (CHOOSE h \in Heads : c = CellOf(l, h, lengths[l])) \in Heads
    OBVIOUS
  <2>2. \A h \in Heads : <<p, h>> \in Contents
    BY DEF Contents
  <2>3. plane' = [c \in Cells |->
          IF \E h \in Heads : c = CellOf(l, h, lengths[l])
          THEN <<p, CHOOSE h \in Heads : c = CellOf(l, h, lengths[l])>>
          ELSE plane[c]]
    BY DEF AppendToken
  <2> QED BY <2>1, <2>2, <2>3, JobTypes
<1>2. lengths' \in [Layers -> 0..Capacity]
  <2>1. lengths[l] \in 0..Capacity /\ lengths[l] < Capacity
        /\ lengths' = [lengths EXCEPT ![l] = lengths[l] + 1]
    BY JobTypes DEF AppendToken
  <2>2. lengths[l] + 1 \in 0..Capacity
    BY <2>1, JobTypes
  <2> QED BY <2>1, <2>2, JobTypes
<1> QED BY <1>1, <1>2, IdleIInv DEF AppendToken

\* compact_kv_cache: the job carries what the validation accepted.
LEMMA CompactAllIInv ==
    ASSUME IInv, NEW sel \in Selections, CompactAll(sel) PROVE IInv'
<1>1. job.pc = "idle" /\ 0 \in Layers
  BY JobTypes DEF CompactAll
<1>2. CASE sel = <<>>
  BY <1>1, <1>2, IdleIInv, JobTypes, FreshTypes DEF CompactAll, Rebuild
<1>3. CASE sel # <<>>
  <2>1. [l \in Layers |-> sel] \in [Layers -> Selections]
    OBVIOUS
  <2>2. \A l \in Layers : Valid(lengths[l], [m \in Layers |-> sel][l])
    BY DEF CompactAll
  <2>3. Rebuild([l \in Layers |-> sel])
    BY <1>3 DEF CompactAll
  <2> QED BY <1>1, <2>1, <2>2, <2>3, RebuildIInv
<1> QED BY <1>2, <1>3

\* The selections of compact_kv_cache_layer.
OneLayer(k, sel) == [l \in Layers |-> IF l = k THEN sel ELSE Identity(lengths[l])]

\* compact_kv_cache_layer: with one valid selection and the identity elsewhere,
\* every layer has a valid selection.
LEMMA OneLayerValid ==
    ASSUME IInv, NEW k \in Layers, NEW sel \in Selections, Valid(lengths[k], sel)
    PROVE  /\ OneLayer(k, sel) \in [Layers -> Selections]
           /\ \A l \in Layers : Valid(lengths[l], OneLayer(k, sel)[l])
<1>1. \A l \in Layers : lengths[l] \in 0..Capacity
  BY JobTypes
<1>2. \A l \in Layers : /\ Identity(lengths[l]) \in Selections
                        /\ Valid(lengths[l], Identity(lengths[l]))
  BY <1>1, Trivial
<1> QED BY <1>2 DEF OneLayer

\* compact_kv_cache_layer: the layer is cleared, or rebuilt with the other layers kept.
LEMMA CompactLayerIInv ==
    ASSUME IInv, NEW k \in Layers, NEW sel \in Selections, CompactLayer(k, sel) PROVE IInv'
<1>1. job.pc = "idle" /\ Valid(lengths[k], sel)
  BY DEF CompactLayer
<1>2. CASE sel = <<>>
  <2>1. /\ UNCHANGED <<plane, rplane, rlengths, job>>
        /\ lengths' = [lengths EXCEPT ![k] = 0]
    BY <1>2 DEF CompactLayer, Rebuild
  <2> QED BY <1>1, <2>1, IdleIInv, JobTypes
<1>3. CASE sel # <<>>
  <2>1. Rebuild(OneLayer(k, sel))
    BY <1>3 DEF CompactLayer, OneLayer
  <2> QED BY <1>1, <2>1, OneLayerValid, RebuildIInv
<1> QED BY <1>2, <1>3

\* rebuild_and_swap: a layer whose selection is empty is replaced by no row at all.
LEMMA SkipLayerIInv == ASSUME IInv, SkipLayer PROVE IInv'
<1>1. /\ job.pc = "stage" /\ job.layer \in 0..(NumLayers - 1) /\ job.layer \in Layers
      /\ job.sels[job.layer] = <<>>
      /\ job'.pc = "stage" /\ job'.layer = job.layer + 1 /\ job'.sels = job.sels
      /\ job' \in [pc : {"idle", "stage", "append"}, layer : 0..NumLayers,
                   sels : [Layers -> Selections]]
      /\ UNCHANGED <<plane, lengths, rplane, rlengths, scratch>>
  <2>1. /\ job.pc = "stage" /\ job.layer < NumLayers /\ job.sels[job.layer] = <<>>
        /\ job' = [job EXCEPT !.layer = job.layer + 1]
        /\ UNCHANGED <<plane, lengths, rplane, rlengths, scratch>>
    BY DEF SkipLayer
  <2>2. job.layer \in 0..(NumLayers - 1) /\ job.layer + 1 \in 0..NumLayers
    BY <2>1, JobTypes
  <2> QED BY <2>1, <2>2, JobTypes DEF Layers
<1>2. TypeOK'
  BY <1>1, JobTypes DEF TypeOK
<1>3. SelectionsValid'
  BY <1>1 DEF IInv, SelectionsValid
<1>4. LayersReplaced'
  <2> SUFFICES ASSUME NEW l \in Layers
               PROVE  IF l < job.layer + 1
                      THEN /\ rlengths[l] = Len(job.sels[l])
                           /\ \A h \in Heads, i \in 1..Len(job.sels[l]) :
                                rplane[CellOf(l, h, i - 1)] = plane[CellOf(l, h, job.sels[l][i])]
                      ELSE rlengths[l] = 0
    BY <1>1 DEF LayersReplaced
  <2>1. l \in Nat /\ job.layer \in Nat
    BY <1>1, KvShapeAssumption DEF Layers
  <2>2. CASE l = job.layer
    <3>1. Len(job.sels[l]) = 0 /\ rlengths[l] = 0
      BY <1>1, <2>1, <2>2 DEF IInv, LayersReplaced
    <3> QED BY <3>1, <2>1, <2>2
  <2>3. CASE l # job.layer
    <3>1. l < job.layer <=> l < job.layer + 1
      BY <2>1, <2>3
    <3> QED BY <3>1, <1>1 DEF IInv, LayersReplaced
  <2> QED BY <2>2, <2>3
<1>5. ScratchStaged'
  BY <1>1 DEF ScratchStaged
<1> QED BY <1>2, <1>3, <1>4, <1>5 DEF IInv

\* stage_selected_rows: the scratch gets, cell by cell, the selected rows of the layer.
LEMMA StageIInv == ASSUME IInv, Stage PROVE IInv'
<1>1. /\ job.pc = "stage" /\ job.layer \in Layers /\ job.sels[job.layer] # <<>>
      /\ job'.pc = "append" /\ job'.layer = job.layer /\ job'.sels = job.sels
      /\ job' \in [pc : {"idle", "stage", "append"}, layer : 0..NumLayers,
                   sels : [Layers -> Selections]]
      /\ scratch' = Staged(job.layer, job.sels[job.layer])
      /\ UNCHANGED <<plane, lengths, rplane, rlengths>>
  <2>1. /\ job.pc = "stage" /\ job.layer < NumLayers /\ job.sels[job.layer] # <<>>
        /\ job' = [job EXCEPT !.pc = "append"]
        /\ scratch' = Staged(job.layer, job.sels[job.layer])
        /\ UNCHANGED <<plane, lengths, rplane, rlengths>>
    BY DEF Stage
  <2>2. job.layer \in Layers
    BY <2>1, JobTypes DEF Layers
  <2> QED BY <2>1, <2>2, JobTypes
<1> DEFINE sel == job.sels[job.layer]
<1>2. /\ sel \in Selections /\ Len(sel) \in 1..Capacity /\ sel # <<>>
      /\ DOMAIN sel = 1..Len(sel) /\ \A i \in 1..Len(sel) : sel[i] \in 0..(Capacity - 1)
  <2>1. sel \in Selections
    BY <1>1, JobTypes
  <2> QED BY <2>1, <1>1, SelectionShape
<1>3. scratch' \in [DOMAIN scratch' -> Contents]
  <2> DEFINE n == Len(sel)
  <2> SUFFICES ASSUME NEW d \in 0..(NumHeads * n - 1)
               PROVE  plane[CellOf(job.layer, d \div n, sel[(d % n) + 1])] \in Contents
    BY <1>1 DEF Staged
  <2>1. n \in Nat \ {0} /\ d \in Nat
    BY <1>2
  <2> HIDE DEF n
  <2>2. d \div n \in Nat /\ d % n \in 0..(n - 1)
    BY <2>1, DivMod
  <2>3. d \div n \in Heads
    BY <2>1, JobTypes, QuotientBound DEF Heads
  <2>4. sel[(d % n) + 1] \in 0..(Capacity - 1)
    BY <2>1, <2>2, <1>2 DEF n
  <2> HIDE DEF sel
  <2>5. CellOf(job.layer, d \div n, sel[(d % n) + 1]) \in Cells
    BY <1>1, <2>3, <2>4, CellInPlane
  <2> QED BY <2>5, JobTypes
<1>4. TypeOK'
  <2>1. job'.layer \in Layers /\ Len(job'.sels[job'.layer]) > 0
    BY <1>1, <1>2
  <2> QED BY <1>1, <1>3, <2>1, JobTypes DEF TypeOK
<1>5. SelectionsValid'
  BY <1>1 DEF IInv, SelectionsValid
<1>6. LayersReplaced'
  BY <1>1 DEF IInv, LayersReplaced
<1>7. ScratchStaged'
  BY <1>1 DEF ScratchStaged, Staged
<1> QED BY <1>4, <1>5, <1>6, <1>7 DEF IInv

\* What appending the scratch does to the cells of the replacement.
LEMMA AppendScratchCells ==
    ASSUME IInv, AppendScratch,
           NEW l \in Layers, NEW h \in Heads, NEW r \in 0..(Capacity - 1)
    PROVE  rplane'[CellOf(l, h, r)] =
             IF l = job.layer /\ r < Len(job.sels[l])
             THEN plane[CellOf(l, h, job.sels[l][r + 1])]
             ELSE rplane[CellOf(l, h, r)]
<1>1. PICK m \in Layers, n \in 1..Capacity : m = job.layer /\ n = Len(job.sels[m])
  <2>1. job.layer \in Layers /\ job.sels[job.layer] \in Selections
        /\ Len(job.sels[job.layer]) > 0
    BY JobTypes DEF AppendScratch, IInv, TypeOK
  <2>2. Len(job.sels[job.layer]) \in 1..Capacity
    BY <2>1, SelectionShape, JobTypes
  <2> QED BY <2>1, <2>2
<1>2. rlengths[m] = 0 /\ scratch = Staged(m, job.sels[m]) /\ n \in Nat \ {0}
      /\ Capacity \in Nat \ {0} /\ 0 + n <= Capacity /\ m \in Nat
  <2>1. job.pc = "append" /\ LayersReplaced /\ ScratchStaged
    BY DEF AppendScratch, IInv
  <2>2. m \in Nat /\ ~(m < job.layer)
    BY <1>1, KvShapeAssumption DEF Layers
  <2>3. rlengths[m] = 0
    BY <2>1, <2>2 DEF LayersReplaced
  <2>4. scratch = Staged(m, job.sels[m])
    BY <2>1, <1>1 DEF ScratchStaged
  <2> QED BY <1>1, <2>2, <2>3, <2>4, JobTypes
<1> DEFINE To(g) == CellOf(m, g, 0)..(CellOf(m, g, 0) + n - 1)
           c == CellOf(l, h, r)
<1>3. ASSUME NEW g \in Heads PROVE CellOf(m, g, 0 + n - 1) = CellOf(m, g, 0) + n - 1
  <2>1. n - 1 \in Nat /\ 0 + n - 1 = n - 1
    BY <1>2
  <2>2. CellOf(m, g, 0) \in Nat /\ CellOf(m, g, n - 1) = CellOf(m, g, 0) + (n - 1)
    BY <2>1, CellOffset
  <2> QED BY <2>1, <2>2, <1>2
<1>4. c \in Cells
  BY CellInPlane
<1>5. rplane'[c] = IF \E g \in Heads : c \in To(g)
                   THEN LET g == CHOOSE g \in Heads : c \in To(g)
                        IN  scratch[g * n + (c - CellOf(m, g, 0))]
                   ELSE rplane[c]
  <2>1. rplane' = [k \in Cells |->
          IF \E g \in Heads : k \in CellOf(m, g, 0)..CellOf(m, g, 0 + n - 1)
          THEN LET g == CHOOSE g \in Heads : k \in CellOf(m, g, 0)..CellOf(m, g, 0 + n - 1)
               IN  scratch[g * n + (k - CellOf(m, g, 0))]
          ELSE rplane[k]]
    BY <1>1, <1>2 DEF AppendScratch
  <2> HIDE DEF c
  <2>2. \A g \in Heads : c \in To(g) <=> c \in CellOf(m, g, 0)..CellOf(m, g, 0 + n - 1)
    BY <1>3
  <2>3. (CHOOSE g \in Heads : c \in To(g))
          = (CHOOSE g \in Heads : c \in CellOf(m, g, 0)..CellOf(m, g, 0 + n - 1))
    BY <2>2
  <2> HIDE DEF To
  <2> QED BY <2>1, <2>2, <2>3, <1>4
<1>6. \A g \in Heads : c \in To(g) => l = m /\ g = h /\ r \in 0..(n - 1)
  <2> SUFFICES ASSUME NEW g \in Heads, c \in To(g) PROVE l = m /\ h = g /\ r \in 0..(n - 1)
    OBVIOUS
  <2>1. l = m /\ h = g /\ r \in 0..(0 + n - 1)
    BY <1>2, CellRun
  <2> QED BY <2>1, <1>2
<1>7. CellOf(m, h, 0) \in Nat /\ CellOf(m, h, r) = CellOf(m, h, 0) + r
  BY CellOffset
<1>8. CASE l = m /\ r < n
  <2>1. c \in To(h) /\ c - CellOf(m, h, 0) = r /\ r \in 0..(n - 1)
    BY <1>2, <1>7, <1>8
  <2> HIDE DEF c, To
  <2>2. (CHOOSE g \in Heads : c \in To(g)) = h
    BY <2>1, <1>6
  <2>3. rplane'[c] = scratch[h * n + r]
    BY <1>5, <2>1, <2>2
  <2>4. /\ h * n + r \in 0..(NumHeads * n - 1)
        /\ (h * n + r) \div n = h /\ (h * n + r) % n = r
    BY <2>1, <1>2, ScratchIndex
  <2>5. scratch[h * n + r] = plane[CellOf(m, h, job.sels[m][r + 1])]
    BY <2>4, <1>1, <1>2 DEF Staged
  <2> QED BY <1>1, <1>8, <2>3, <2>5 DEF c
<1>9. CASE ~(l = m /\ r < n)
  <2>1. ~(\E g \in Heads : c \in To(g))
    BY <1>2, <1>6, <1>9
  <2> HIDE DEF c, To
  <2>2. rplane'[c] = rplane[c]
    BY <2>1, <1>5
  <2> QED BY <2>2, <1>1, <1>9 DEF c
<1> QED BY <1>8, <1>9

\* append_layer: the scratch becomes the first rows of the layer in the replacement,
\* and no cell of an earlier layer is written.
LEMMA AppendScratchIInv == ASSUME IInv, AppendScratch PROVE IInv'
<1>1. PICK m \in Layers, n \in 1..Capacity :
         /\ m = job.layer /\ n = Len(job.sels[m]) /\ rlengths[m] = 0
         /\ scratch = Staged(m, job.sels[m]) /\ scratch \in [DOMAIN scratch -> Contents]
  <2>1. /\ job.pc = "append" /\ LayersReplaced /\ ScratchStaged
        /\ job.layer \in Layers /\ job.sels[job.layer] \in Selections
        /\ Len(job.sels[job.layer]) > 0 /\ scratch \in [DOMAIN scratch -> Contents]
    BY JobTypes DEF AppendScratch, IInv, TypeOK
  <2>2. Len(job.sels[job.layer]) \in 1..Capacity
    BY <2>1, SelectionShape, JobTypes
  <2>3. ~(job.layer < job.layer)
    BY <2>1, KvShapeAssumption DEF Layers
  <2>4. rlengths[job.layer] = 0
    BY <2>1, <2>3 DEF LayersReplaced
  <2> QED BY <2>1, <2>2, <2>4 DEF ScratchStaged
<1>2. /\ n \in Nat \ {0} /\ n <= Capacity /\ m \in 0..(NumLayers - 1) /\ m + 1 \in 0..NumLayers
      /\ Capacity \in Nat
  BY <1>1, KvShapeAssumption DEF Layers
<1>3. /\ job'.pc = "stage" /\ job'.layer = m + 1 /\ job'.sels = job.sels
      /\ job' \in [pc : {"idle", "stage", "append"}, layer : 0..NumLayers,
                   sels : [Layers -> Selections]]
      /\ UNCHANGED <<plane, lengths, scratch>>
  <2>1. /\ job' = [job EXCEPT !.pc = "stage", !.layer = job.layer + 1]
        /\ UNCHANGED <<plane, lengths, scratch>>
    BY DEF AppendScratch
  <2> QED BY <2>1, <1>1, <1>2, JobTypes
<1>4. rlengths' = [rlengths EXCEPT ![m] = 0 + n]
  BY <1>1 DEF AppendScratch
<1>5. rlengths' \in [Layers -> 0..Capacity] /\ rlengths'[m] = n
      /\ \A l \in Layers : l # m => rlengths'[l] = rlengths[l]
  BY <1>1, <1>2, <1>4, JobTypes
<1>6. rplane' \in [Cells -> Contents]
  <2> DEFINE To(g) == CellOf(m, g, 0)..CellOf(m, g, 0 + n - 1)
  <2>1. rplane' = [k \in Cells |->
          IF \E g \in Heads : k \in To(g)
          THEN LET g == CHOOSE g \in Heads : k \in To(g)
               IN  scratch[g * n + (k - CellOf(m, g, 0))]
          ELSE rplane[k]]
    BY <1>1 DEF AppendScratch
  <2>2. ASSUME NEW k \in Cells, NEW g \in Heads, k \in To(g)
        PROVE  scratch[g * n + (k - CellOf(m, g, 0))] \in Contents
    <3>1. n - 1 \in Nat /\ 0 + n - 1 = n - 1
      BY <1>2
    <3>2. CellOf(m, g, 0) \in Nat /\ CellOf(m, g, n - 1) = CellOf(m, g, 0) + (n - 1)
      BY <3>1, CellOffset
    <3>3. k - CellOf(m, g, 0) \in 0..(n - 1)
      BY <2>2, <3>1, <3>2
    <3>4. g * n + (k - CellOf(m, g, 0)) \in 0..(NumHeads * n - 1)
      BY <3>3, <1>2, ScratchIndex
    <3>5. DOMAIN scratch = 0..(NumHeads * n - 1)
      BY <1>1 DEF Staged
    <3> QED BY <3>4, <3>5, <1>1
  <2> HIDE DEF To
  <2>3. \A k \in Cells : rplane[k] \in Contents
    BY JobTypes
  <2> QED BY <2>1, <2>2, <2>3
<1>7. TypeOK'
  BY <1>3, <1>5, <1>6, JobTypes DEF TypeOK
<1>8. SelectionsValid' /\ ScratchStaged'
  BY <1>3 DEF IInv, AppendScratch, SelectionsValid, ScratchStaged
<1>9. LayersReplaced'
  <2> SUFFICES ASSUME NEW l \in Layers
               PROVE  IF l < m + 1
                      THEN /\ rlengths'[l] = Len(job.sels[l])
                           /\ \A h \in Heads, i \in 1..Len(job.sels[l]) :
                                rplane'[CellOf(l, h, i - 1)] = plane[CellOf(l, h, job.sels[l][i])]
                      ELSE rlengths'[l] = 0
    BY <1>3 DEF LayersReplaced
  <2>1. l \in Nat /\ m \in Nat
    BY <1>2, KvShapeAssumption DEF Layers
  <2>2. Len(job.sels[l]) \in 0..Capacity
    BY JobTypes, SelectionShape
  <2>3. ASSUME NEW h \in Heads, NEW i \in 1..Len(job.sels[l])
        PROVE  rplane'[CellOf(l, h, i - 1)] =
                 IF l = m THEN plane[CellOf(l, h, job.sels[l][i])]
                 ELSE rplane[CellOf(l, h, i - 1)]
    <3>1. i - 1 \in 0..(Capacity - 1) /\ i - 1 < Len(job.sels[l]) /\ i - 1 + 1 = i
      BY <2>2, <1>2
    <3> QED BY <3>1, <1>1, AppendScratchCells
  <2>4. CASE l = m
    BY <2>1, <2>3, <2>4, <1>1, <1>5
  <2>5. CASE l # m
    <3>1. l < m + 1 <=> l < job.layer
      BY <2>1, <2>5, <1>1
    <3>2. LayersReplaced
      BY DEF IInv, AppendScratch
    <3> QED BY <2>3, <2>5, <3>1, <3>2, <1>5 DEF LayersReplaced
  <2> QED BY <2>4, <2>5
<1> QED BY <1>7, <1>8, <1>9 DEF IInv

\* The swap of the caches, or the error that drops the replacement, ends the job.
LEMMA EndIInv == ASSUME IInv, Swap \/ Fail PROVE IInv'
  BY JobTypes, FreshTypes DEF Swap, Fail, IInv, TypeOK

\* Every operation of the cache and every step of a compaction keeps the invariant.
LEMMA NextIInv == IInv /\ [Next]_vars => IInv'
<1> SUFFICES ASSUME IInv, [Next]_vars PROVE IInv'
  OBVIOUS
<1>1. ASSUME NEW l \in Layers, NEW p \in Payloads, AppendToken(l, p) PROVE IInv'
  BY <1>1, AppendTokenIInv
<1>2. ASSUME NEW n \in 0..Capacity, Truncate(n) PROVE IInv'
  BY <1>2, IdleIInv, JobTypes DEF Truncate
<1>3. ASSUME NEW sel \in Selections, CompactAll(sel) PROVE IInv'
  BY <1>3, CompactAllIInv
<1>4. ASSUME NEW l \in Layers, NEW sel \in Selections, CompactLayer(l, sel) PROVE IInv'
  BY <1>4, CompactLayerIInv
<1>5. CASE SkipLayer \/ Stage \/ AppendScratch \/ Swap \/ Fail
  BY <1>5, SkipLayerIInv, StageIInv, AppendScratchIInv, EndIInv
<1>6. CASE UNCHANGED vars
  BY <1>6 DEF vars, IInv, TypeOK, SelectionsValid, LayersReplaced, ScratchStaged, Staged
<1> QED BY <1>1, <1>2, <1>3, <1>4, <1>5, <1>6 DEF Next

\* compact_kv_cache and compact_kv_cache_layer: at every step the selections of a
\* running compaction fit the rows they select from, and the layers replaced so far
\* hold exactly those rows.
THEOREM CompactionHolds == Spec => []IInv
  BY InitIInv, NextIInv, PTL DEF Spec

-----------------------------------------------------------------------------
\* The refinement.  A row of the abstract cache, read off the plane.
Row(l, i) == [h \in Heads |-> plane[CellOf(l, h, i - 1)]]

\* What a reader of the cache finds, layer by layer.
LEMMA ReadFacts ==
    ASSUME IInv
    PROVE  \A l \in Layers : /\ Len(ReadRows[l]) = lengths[l] /\ lengths[l] \in 0..Capacity
                             /\ ReadRows[l] = [i \in 1..lengths[l] |-> Row(l, i)]
                             /\ ReadRows[l] \in Seq({Row(l, i) : i \in 1..lengths[l]})
<1> SUFFICES ASSUME NEW l \in Layers
             PROVE  /\ Len(ReadRows[l]) = lengths[l] /\ lengths[l] \in 0..Capacity
                    /\ ReadRows[l] = [i \in 1..lengths[l] |-> Row(l, i)]
                    /\ ReadRows[l] \in Seq({Row(l, i) : i \in 1..lengths[l]})
  OBVIOUS
<1>1. ReadRows[l] = [i \in 1..lengths[l] |-> Row(l, i)]
  BY DEF ReadRows, Row
<1>2. PICK n \in 0..Capacity : n = lengths[l]
  BY JobTypes
<1>3. n \in Nat
  BY KvShapeAssumption
<1> DEFINE S == {Row(l, i) : i \in 1..n}
<1>4. [i \in 1..n |-> Row(l, i)] \in [1..n -> S]
  OBVIOUS
<1> HIDE DEF S
<1>5. [i \in 1..n |-> Row(l, i)] \in Seq(S) /\ Len([i \in 1..n |-> Row(l, i)]) = n
  BY <1>3, <1>4
<1> QED BY <1>1, <1>2, <1>5 DEF S

\* What is asked of the abstract cache.
Asked == IF job.pc = "idle" THEN <<>> ELSE job.sels

\* A compaction that has begun has selections, if only empty ones.
LEMMA AskedFacts ==
    ASSUME IInv
    PROVE  Asked = <<>> <=> job.pc = "idle"
<1>1. DOMAIN job.sels = Layers /\ 0 \in Layers
  BY JobTypes
<1>2. 0 \notin DOMAIN <<>>
  <2>1. DOMAIN <<>> = 1..0
    BY EmptySeq
  <2> QED BY <2>1
<1> QED BY <1>1, <1>2 DEF Asked

\* Where the elements of an appended sequence are.
LEMMA AppendIsFunction ==
    ASSUME NEW S, NEW s \in Seq(S), NEW e, NEW n \in Nat, Len(s) = n
    PROVE  Append(s, e) = [i \in 1..(n + 1) |-> IF i = n + 1 THEN e ELSE s[i]]
<1> DEFINE T == S \cup {e}
<1>1. s \in Seq(T) /\ e \in T
  OBVIOUS
<1> HIDE DEF T
<1>2. /\ Append(s, e) \in Seq(T) /\ Len(Append(s, e)) = n + 1
      /\ \A i \in 1..n : Append(s, e)[i] = s[i]
      /\ Append(s, e)[n + 1] = e
  BY <1>1, AppendProperties
<1>3. Append(s, e) = [i \in 1..(n + 1) |-> Append(s, e)[i]]
  BY <1>2, LenProperties
<1>4. \A i \in 1..(n + 1) : Append(s, e)[i] = IF i = n + 1 THEN e ELSE s[i]
  BY <1>2
<1> QED BY <1>3, <1>4

\* append_layer: one row more at the end of the layer, every other row as it was.
LEMMA AppendStep ==
    ASSUME IInv, IInv', NEW l \in Layers, NEW p \in Payloads, AppendToken(l, p)
    PROVE  Abstract!AppendRow(l, [h \in Heads |-> <<p, h>>])
<1> DEFINE r == [h \in Heads |-> <<p, h>>]
<1>1. PICK n \in 0..(Capacity - 1) : n = lengths[l]
  BY JobTypes DEF AppendToken
<1>2. n \in Nat /\ n + 1 \in 0..Capacity /\ n + 1 - 1 = n
  BY JobTypes
<1>3. \A m \in Layers : lengths'[m] = IF m = l THEN n + 1 ELSE lengths[m]
  BY <1>1, JobTypes DEF AppendToken
<1>4. ASSUME NEW m \in Layers, NEW h \in Heads, NEW i \in 0..(Capacity - 1)
      PROVE  plane'[CellOf(m, h, i)] = IF m = l /\ i = n THEN <<p, h>> ELSE plane[CellOf(m, h, i)]
  <2> DEFINE c == CellOf(m, h, i)
  <2>1. c \in Cells
    BY CellInPlane
  <2>2. \A g \in Heads : c = CellOf(l, g, n) <=> m = l /\ g = h /\ i = n
    BY CellInjective
  <2> HIDE DEF c
  <2>3. plane'[c] = IF \E g \in Heads : c = CellOf(l, g, n)
                    THEN <<p, CHOOSE g \in Heads : c = CellOf(l, g, n)>>
                    ELSE plane[c]
    BY <1>1, <2>1 DEF AppendToken
  <2>4. CASE m = l /\ i = n
    <3>1. (CHOOSE g \in Heads : c = CellOf(l, g, n)) = h
      BY <2>2, <2>4
    <3> QED BY <2>2, <2>3, <2>4, <3>1
  <2>5. CASE ~(m = l /\ i = n)
    BY <2>2, <2>3, <2>5 DEF c
  <2> QED BY <2>4, <2>5
<1>5. ASSUME NEW m \in Layers, NEW i \in 1..Capacity
      PROVE  Row(m, i)' = IF m = l /\ i = n + 1 THEN r ELSE Row(m, i)
  <2>1. i - 1 \in 0..(Capacity - 1) /\ (i - 1 = n <=> i = n + 1)
    BY <1>2, JobTypes
  <2>2. \A h \in Heads : plane'[CellOf(m, h, i - 1)] =
           IF m = l /\ i = n + 1 THEN <<p, h>> ELSE plane[CellOf(m, h, i - 1)]
    BY <2>1, <1>4
  <2> QED BY <2>2 DEF Row
<1>6. ReadRows' = [ReadRows EXCEPT ![l] = Append(ReadRows[l], r)]
  <2>1. ReadRows' = [m \in Layers |-> [i \in 1..lengths'[m] |-> Row(m, i)']]
    BY DEF ReadRows, Row
  <2>2. DOMAIN ReadRows = Layers
    BY DEF ReadRows
  <2>3. ASSUME NEW m \in Layers, m # l
        PROVE  [i \in 1..lengths'[m] |-> Row(m, i)'] = ReadRows[m]
    <3>1. lengths'[m] = lengths[m] /\ lengths[m] \in 0..Capacity
      BY <2>3, <1>3, JobTypes
    <3>2. \A i \in 1..lengths[m] : i \in 1..Capacity
      BY <3>1, JobTypes
    <3>3. \A i \in 1..lengths[m] : Row(m, i)' = Row(m, i)
      BY <3>2, <2>3, <1>5
    <3> QED BY <3>1, <3>3, ReadFacts
  <2>4. [i \in 1..lengths'[l] |-> Row(l, i)'] = Append(ReadRows[l], r)
    <3>1. Append(ReadRows[l], r) =
             [i \in 1..(n + 1) |-> IF i = n + 1 THEN r ELSE ReadRows[l][i]]
      <4>1. PICK S : ReadRows[l] \in Seq(S) /\ Len(ReadRows[l]) = n
        BY <1>1, ReadFacts
      <4> HIDE DEF r
      <4> QED BY <4>1, <1>2, AppendIsFunction
    <3>2. \A i \in 1..(n + 1) : i \in 1..Capacity /\ (i # n + 1 => i \in 1..n)
      BY <1>2, JobTypes
    <3>3. \A i \in 1..n : ReadRows[l][i] = Row(l, i)
      BY <1>1, ReadFacts
    <3>4. \A i \in 1..(n + 1) : Row(l, i)' = IF i = n + 1 THEN r ELSE ReadRows[l][i]
      BY <3>2, <3>3, <1>5
    <3>5. lengths'[l] = n + 1
      BY <1>3
    <3> QED BY <3>1, <3>4, <3>5
  <2> HIDE DEF r
  <2> QED BY <2>1, <2>2, <2>3, <2>4
<1>7. job.pc = "idle" /\ job' = job
  BY DEF AppendToken
<1>8. Len(ReadRows[l]) < Capacity
  <2>1. Len(ReadRows[l]) = n
    BY <1>1, ReadFacts
  <2> QED BY <2>1, JobTypes
<1> QED BY <1>6, <1>7, <1>8 DEF Abstract!AppendRow, Abstract!Nothing

\* Cutting the lengths cuts the rows.
LEMMA CutRows ==
    ASSUME IInv, UNCHANGED plane, NEW l \in Layers, NEW n \in Nat,
           n <= lengths[l], lengths'[l] = n
    PROVE  ReadRows'[l] = SubSeq(ReadRows[l], 1, n) /\ (n = 0 => ReadRows'[l] = <<>>)
<1>1. ReadRows'[l] = [i \in 1..n |-> Row(l, i)]
  BY DEF ReadRows, Row
<1>2. /\ Len(ReadRows[l]) = lengths[l] /\ lengths[l] \in Nat
      /\ \A i \in 1..lengths[l] : ReadRows[l][i] = Row(l, i)
  <2>1. Len(ReadRows[l]) = lengths[l] /\ lengths[l] \in 0..Capacity
        /\ ReadRows[l] = [i \in 1..lengths[l] |-> Row(l, i)]
    BY ReadFacts
  <2>2. lengths[l] \in Nat
    BY <2>1, JobTypes
  <2> QED BY <2>1, <2>2
<1>3. SubSeq(ReadRows[l], 1, n) = [i \in 1..n |-> ReadRows[l][i]]
  <2>1. PICK S : ReadRows[l] \in Seq(S)
    BY ReadFacts
  <2> QED BY <2>1, <1>2
<1>4. \A i \in 1..n : ReadRows[l][i] = Row(l, i)
  BY <1>2
<1>5. n = 0 => [i \in 1..n |-> Row(l, i)] = <<>>
  OBVIOUS
<1> QED BY <1>1, <1>3, <1>4, <1>5

\* truncate: a reader sees the first rows only, of every layer.
LEMMA TruncateStep ==
    ASSUME IInv, NEW n \in 0..Capacity, Truncate(n) PROVE Abstract!Truncate(n)
<1>1. /\ job.pc = "idle" /\ job' = job /\ UNCHANGED plane /\ n \in Nat
      /\ \A l \in Layers : n <= lengths[l] /\ lengths'[l] = n
  BY JobTypes DEF Truncate
<1>2. \A l \in Layers : ReadRows'[l] = SubSeq(ReadRows[l], 1, n)
  BY <1>1, CutRows
<1>3. ReadRows' = [l \in Layers |-> SubSeq(ReadRows[l], 1, n)]
  BY <1>2 DEF ReadRows
<1>4. \A l \in Layers : Len(ReadRows[l]) >= n
  BY <1>1, ReadFacts
<1> QED BY <1>1, <1>3, <1>4 DEF Abstract!Truncate, Abstract!Nothing

\* A rebuild starts: the abstract cache is asked, its rows are as before.
LEMMA RebuildAsked ==
    ASSUME NEW sels, Rebuild(sels)
    PROVE  ReadRows' = ReadRows /\ job'.pc = "stage" /\ job'.sels = sels
  BY DEF Rebuild, ReadRows

\* compact_kv_cache: the abstract cache is asked for the selections; nothing is seen yet.
LEMMA CompactAllStep ==
    ASSUME IInv, NEW sel \in Selections, CompactAll(sel)
    PROVE  Abstract!Truncate(0) \/ Abstract!AskAll(sel)
<1>1. job.pc = "idle" /\ Valid(lengths[0], sel) /\ 0 \in Layers
      /\ \A l \in Layers : lengths[l] = lengths[0]
  BY JobTypes DEF CompactAll
<1>2. CASE sel = <<>>
  <2>1. lengths' = NoLengths /\ job' = job /\ UNCHANGED plane
    BY <1>2 DEF CompactAll, Rebuild
  <2>2. \A l \in Layers : 0 \in Nat /\ 0 <= lengths[l] /\ lengths'[l] = 0
    BY <2>1, JobTypes DEF NoLengths
  <2>3. \A l \in Layers : ReadRows'[l] = SubSeq(ReadRows[l], 1, 0)
    BY <2>1, <2>2, CutRows
  <2>4. ReadRows' = [l \in Layers |-> SubSeq(ReadRows[l], 1, 0)]
    BY <2>3 DEF ReadRows
  <2>5. \A l \in Layers : Len(ReadRows[l]) >= 0
    <3>1. \A l \in Layers : Len(ReadRows[l]) = lengths[l] /\ lengths[l] \in 0..Capacity
      BY ReadFacts
    <3> QED BY <3>1, JobTypes
  <2> QED BY <1>1, <2>1, <2>4, <2>5 DEF Abstract!Truncate, Abstract!Nothing
<1>3. CASE sel # <<>>
  <2>1. Rebuild([l \in Layers |-> sel])
    BY <1>3 DEF CompactAll
  <2>2. ReadRows' = ReadRows /\ job'.pc = "stage" /\ job'.sels = [l \in Layers |-> sel]
    BY <2>1, RebuildAsked
  <2>3. \A l \in Layers : Len(ReadRows[l]) = lengths[0]
    BY <1>1, ReadFacts
  <2>4. Abstract!Selection(lengths[0], sel)
    BY <1>1, ValidIsSelection
  <2> QED BY <1>1, <2>2, <2>3, <2>4 DEF Abstract!AskAll, Abstract!Nothing
<1> QED BY <1>2, <1>3

\* compact_kv_cache_layer: the layer is cleared, or the abstract cache is asked for the
\* selection of this layer and for every row of the others.
LEMMA CompactLayerStep ==
    ASSUME IInv, NEW k \in Layers, NEW sel \in Selections, CompactLayer(k, sel)
    PROVE  Abstract!Clear(k) \/ Abstract!AskLayer(k, sel)
<1>1. job.pc = "idle" /\ Valid(lengths[k], sel)
  BY DEF CompactLayer
<1>2. CASE sel = <<>>
  <2>1. lengths' = [lengths EXCEPT ![k] = 0] /\ job' = job /\ UNCHANGED plane
    BY <1>2 DEF CompactLayer, Rebuild
  <2>2. lengths'[k] = 0 /\ 0 <= lengths[k] /\ \A l \in Layers : l # k => lengths'[l] = lengths[l]
    BY <2>1, JobTypes
  <2>3. ReadRows'[k] = <<>>
    BY <2>1, <2>2, CutRows
  <2>4. \A l \in Layers : l # k => ReadRows'[l] = ReadRows[l]
    BY <2>1, <2>2 DEF ReadRows
  <2>5. ReadRows' = [ReadRows EXCEPT ![k] = <<>>]
    <3>1. DOMAIN ReadRows = Layers /\ ReadRows' = [l \in Layers |-> ReadRows'[l]]
      BY DEF ReadRows
    <3> HIDE DEF ReadRows
    <3> QED BY <2>3, <2>4, <3>1
  <2> QED BY <1>1, <2>1, <2>5 DEF Abstract!Clear, Abstract!Nothing
<1>3. CASE sel # <<>>
  <2>1. Rebuild(OneLayer(k, sel))
    BY <1>3 DEF CompactLayer, OneLayer
  <2>2. ReadRows' = ReadRows /\ job'.pc = "stage" /\ job'.sels = OneLayer(k, sel)
    BY <2>1, RebuildAsked
  <2>3. \A l \in Layers : Len(ReadRows[l]) = lengths[l]
    BY ReadFacts
  <2>4. Abstract!Selection(Len(ReadRows[k]), sel)
    BY <1>1, <2>3, ValidIsSelection
  <2>5. OneLayer(k, sel) = [l \in Layers |-> IF l = k THEN sel
                              ELSE [i \in 1..Len(ReadRows[l]) |-> i - 1]]
    BY <2>3 DEF OneLayer, Identity
  <2> QED BY <1>1, <2>2, <2>4, <2>5 DEF Abstract!AskLayer, Abstract!Nothing
<1> QED BY <1>2, <1>3

\* The caches are swapped: the abstract cache keeps the rows asked for.
LEMMA SwapStep == ASSUME IInv, Swap PROVE Abstract!Keep
<1>1. /\ job.pc = "stage" /\ job.layer = NumLayers /\ job'.pc = "idle"
      /\ plane' = rplane /\ lengths' = rlengths /\ SelectionsValid /\ LayersReplaced
      /\ job.sels \in [Layers -> Selections]
  BY FreshTypes, JobTypes DEF Swap, IInv
<1>2. ASSUME NEW l \in Layers
      PROVE  ReadRows'[l] = Abstract!Select(ReadRows[l], job.sels[l])
  <2>1. l < job.layer
    BY <1>1, KvShapeAssumption DEF Layers
  <2>2. PICK sel \in Selections : sel = job.sels[l]
    BY <1>1
  <2>3. /\ lengths'[l] = Len(sel)
        /\ \A h \in Heads, i \in 1..Len(sel) :
             plane'[CellOf(l, h, i - 1)] = plane[CellOf(l, h, sel[i])]
    BY <1>1, <2>1, <2>2 DEF LayersReplaced
  <2>4. ASSUME NEW i \in 1..Len(sel)
        PROVE  Row(l, i)' = ReadRows[l][sel[i] + 1]
    <3>1. sel[i] \in 0..(Capacity - 1) /\ i \in DOMAIN sel
      BY SelectionShape
    <3>2. sel[i] < lengths[l]
      BY <1>1, <2>2, <3>1 DEF SelectionsValid, Valid
    <3>3. sel[i] + 1 \in 1..lengths[l] /\ sel[i] + 1 - 1 = sel[i]
      <4>1. lengths[l] \in 0..Capacity
        BY JobTypes
      <4> QED BY <4>1, <3>1, <3>2, JobTypes
    <3>4. ReadRows[l][sel[i] + 1] = Row(l, sel[i] + 1)
      BY <3>3, ReadFacts
    <3>5. Row(l, sel[i] + 1) = [h \in Heads |-> plane[CellOf(l, h, sel[i])]]
      <4>1. PICK q : q = sel[i] + 1
        OBVIOUS
      <4>2. Row(l, q) = [h \in Heads |-> plane[CellOf(l, h, q - 1)]]
        BY DEF Row
      <4>3. sel[i] \in Int
        BY <3>1
      <4>4. q - 1 = sel[i]
        BY <4>1, <4>3
      <4> HIDE DEF Row
      <4> QED BY <4>1, <4>2, <4>4
    <3>6. Row(l, i)' = [h \in Heads |-> plane'[CellOf(l, h, i - 1)]]
      BY DEF Row
    <3>7. \A h \in Heads : plane'[CellOf(l, h, i - 1)] = plane[CellOf(l, h, sel[i])]
      BY <2>3
    <3> QED BY <3>4, <3>5, <3>6, <3>7
  <2>5. ReadRows'[l] = [i \in 1..Len(sel) |-> Row(l, i)']
    BY <2>3 DEF ReadRows, Row
  <2> HIDE DEF Row
  <2> QED BY <2>2, <2>4, <2>5 DEF Abstract!Select
<1>3. ReadRows' = [l \in Layers |-> Abstract!Select(ReadRows[l], job.sels[l])]
  <2>1. ReadRows' = [l \in Layers |-> ReadRows'[l]]
    BY DEF ReadRows
  <2> QED BY <2>1, <1>2
<1>4. job.sels # <<>>
  BY <1>1, AskedFacts DEF Asked
<1> QED BY <1>1, <1>3, <1>4 DEF Abstract!Keep, Abstract!Nothing

\* A compaction that fails leaves the rows as they were.
LEMMA FailStep == ASSUME IInv, Fail PROVE Abstract!Refuse
<1>1. job.pc # "idle" /\ job'.pc = "idle" /\ UNCHANGED <<plane, lengths>>
  BY FreshTypes DEF Fail
<1>2. ReadRows' = ReadRows
  BY <1>1 DEF ReadRows
<1>3. job.sels # <<>>
  BY <1>1, AskedFacts DEF Asked
<1> QED BY <1>1, <1>2, <1>3 DEF Abstract!Refuse, Abstract!Nothing

\* The work on the replacement is not seen by a reader.
LEMMA WorkStep ==
    ASSUME IInv, SkipLayer \/ Stage \/ AppendScratch \/ UNCHANGED vars
    PROVE  UNCHANGED <<ReadRows, Asked>>
<1>1. UNCHANGED <<plane, lengths>>
  BY DEF SkipLayer, Stage, AppendScratch, vars
<1>2. (job'.pc = "idle" <=> job.pc = "idle") /\ job'.sels = job.sels
  <2>1. CASE SkipLayer \/ Stage \/ AppendScratch
    BY <2>1, JobTypes DEF SkipLayer, Stage, AppendScratch
  <2>2. CASE UNCHANGED vars
    BY <2>2 DEF vars
  <2> QED BY <2>1, <2>2
<1> QED BY <1>1, <1>2 DEF ReadRows, Asked

\* An empty cache is an empty list of rows in every layer.
LEMMA InitStep == Init => Abstract!Init
<1> SUFFICES ASSUME Init PROVE Abstract!Init
  OBVIOUS
<1>1. ReadRows = [l \in Layers |-> <<>>]
  <2>1. \A l \in Layers : lengths[l] = 0
    BY DEF Init, NoLengths
  <2>2. \A l \in Layers : [i \in 1..lengths[l] |-> [h \in Heads |-> plane[CellOf(l, h, i - 1)]]]
                            = <<>>
    BY <2>1
  <2> QED BY <2>2 DEF ReadRows
<1>2. job.pc = "idle"
  BY DEF Init, NoJob
<1> QED BY <1>1, <1>2 DEF Abstract!Init, Abstract!Nothing

\* Every step of the compaction is a step of the abstract cache or unseen by it.
LEMMA NextStep ==
    ASSUME IInv, IInv', [Next]_vars PROVE [Abstract!Next]_<<ReadRows, Asked>>
<1>1. ASSUME NEW l \in Layers, NEW p \in Payloads, AppendToken(l, p) PROVE Abstract!Next
  <2>1. [h \in Heads |-> <<p, h>>] \in {[h \in Heads |-> <<q, h>>] : q \in Payloads}
    OBVIOUS
  <2>2. Abstract!AppendRow(l, [h \in Heads |-> <<p, h>>])
    BY <1>1, AppendStep
  <2> QED BY <2>1, <2>2 DEF Abstract!Next
<1>2. ASSUME NEW n \in 0..Capacity, Truncate(n) PROVE Abstract!Next
  BY <1>2, TruncateStep DEF Abstract!Next
<1>3. Selections = Abstract!Selections
  BY DEF Selections, Abstract!Selections
<1>4. ASSUME NEW sel \in Selections, CompactAll(sel) PROVE Abstract!Next
  <2>1. 0 \in 0..Capacity
    BY KvShapeAssumption
  <2> QED BY <1>3, <1>4, <2>1, CompactAllStep DEF Abstract!Next
<1>5. ASSUME NEW k \in Layers, NEW sel \in Selections, CompactLayer(k, sel) PROVE Abstract!Next
  BY <1>3, <1>5, CompactLayerStep DEF Abstract!Next
<1>6. CASE Swap
  BY <1>6, SwapStep DEF Abstract!Next
<1>7. CASE Fail
  BY <1>7, FailStep DEF Abstract!Next
<1>8. CASE SkipLayer \/ Stage \/ AppendScratch \/ UNCHANGED vars
  BY <1>8, WorkStep
<1> QED BY <1>1, <1>2, <1>4, <1>5, <1>6, <1>7, <1>8 DEF Next

\* kv_compaction.rs:20-24 and 67-76, for every shape of the cache: a compaction
\* is one indivisible step for the reader, or no step at all.
THEOREM CompactionImplementsKvRows == Spec => ImplementsKvRows
<1>1. Spec => []IInv
  BY CompactionHolds
<1>2. IInv /\ IInv' /\ [Next]_vars => [Abstract!Next]_<<ReadRows, Asked>>
  BY NextStep
<1> QED BY <1>1, <1>2, InitStep, PTL DEF Spec, ImplementsKvRows, Abstract!Spec, Asked
=============================================================================
