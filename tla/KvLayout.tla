------------------------------- MODULE KvLayout -------------------------------
(***************************************************************************)
(* Shape and layout of the KV cache of nnis-rt: one plane of cells, one    *)
(* cell standing for the head_dim elements of one position of one head.    *)
(***************************************************************************)
EXTENDS Naturals

CONSTANTS NumLayers, NumHeads, Capacity   \* KvCacheConfig

\* KvCacheConfig::validate refuses a zero dimension.
ASSUME KvShapeAssumption ==
    /\ NumLayers \in Nat \ {0}
    /\ NumHeads \in Nat \ {0}
    /\ Capacity \in Nat \ {0}

Layers == 0..(NumLayers - 1)
Heads  == 0..(NumHeads - 1)

\* Mutant: the head stride is one position short.
CellOfShort(layer, head, position) ==
    (layer * NumHeads + head) * (Capacity - 1) + position

\* head_base_elements / append_base_elements: [layer][head][capacity].
CellOf(layer, head, position) ==
    (layer * NumHeads + head) * Capacity + position

\* KvCacheConfig::elements_per_side.
PlaneSize == NumLayers * NumHeads * Capacity
Cells == 0..(PlaneSize - 1)

-----------------------------------------------------------------------------
\* What makes the layout one: no two positions of any head share a cell.

\* Quotient and remainder are unique.
LEMMA DivisionUnique ==
    ASSUME NEW n \in Nat \ {0}, NEW a \in Nat, NEW b \in Nat,
           NEW r \in 0..(n - 1), NEW s \in 0..(n - 1), a * n + r = b * n + s
    PROVE  a = b /\ r = s
<1>1. ASSUME NEW u \in Nat, NEW v \in Nat, NEW q \in 0..(n - 1), u < v
      PROVE  u * n + q < v * n
  <2>1. PICK d \in Nat : v = u + 1 + d
    <3>1. v - u - 1 \in Nat /\ v = u + 1 + (v - u - 1)
      BY <1>1
    <3> QED BY <3>1
  <2>2. v * n = u * n + n + d * n
    BY <2>1
  <2>3. d * n \in Nat /\ u * n \in Nat
    OBVIOUS
  <2> QED BY <2>2, <2>3
<1>2. a * n \in Nat /\ b * n \in Nat
  OBVIOUS
<1>3. ~(a < b)
  <2>1. a < b => a * n + r < b * n
    BY <1>1
  <2> QED BY <2>1, <1>2
<1>4. ~(b < a)
  <2>1. b < a => b * n + s < a * n
    BY <1>1
  <2> QED BY <2>1, <1>2
<1>5. a = b
  BY <1>3, <1>4
<1> QED BY <1>5, <1>2

\* Two cells of the layout are one only for one layer, head and position.
LEMMA CellInjective ==
    ASSUME NEW l \in Layers, NEW m \in Layers, NEW h \in Heads, NEW g \in Heads,
           NEW r \in 0..(Capacity - 1), NEW s \in 0..(Capacity - 1),
           CellOf(l, h, r) = CellOf(m, g, s)
    PROVE  l = m /\ h = g /\ r = s
<1>1. /\ l \in Nat /\ m \in Nat /\ h \in 0..(NumHeads - 1) /\ g \in 0..(NumHeads - 1)
      /\ NumHeads \in Nat \ {0} /\ Capacity \in Nat \ {0}
  BY KvShapeAssumption DEF Layers, Heads
<1> DEFINE a == l * NumHeads + h
           b == m * NumHeads + g
<1>2. a \in Nat /\ b \in Nat
  <2>1. l * NumHeads \in Nat /\ m * NumHeads \in Nat
    BY <1>1
  <2> QED BY <2>1, <1>1
<1>3. a * Capacity + r = b * Capacity + s
  BY DEF CellOf
<1> HIDE DEF a, b
<1>4. a = b /\ r = s
  BY <1>1, <1>2, <1>3, DivisionUnique
<1>5. l * NumHeads + h = m * NumHeads + g
  BY <1>4 DEF a, b
<1>6. l = m /\ h = g
  BY <1>1, <1>5, DivisionUnique
<1> QED BY <1>4, <1>6

\* The layout stays within the plane.
LEMMA CellInPlane ==
    ASSUME NEW l \in Layers, NEW h \in Heads, NEW r \in 0..(Capacity - 1)
    PROVE  CellOf(l, h, r) \in Cells
<1>1. /\ l \in Nat /\ l <= NumLayers - 1 /\ h \in Nat /\ h <= NumHeads - 1
      /\ NumHeads \in Nat \ {0} /\ Capacity \in Nat \ {0} /\ NumLayers \in Nat \ {0}
  BY KvShapeAssumption DEF Layers, Heads
<1>2. ASSUME NEW a \in Nat, NEW b \in Nat, NEW n \in Nat, a <= b PROVE a * n <= b * n
  <2>1. PICK d \in Nat : b = a + d
    <3>1. b - a \in Nat /\ b = a + (b - a)
      BY <1>2
    <3> QED BY <3>1
  <2>2. b * n = a * n + d * n /\ d * n \in Nat /\ a * n \in Nat
    BY <2>1
  <2> QED BY <2>2
<1>3. (l + 1) * NumHeads <= NumLayers * NumHeads
  BY <1>1, <1>2
<1>4. l * NumHeads \in Nat /\ (l + 1) * NumHeads = l * NumHeads + NumHeads
      /\ NumLayers * NumHeads \in Nat
  BY <1>1
<1> DEFINE a == l * NumHeads + h
           b == NumLayers * NumHeads
<1>5. a \in Nat /\ b \in Nat /\ a + 1 <= b
  BY <1>1, <1>3, <1>4
<1> HIDE DEF a, b
<1>6. (a + 1) * Capacity <= b * Capacity
  BY <1>1, <1>2, <1>5
<1>7. (a + 1) * Capacity = a * Capacity + Capacity /\ a * Capacity \in Nat
      /\ b * Capacity \in Nat
  BY <1>1, <1>5
<1>8. a * Capacity + r \in 0..(b * Capacity - 1)
  BY <1>1, <1>6, <1>7
<1> QED BY <1>8 DEF CellOf, Cells, PlaneSize, a, b

\* The positions of a head lie side by side.
LEMMA CellOffset ==
    ASSUME NEW l \in Layers, NEW h \in Heads, NEW r \in Nat
    PROVE  CellOf(l, h, 0) \in Nat /\ CellOf(l, h, r) = CellOf(l, h, 0) + r
<1>1. l \in Nat /\ h \in Nat /\ NumHeads \in Nat /\ Capacity \in Nat
  BY KvShapeAssumption DEF Layers, Heads
<1>2. l * NumHeads \in Nat
  BY <1>1
<1>3. (l * NumHeads + h) * Capacity \in Nat
  BY <1>1, <1>2
<1> DEFINE base == (l * NumHeads + h) * Capacity
<1>4. CellOf(l, h, 0) = base + 0 /\ CellOf(l, h, r) = base + r
  BY DEF CellOf
<1> HIDE DEF base
<1> QED BY <1>3, <1>4 DEF base

\* A run of n positions from at on has the cells of that head and no others.
LEMMA CellRun ==
    ASSUME NEW l \in Layers, NEW h \in Heads, NEW r \in 0..(Capacity - 1),
           NEW m \in Layers, NEW g \in Heads, NEW at \in Nat, NEW n \in Nat,
           at + n <= Capacity,
           CellOf(l, h, r) \in CellOf(m, g, at)..(CellOf(m, g, at) + n - 1)
    PROVE  l = m /\ h = g /\ r \in at..(at + n - 1)
<1>1. /\ CellOf(m, g, 0) \in Nat /\ CellOf(m, g, at) = CellOf(m, g, 0) + at
      /\ CellOf(l, h, 0) \in Nat /\ CellOf(l, h, r) = CellOf(l, h, 0) + r
  BY CellOffset
<1>2. PICK q \in 0..(n - 1) : CellOf(l, h, r) = CellOf(m, g, at) + q
  <2>1. CellOf(l, h, r) - CellOf(m, g, at) \in 0..(n - 1)
    BY <1>1
  <2> QED BY <2>1, <1>1
<1>3. at + q \in 0..(Capacity - 1) /\ at + q \in at..(at + n - 1) /\ at + q \in Nat
  BY KvShapeAssumption
<1>4. CellOf(l, h, r) = CellOf(m, g, at + q)
  <2>1. CellOf(m, g, at + q) = CellOf(m, g, 0) + (at + q)
    BY <1>3, CellOffset
  <2> QED BY <2>1, <1>1, <1>2
<1>5. l = m /\ h = g /\ r = at + q
  BY <1>3, <1>4, CellInjective
<1> QED BY <1>3, <1>5
=============================================================================
