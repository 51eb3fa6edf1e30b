----------------------------- MODULE WeightFormats -----------------------------
(***************************************************************************)
(* The reference weight representations of nnis-model: symmetric INT4 and  *)
(* ternary INT2 with one scale per tensor, magnitude-sparse with an        *)
(* occupancy bitmap, and compressed sparse columns.                        *)
(*                                                                         *)
(* A weight is an integer, NonFinite stands for the values is_finite       *)
(* refuses.  F32 rounding is left out: a scale is kept as the largest      *)
(* magnitude it is made of, and a dequantized weight as a multiple of one  *)
(* Levels-th of a source unit.                                             *)
(***************************************************************************)
EXTENDS Integers, Sequences, FiniteSets, FiniteSetsExt

CONSTANT NonFinite      \* a word that is no number

Abs(v) == IF v < 0 THEN -v ELSE v
Finite(vals) == \A i \in DOMAIN vals : vals[i] # NonFinite
Largest(vals) == Max({Abs(vals[i]) : i \in DOMAIN vals})

\* f32::round of num / den: to the nearest integer, halves away from zero.
Round(num, den) ==
  (IF num < 0 THEN -1 ELSE 1) * ((2 * Abs(num) + den) \div (2 * den))
Clamp(v, bound) == IF v > bound THEN bound ELSE IF v < -bound THEN -bound ELSE v

\* --- Fields packed low bits first, eight bits to a byte ---------------------
PerByte(width) == 8 \div width
PayloadLen(n, width) == (n + PerByte(width) - 1) \div PerByte(width)
\* Mutant: the first field of a byte goes to its high bits.
PackHighFirst(fields, width) ==
  [b \in 1..PayloadLen(Len(fields), width) |->
     LET at(j) == (b - 1) * PerByte(width) + j + 1
     IN MapThenSumSet(LAMBDA j : IF at(j) <= Len(fields)
                                 THEN fields[at(j)] * 2^(width * (PerByte(width) - 1 - j)) ELSE 0,
                      0..PerByte(width) - 1)]
Pack(fields, width) ==
  [b \in 1..PayloadLen(Len(fields), width) |->
     LET at(j) == (b - 1) * PerByte(width) + j + 1
     IN MapThenSumSet(LAMBDA j : IF at(j) <= Len(fields) THEN fields[at(j)] * 2^(width * j) ELSE 0,
                      0..PerByte(width) - 1)]
\* Field i, from 0.
Field(bytes, width, i) ==
  (bytes[(i \div PerByte(width)) + 1] \div 2^(width * (i % PerByte(width)))) % 2^width

\* --- INT4: codes -7..7 in a nibble, scale = largest / 7 ---------------------
Int4Valid(q) ==
  /\ q.count > 0 /\ Len(q.bytes) = PayloadLen(q.count, 4)
  /\ \A i \in 0..q.count - 1 : Field(q.bytes, 4, i) # 8
\* Mutant: the quotient is truncated, as an `as i8` cast would do.
Int4CodeTruncated(v, peak) ==
  IF peak = 0 THEN 0 ELSE (IF v < 0 THEN -1 ELSE 1) * ((7 * Abs(v)) \div peak)
Int4Code(v, peak) == IF peak = 0 THEN 0 ELSE Clamp(Round(7 * v, peak), 7)
Int4Quantize(vals) ==
  LET peak == Largest(vals)
      codes == [i \in DOMAIN vals |-> Int4Code(vals[i], peak)]
  IN [count |-> Len(vals), peak |-> peak,
      bytes |-> Pack([i \in DOMAIN codes |-> codes[i] % 16], 4),
      error |-> Max({Abs(7 * vals[i] - codes[i] * peak) : i \in DOMAIN vals})]
\* Code of element i, from 0.
Int4Level(q, i) ==
  LET nibble == Field(q.bytes, 4, i) IN IF nibble >= 8 THEN nibble - 16 ELSE nibble
Int4Dequantize(q) == [i \in 1..q.count |-> Int4Level(q, i - 1) * q.peak]

\* --- INT2: codes zero, positive, negative; scale = largest ------------------
Int2Valid(q) ==
  /\ q.count > 0 /\ Len(q.bytes) = PayloadLen(q.count, 2)
  /\ \A i \in 0..q.count - 1 : Field(q.bytes, 2, i) # 3
\* Mutant: half of the scale rounds to zero.
Int2CodeStrict(v, peak) == IF 2 * v > peak THEN 1 ELSE IF 2 * v < -peak THEN 2 ELSE 0
\* value >= scale / 2, value <= -scale / 2; the scale of an all-zero tensor is 1.
Int2Code(v, peak) ==
  LET scale == IF peak = 0 THEN 1 ELSE peak
  IN IF 2 * v >= scale THEN 1 ELSE IF 2 * v <= -scale THEN 2 ELSE 0
Int2Level(q, i) == LET code == Field(q.bytes, 2, i) IN IF code = 2 THEN -1 ELSE code
Int2Quantize(vals) ==
  LET peak == Largest(vals)
      codes == [i \in DOMAIN vals |-> Int2Code(vals[i], peak)]
  IN [count |-> Len(vals), peak |-> peak, bytes |-> Pack(codes, 2),
      error |-> Max({Abs(vals[i] - (IF codes[i] = 2 THEN -1 ELSE codes[i]) * peak) : i \in DOMAIN vals})]
Int2Dequantize(q) == [i \in 1..q.count |-> Int2Level(q, i - 1) * q.peak]

\* --- Sparse: a bit per element, and the elements above the threshold -------
Occupied(s) == {i \in 0..s.count - 1 : Field(s.bytes, 1, i) = 1}
SparseValid(s) ==
  /\ s.count > 0 /\ Finite(s.kept) /\ Len(s.bytes) = PayloadLen(s.count, 1)
  /\ Cardinality(Occupied(s)) = Len(s.kept)
  /\ s.count % 8 # 0 => s.bytes[Len(s.bytes)] < 2^(s.count % 8)
Sparsify(vals, threshold) ==
  LET keeps(i) == Abs(vals[i]) > threshold
      lost == {Abs(vals[i]) : i \in {j \in DOMAIN vals : ~keeps(j)}}
  IN [count |-> Len(vals), threshold |-> threshold,
      bytes |-> Pack([i \in DOMAIN vals |-> IF keeps(i) THEN 1 ELSE 0], 1),
      kept |-> SelectSeq(vals, LAMBDA v : Abs(v) > threshold),
      error |-> Max({0} \cup lost)]
\* The occupied elements take the retained values in order.
Densify(s) ==
  [i \in 1..s.count |->
     IF i - 1 \in Occupied(s) THEN s.kept[Cardinality({o \in Occupied(s) : o < i})] ELSE 0]

\* --- Compressed sparse columns of a rows x cols matrix ----------------------
CscShape(vals, rows, cols) == rows > 0 /\ cols > 0 /\ Len(vals) = rows * cols /\ Finite(vals)
\* Rows of column c that are kept; column by column, a column's rows ascending.
KeptRows(vals, rows, cols, threshold, c) ==
  {r \in 0..rows - 1 : Abs(vals[(r * cols) + c + 1]) > threshold}
CscOf(vals, rows, cols, threshold) ==
  LET column(c) == KeptRows(vals, rows, cols, threshold, c)
      offset(c) == MapThenSumSet(LAMBDA d : Cardinality(column(d)), 0..c - 1)
      \* Entry e, from 1: its column, and the row with as many kept rows below.
      col(e) == CHOOSE c \in 0..cols - 1 : offset(c) < e /\ e <= offset(c + 1)
      row(e) == CHOOSE r \in column(col(e)) :
                  Cardinality({s \in column(col(e)) : s < r}) = e - offset(col(e)) - 1
  IN [rows |-> rows, cols |-> cols,
      offsets |-> [c \in 1..cols + 1 |-> offset(c - 1)],
      indices |-> [e \in 1..offset(cols) |-> row(e)],
      values |-> [e \in 1..offset(cols) |-> vals[(row(e) * cols) + col(e) + 1]]]
CscValid(m) ==
  /\ m.rows > 0 /\ m.cols > 0 /\ Len(m.offsets) = m.cols + 1 /\ Len(m.indices) = Len(m.values)
  /\ m.offsets[1] = 0 /\ m.offsets[m.cols + 1] = Len(m.values)
  /\ \A c \in 1..m.cols :
       /\ m.offsets[c] <= m.offsets[c + 1] /\ m.offsets[c + 1] <= Len(m.values)
       /\ \A e \in m.offsets[c] + 1..m.offsets[c + 1] :
            /\ m.indices[e] < m.rows /\ m.values[e] # NonFinite
            /\ e > m.offsets[c] + 1 => m.indices[e - 1] < m.indices[e]
Entries(m, c) == m.offsets[c + 1] + 1..m.offsets[c + 2]
CscDensify(m) ==
  [i \in 1..m.rows * m.cols |->
     LET r == (i - 1) \div m.cols
         hit == {e \in Entries(m, (i - 1) % m.cols) : m.indices[e] = r}
     IN IF hit = {} THEN 0 ELSE m.values[CHOOSE e \in hit : TRUE]]

\* --- Sizes of the canonical serialization ------------------------------------
PackedSerialized(q) == 16 + Len(q.bytes)
SparseSerialized(s) == 24 + Len(s.bytes) + 4 * Len(s.kept)
CscSerialized(m) == 32 + 8 * Len(m.offsets) + 4 * Len(m.indices) + 4 * Len(m.values)

\* --- Projection plans (`current`: every schema and contract string is) --------
PlanValid(p) == p.current /\ p.named /\ p.rows > 0 /\ p.cols > 0 /\ ~p.densifies
Int2PlanValid(p) == PlanValid(p)
CscPlanValid(p) == PlanValid(p)
================================================================================
