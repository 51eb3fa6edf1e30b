------------------------------ MODULE PortableFp4 ------------------------------
(***************************************************************************)
(* FP4 E2M1 storage of KV rows: layout (nnis-core kv_fp4.rs), the encoder  *)
(* and decoder of the CPU (nnis-cpu fp4_kv.rs), the integer decoder of the *)
(* WGPU backend (nnis-wgpu fp4.rs) and the session's shadow of a dense     *)
(* cache (nnis-cpu kv_fp4_shadow.rs).                                      *)
(*                                                                         *)
(* f32 is narrowed to MantissaBits and exponents 0..LastExponent and is    *)
(* written as its bits, sign apart; a magnitude is a natural number of     *)
(* smallest subnormals.  f64 products and quotients of so few bits are     *)
(* exact, so comparisons are cross-multiplied.                             *)
(***************************************************************************)
EXTENDS Integers, Sequences, FiniteSets, SequencesExt, FiniteSetsExt

CONSTANTS
  RowWidthFp4, GroupSize, MaxRows,   \* shape of the encoded rows
  RowSamples,    \* rows (sign and bits of every value) that are committed
  ShadowLayers   \* layers of the cache that is shadowed

VARIABLES
  dense,    \* committed rows of every layer
  shadowed, \* the shadow: rows it says it has, codes and scales per layer
  scaling,  \* scale encoding of the mode: "f32" or "e8m0"
  loose,    \* a block made from_parts: codes, scales and shape; or NoBlock
  synced    \* outcome of the last sync

fp4Vars == <<dense, shadowed, scaling, loose, synced>>

MantissaBits == 2
LastExponent == 3
Hidden == 2 ^ MantissaBits
Infinite == Hidden * (LastExponent + 1)      \* bits of the infinity
FiniteBits == 0..Infinite - 1
\* Value of bits, in smallest subnormals.
Magnitude(bits) ==
  IF bits < Hidden THEN bits ELSE (Hidden + (bits % Hidden)) * 2 ^ (bits \div Hidden - 1)

\* Nearest bits to the fraction n/d, ties to the even one: an f32 rounding.
Nearest(n, d) ==
  LET below == Max({b \in FiniteBits : Magnitude(b) * d <= n})
      gap == 2 * n - d * (Magnitude(below) + Magnitude(below + 1))
  IN IF gap > 0 \/ (gap = 0 /\ below % 2 = 1) THEN below + 1 ELSE below

\* --- Layout --------------------------------------------------------------
Halves == <<0, 1, 2, 3, 4, 6, 8, 12>>     \* FP4_E2M1_MAGNITUDES, in halves
GroupsPerRow(w, g) == (w + g - 1) \div g
Padded(w, g) == GroupsPerRow(w, g) * g
LayoutValid(rows, w, g) == rows # 0 /\ w # 0 /\ g # 0 /\ g % 2 = 0

\* --- Scales --------------------------------------------------------------
\* A scale is stored in f32 bits or as the exponent of a power of two, the least
\* of which is half of the smallest normal number; the last byte is no scale.
LastByte == LastExponent + 1
ScaleValid(enc, s) == IF enc = "f32" THEN s \in FiniteBits ELSE s \in 0..LastByte - 1
ScaleOf(enc, s) == IF enc = "f32" THEN Magnitude(s) ELSE 2 ^ (MantissaBits - 1 + s)

\* Mutant: a tiny amax underflows to the scale zero.
ScaleUnderflows(enc, amax) ==
  IF enc = "f32" THEN Nearest(amax, 6)
  ELSE IF \E s \in 0..LastByte - 1 : 6 * ScaleOf(enc, s) >= amax
       THEN Min({s \in 0..LastByte - 1 : 6 * ScaleOf(enc, s) >= amax}) ELSE LastByte
\* choose_scale: a sixth of the greatest magnitude, or the least power of two
\* that reaches it; LastByte stands for DecodeOverflow.
ChooseScale(enc, amax) ==
  IF enc = "f32"
  THEN IF amax > 0 /\ Nearest(amax, 6) = 0 THEN 1 ELSE Nearest(amax, 6)
  ELSE IF \E s \in 0..LastByte - 1 : 6 * ScaleOf(enc, s) >= amax
       THEN Min({s \in 0..LastByte - 1 : 6 * ScaleOf(enc, s) >= amax}) ELSE LastByte

\* Mutant: a tie always goes up.
QuantizeUp(mag, scale) ==
  IF scale = 0 THEN 0
  ELSE IF 2 * mag >= 12 * scale THEN 7
  ELSE LET i == Min({j \in 1..7 : 2 * mag < Halves[j + 1] * scale})
       IN IF 4 * mag < (Halves[i] + Halves[i + 1]) * scale THEN i - 1 ELSE i
\* quantize, without the sign: the magnitude below or above, the even code on a tie.
Quantize(mag, scale) ==
  IF scale = 0 THEN 0
  ELSE IF 2 * mag >= 12 * scale THEN 7
  ELSE LET i == Min({j \in 1..7 : 2 * mag < Halves[j + 1] * scale})
           mid == (Halves[i] + Halves[i + 1]) * scale
       IN IF 4 * mag < mid \/ (4 * mag = mid /\ (i - 1) % 2 = 0) THEN i - 1 ELSE i

\* --- CPU block -----------------------------------------------------------
Code(sign, code) == sign * 8 + code
DecodeCode(code, scale) == <<code \div 8, Nearest(Halves[(code % 8) + 1] * scale, 2)>>

\* One row: scales per group and a code per padded position.
EncodeRow(enc, row, g) ==
  LET w == Len(row)
      amax(k) == Max({0} \cup {Magnitude(row[p][2]) : p \in {q \in 1..w : (q - 1) \div g = k - 1}})
      scales == [k \in 1..GroupsPerRow(w, g) |-> ChooseScale(enc, amax(k))]
  IN [scales |-> scales,
      codes |-> [p \in 1..Padded(w, g) |->
                   IF p > w \/ ~ScaleValid(enc, scales[(p - 1) \div g + 1]) THEN 0
                   ELSE Code(row[p][1], Quantize(Magnitude(row[p][2]), ScaleOf(enc, scales[(p - 1) \div g + 1])))]]

\* Accepted as parts: scales are scales, padding is zero, and everything decodes
\* to a finite value.
PartsAccepted(enc, rows, w, g) ==
  \A r \in DOMAIN rows :
    \A p \in 1..Padded(w, g) :
      IF p > w THEN rows[r].codes[p] = 0
      ELSE /\ ScaleValid(enc, rows[r].scales[(p - 1) \div g + 1])
           /\ DecodeCode(rows[r].codes[p], ScaleOf(enc, rows[r].scales[(p - 1) \div g + 1]))[2] # Infinite
DecodeRows(enc, rows, w, g) ==
  [r \in DOMAIN rows |->
     [p \in 1..w |-> DecodeCode(rows[r].codes[p], ScaleOf(enc, rows[r].scales[(p - 1) \div g + 1]))]]

\* --- WGPU decoder --------------------------------------------------------
Log(p) == CHOOSE k \in 0..16 : 2 ^ k <= p /\ p < 2 ^ (k + 1)
\* Mutant: a tie between two normal numbers goes up.
HalfUp(p, s) ==
  LET q == p \div 2 ^ s
      rem == p % 2 ^ s
  IN IF rem >= 2 ^ (s - 1) THEN q + 1 ELSE q
\* p shifted right by s, to nearest, ties to even.
HalfEven(p, s) ==
  LET q == p \div 2 ^ s
      rem == p % 2 ^ s
      half == 2 ^ (s - 1)
  IN IF rem > half \/ (rem = half /\ q % 2 = 1) THEN q + 1 ELSE q
\* round_bits: the bits of p * 2^e in one rounding.
RoundBits(p, e) ==
  IF p = 0 THEN 0
  ELSE LET msb == Log(p)
           shift == msb - MantissaBits
           sig == IF shift <= 0 THEN p * 2 ^ (-shift) ELSE HalfEven(p, shift)
           carry == sig = 2 * Hidden
           x == msb + e + (IF carry THEN 1 ELSE 0)
       IN IF msb + e >= MantissaBits
          THEN IF x > MantissaBits + LastExponent - 1 THEN Infinite
               ELSE (x - MantissaBits + 1) * Hidden + ((IF carry THEN sig \div 2 ELSE sig) % Hidden)
          ELSE IF e >= 0 THEN p * 2 ^ e
          ELSE IF -e >= MantissaBits + 6 THEN 0
          ELSE HalfEven(p, -e)

\* The shader's integer product of code and scale.
ShaderValue(enc, code, s) ==
  LET m == Halves[(code % 8) + 1]
      biased == s \div Hidden
  IN IF enc = "e8m0" THEN RoundBits(m, s + MantissaBits - 2)
     ELSE IF biased = 0 THEN RoundBits(m * (s % Hidden), -1)
     ELSE RoundBits(m * ((s % Hidden) + Hidden), biased - 2)
ShaderDecode(enc, rows, w, g) ==
  [r \in DOMAIN rows |->
     [p \in 1..w |-> <<rows[r].codes[p] \div 8, ShaderValue(enc, rows[r].codes[p], rows[r].scales[(p - 1) \div g + 1])>>]]

\* --- Shadow of a dense cache ---------------------------------------------
NoBlock == [width |-> 0]
EmptyShadow == [length |-> 0, layers |-> [l \in 1..ShadowLayers |-> <<>>]]
Fp4Idle ==
  /\ dense = [l \in 1..ShadowLayers |-> <<>>] /\ shadowed = EmptyShadow /\ scaling = "f32"
  /\ loose = NoBlock /\ synced = "ok"

LooseBlocks ==
  [width : {1}, enc : {"f32"}, code : 0..15, pad : {0, 1}, scale : 0..Infinite]
    \cup [width : {1}, enc : {"e8m0"}, code : 0..15, pad : {0}, scale : 0..LastByte]
Fp4Init ==
  /\ scaling \in {"f32", "e8m0"}
  /\ LayoutValid(1, RowWidthFp4, GroupSize)
  /\ dense = [l \in 1..ShadowLayers |-> <<>>] /\ shadowed = EmptyShadow
  /\ loose \in LooseBlocks \cup {NoBlock} /\ synced = "ok"

RowsOf(block) == <<[codes |-> <<block.code, block.pad>>, scales |-> <<block.scale>>]>>

Encodes(row) ==
  LET e == EncodeRow(scaling, row, GroupSize) IN PartsAccepted(scaling, <<e>>, RowWidthFp4, GroupSize)
EncodeLayer(rows) == [r \in DOMAIN rows |-> EncodeRow(scaling, rows[r], GroupSize)]

\* sync_from_dense encodes layer by layer; a group that would not decode to a
\* finite value stops it with the earlier layers replaced and the old length.
SyncShadow ==
  LET fails == {l \in 1..ShadowLayers : \E r \in DOMAIN dense'[l] : ~Encodes(dense'[l][r])}
  IN /\ synced' = IF fails = {} THEN "ok" ELSE "err"
     /\ shadowed' =
          [length |-> IF fails = {} THEN Len(dense'[1]) ELSE shadowed.length,
           layers |-> [l \in 1..ShadowLayers |->
                         IF fails # {} /\ l >= Min(fails) THEN shadowed.layers[l] ELSE EncodeLayer(dense'[l])]]

\* The cache grows by one row per layer, or is cut, and the shadow follows.
AppendRow(rows) ==
  /\ loose = NoBlock /\ Len(dense[1]) < MaxRows
  /\ dense' = [l \in 1..ShadowLayers |-> Append(dense[l], rows[l])]
  /\ SyncShadow /\ UNCHANGED <<scaling, loose>>
CutRows(n) ==
  /\ loose = NoBlock /\ n < Len(dense[1])
  /\ dense' = [l \in 1..ShadowLayers |-> SubSeq(dense[l], 1, n)]
  /\ SyncShadow /\ UNCHANGED <<scaling, loose>>

Fp4Next ==
  \/ \E row \in RowSamples, first \in 1..ShadowLayers :
       AppendRow([l \in 1..ShadowLayers |-> IF l >= first THEN row ELSE [p \in 1..RowWidthFp4 |-> <<0, 0>>]])
  \/ \E n \in 0..MaxRows : CutRows(n)

\* decode_layer asks for as many rows as the shadow says it has.
DecodesLayer(l) ==
  Len(shadowed.layers[l]) = shadowed.length
    /\ PartsAccepted(scaling, shadowed.layers[l], RowWidthFp4, GroupSize)

-----------------------------------------------------------------------------
\* fp4_kv.rs:36-80, 366-435 and fp4.rs:66-134: a row that encodes decodes, on both
\* backends and for every block accepted as parts, to the same bits; each value
\* becomes a code whose multiple of its group's scale is nearest to it, with its
\* sign, and a value that is not zero never loses the whole group to a zero scale.
\* kv_fp4_shadow.rs:64-140: after a sync that succeeded the shadow holds, and
\* decodes, exactly the committed rows, also when syncs before it failed half way.
Fp4Nearest ==
  /\ loose # NoBlock /\ PartsAccepted(loose.enc, RowsOf(loose), 1, 2) =>
       DecodeRows(loose.enc, RowsOf(loose), 1, 2) = ShaderDecode(loose.enc, RowsOf(loose), 1, 2)
  /\ synced = "ok" => \A l \in 1..ShadowLayers :
       /\ shadowed.length = Len(dense[l]) /\ DecodesLayer(l)
       /\ \A r \in DOMAIN dense[l] :
            LET e == shadowed.layers[l][r]
                nearest(p) ==
                  LET v == Magnitude(dense[l][r][p][2])
                      scale == ScaleOf(scaling, e.scales[(p - 1) \div GroupSize + 1])
                      far(c) == LET x == 2 * v - Halves[c + 1] * scale IN IF x < 0 THEN -x ELSE x
                      code == e.codes[p] % 8
                      even == code % 2 = 0
                  IN /\ e.codes[p] \div 8 = dense[l][r][p][1]
                     /\ v # 0 => scale # 0
                     /\ \A c \in 0..7 : far(code) < far(c) \/ (far(code) = far(c) /\ (c = code \/ scale = 0 \/ even))
            IN /\ DecodeRows(scaling, <<e>>, RowWidthFp4, GroupSize) = ShaderDecode(scaling, <<e>>, RowWidthFp4, GroupSize)
               /\ \A p \in 1..RowWidthFp4 : nearest(p)
================================================================================
