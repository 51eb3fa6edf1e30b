---- MODULE TiledGemm ----
(***************************************************************************)
(* The shared-memory tiled matrix products: plain, transposed-B, batched   *)
(* and BF16 with F32 accumulation.  A tile element is the address it was   *)
(* loaded from, or zero outside the matrix; an accumulator is the set of   *)
(* address pairs multiplied into it.                                       *)
(***************************************************************************)
EXTENDS ThreadBlock, Integers

CONSTANTS
  TileSide,     \* blockDim.x = blockDim.y
  GemmShapes,   \* triples <<m, n, k>>
  Batches       \* products in a batched launch

ASSUME GemmAssumption ==
  /\ TileSide \in Nat \ {0} /\ Batches \in Nat \ {0}
  /\ \A s \in GemmShapes : \A i \in 1 .. 3 : s[i] \in Nat \ {0}

VARIABLES
  mm,        \* the launch: shape, block indices, transposed-B flag
  tileA, tileB,  \* shared tiles
  value,     \* per lane accumulator
  product    \* output addresses written so far, with what was written

gemmVars == <<mm, tileA, tileB, value, product>>
Zero == -1   \* no address
Tx(l) == l % TileSide
Ty(l) == l \div TileSide
GRow(l) == mm.bx * TileSide + Ty(l)
GCol(l) == mm.by * TileSide + Tx(l)

\* Row-major addresses; a batch is a whole packed matrix further on.
AAddress(g, r, e) == g.batch * g.m * g.k + r * g.k + e
PlainB(g, e, c) == g.batch * g.k * g.n + e * g.n + c
\* B is stored (n x k): B^T[e][col] = B[col][e].
TransposedB(g, e, c) == g.batch * g.n * g.k + c * g.k + e
BAddress(g, e, c) == IF g.nt THEN TransposedB(g, e, c) ELSE PlainB(g, e, c)
OutAddress(g, r, c) == g.batch * g.m * g.n + r * g.n + c

GStep(name, start) == [op |-> name, start |-> start]
WithoutTrailingBarrier(start) ==
  <<GStep("loadTiles", start), [op |-> "sync"], GStep("multiply", start)>>
GemmTile(start) ==
  <<GStep("loadTiles", start), [op |-> "sync"], GStep("multiply", start), [op |-> "sync"]>>
GemmText(k) ==
  LET tiles == (k + TileSide - 1) \div TileSide
      n == Len(GemmTile(0))
  IN [i \in 1 .. tiles * n |-> GemmTile(((i - 1) \div n) * TileSide)[((i - 1) % n) + 1]]
       \o <<GStep("storeProduct", 0)>>
\* The four F32 kernels and their BF16 counterparts: transposed B or not, one
\* product or one per gridDim.z layer.
Variants ==
  [gemm |-> <<FALSE, 1>>, gemm_nt |-> <<TRUE, 1>>,
   gemm_batched |-> <<FALSE, Batches>>, gemm_nt_batched |-> <<TRUE, Batches>>]
Bf16Variants ==
  [bf16_gemm |-> <<FALSE, 1>>, bf16_gemm_nt |-> <<TRUE, 1>>,
   bf16_gemm_batched |-> <<FALSE, Batches>>, bf16_gemm_nt_batched |-> <<TRUE, Batches>>]
GemmKernels == DOMAIN Variants \cup DOMAIN Bf16Variants
VariantOf(v) == IF v \in DOMAIN Variants THEN Variants[v] ELSE Bf16Variants[v]

GridSide(extent) == 0 .. ((extent + TileSide - 1) \div TileSide) - 1
GemmInit ==
  \E v \in GemmKernels, s \in GemmShapes :
    /\ \E b \in 0 .. VariantOf(v)[2] - 1, bx \in GridSide(s[1]), by \in GridSide(s[2]) :
         mm = [m |-> s[1], n |-> s[2], k |-> s[3], batch |-> b, bx |-> bx, by |-> by,
               nt |-> VariantOf(v)[1]]
    /\ BlockInit(v, TileSide * TileSide, GemmText(s[3]))
    /\ tileA = [i \in lanes |-> Zero] /\ tileB = [i \in lanes |-> Zero]
    /\ value = [l \in lanes |-> {}]
    /\ product = [l \in lanes |-> {}]
GemmIdle == mm = <<>> /\ tileA = <<>> /\ tileB = <<>> /\ value = <<>> /\ product = <<>>

GDoing(l, name) == Running(l) /\ Instr(l).op = name
Start(l) == Instr(l).start

\* Each lane loads one element of each tile, zero outside the matrices.
LoadTiles(l) ==
  LET ac == Start(l) + Tx(l)
      br == Start(l) + Ty(l)
  IN /\ GDoing(l, "loadTiles")
     /\ tileA' = [tileA EXCEPT ![l] =
          IF GRow(l) < mm.m /\ ac < mm.k THEN AAddress(mm, GRow(l), ac) ELSE Zero]
     /\ tileB' = [tileB EXCEPT ![l] =
          IF br < mm.k /\ GCol(l) < mm.n THEN BAddress(mm, br, GCol(l)) ELSE Zero]
     /\ Execute(l, {}, {<<"a", l>>, <<"b", l>>})
     /\ UNCHANGED <<launchVars, mm, value, product>>

Multiply(l) ==
  LET a(d) == Ty(l) * TileSide + d
      b(d) == d * TileSide + Tx(l)
      D == 0 .. TileSide - 1
  IN /\ GDoing(l, "multiply")
     /\ value' = [value EXCEPT ![l] = @ \cup
          {<<tileA[a(d)], tileB[b(d)]>> : d \in {e \in D : tileA[a(e)] # Zero /\ tileB[b(e)] # Zero}}]
     /\ Execute(l, {<<"a", a(d)>> : d \in D} \cup {<<"b", b(d)>> : d \in D}, {})
     /\ UNCHANGED <<launchVars, mm, tileA, tileB, product>>

\* The lanes inside the matrix store their element.
StoreProduct(l) ==
  /\ GDoing(l, "storeProduct")
  /\ product' = IF GRow(l) < mm.m /\ GCol(l) < mm.n
                THEN [product EXCEPT ![l] = {<<OutAddress(mm, GRow(l), GCol(l)), value[l]>>}]
                ELSE product
  /\ Execute(l, {}, {})
  /\ UNCHANGED <<launchVars, mm, tileA, tileB, value>>

GemmNext == \E l \in lanes : LoadTiles(l) \/ Multiply(l) \/ StoreProduct(l)

-----------------------------------------------------------------------------
\* The reference: row r of A times column c of B (of B^T when transposed), for
\* every element of the block's share of the output and nothing else.
Reference(g, r, c) ==
  <<g.batch * g.m * g.n + r * g.n + c,
    {<<g.batch * g.m * g.k + r * g.k + e,
       IF g.nt THEN g.batch * g.n * g.k + c * g.k + e ELSE g.batch * g.k * g.n + e * g.n + c>>
      : e \in 0 .. g.k - 1}>>
\* A finished block has written exactly its own elements of the product, each
\* the sum over the whole inner dimension of the right elements of A and B.
GemmComplete ==
  Finished /\ kernel \in GemmKernels =>
    UNION {product[l] : l \in lanes} =
      {Reference(mm, rc[1], rc[2]) : rc \in
        {x \in (0 .. mm.m - 1) \X (0 .. mm.n - 1) :
           x[1] \div TileSide = mm.bx /\ x[2] \div TileSide = mm.by}}

====
