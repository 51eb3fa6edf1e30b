---- MODULE FusedAttention ----
(***************************************************************************)
(* The fused attention kernels: one block streams the key/value rows of    *)
(* one (head, query row) pair through shared memory, a chunk of blockDim.x *)
(* keys at a time, with a running maximum and a running sum.  A number is  *)
(* the set of keys it stands for: a maximum over keys, a sum of weights    *)
(* taken relative to such a maximum (its peak).                            *)
(***************************************************************************)
EXTENDS ThreadBlock, Integers, TLC

CONSTANTS
  AttnThreads,     \* block sizes the loader accepts
  KvRows,      \* numbers of key/value rows
  QueryRows,   \* query rows per head, a number
  AttnHeads,   \* heads, a number
  HeadDim, ValueDim

ASSUME AttentionAssumption ==
  /\ AttnThreads \subseteq Nat \ {0} /\ KvRows \subseteq Nat \ {0}
  /\ {QueryRows, AttnHeads, HeadDim, ValueDim} \subseteq Nat \ {0}

VARIABLES
  work,      \* the launch: block index, kv rows, causal flag
  kTile, vTile, scores, scratch, acc,   \* shared memory
  score,     \* per lane: the score of its key in this chunk
  peak,      \* per lane: running_max
  total,     \* per lane: running_sum
  result     \* output[row]

attnVars == <<work, kTile, vTile, scores, scratch, acc, score, peak, total, result>>

Width == Cardinality(lanes)
NoKey == <<-1, -1>>
Corrupt == {<<-2, -2>>}
\* One block owns one (head, query row) pair of the packed layout.
HeadOf(b) == b \div QueryRows
RowOf(b) == b % QueryRows
Key(b, k) == <<HeadOf(b), k>>
InCache(w, k) == k < w.rows
Unmasked(w, k) == k < w.rows /\ (~w.causal \/ k <= RowOf(w.block))
\* AttentionMask: query row i attends to the keys j <= i when causal, else to all.
Attended(w) ==
  {<<w.block \div QueryRows, k>> : k \in
    {j \in 0 .. w.rows - 1 : w.causal => j <= w.block % QueryRows}}
OwnDims(l, n) == {c \in 0 .. n - 1 : c % Width = l}

Barrier0 == [op |-> "sync"]
At(name, base) == [op |-> name, base |-> base]
AttnTree(size, base) ==
  LET levels == Cardinality({e \in 1 .. 5 : size \div (2 ^ e) > 0})
  IN [i \in 1 .. 2 * levels |->
       IF i % 2 = 0 THEN Barrier0
       ELSE [op |-> "attnTree", base |-> base, stride |-> size \div (2 ^ ((i + 1) \div 2))]]

\* One iteration of the loop over chunks.
Chunk(size, base) ==
  <<At("loadTile", base), Barrier0, At("score", base), Barrier0>> \o AttnTree(size, base)
    \o <<At("takePeak", base), At("publish", base), Barrier0>> \o AttnTree(size, base)
    \o <<At("takeSum", base), Barrier0, At("accumulate", base), Barrier0>>
Chunks(size, rows) ==
  LET n == (rows + size - 1) \div size
      c == Len(Chunk(size, 0))
  IN [i \in 1 .. n * c |-> Chunk(size, ((i - 1) \div c) * size)[((i - 1) % c) + 1]]
FusedText(size, rows) ==
  <<At("loadQuery", 0)>> \o Chunks(size, rows) \o <<At("emitAttention", 0)>>

\* The single-head, multi-head and BF16 kernels share this text; the BF16 ones
\* widen on load and narrow on the final store.
FusedKernels == {"attention_fused", "attention_fused_multihead",
                 "attention_fused_bf16", "attention_fused_multihead_bf16"}
BlocksOf(k) ==
  IF k \in {"attention_fused", "attention_fused_bf16"} THEN 0 .. QueryRows - 1
  ELSE 0 .. AttnHeads * QueryRows - 1

AttnInit ==
  \E k \in FusedKernels, size \in AttnThreads, rows \in KvRows, causal \in BOOLEAN :
    /\ causal => rows = QueryRows
    /\ \E b \in BlocksOf(k) : work = [block |-> b, rows |-> rows, causal |-> causal]
    /\ BlockInit(k, size, FusedText(size, rows))
    /\ kTile = [i \in 0 .. size * HeadDim - 1 |-> NoKey]
    /\ vTile = [i \in 0 .. size * ValueDim - 1 |-> NoKey]
    /\ scores = [l \in 0 .. size - 1 |-> [of |-> "none", keys |-> {}, peak |-> {}]]
    /\ scratch = scores
    /\ acc = [c \in 0 .. ValueDim - 1 |-> [keys |-> Corrupt, peak |-> {}]]
    /\ score = [l \in 0 .. size - 1 |-> {}]
    /\ peak = [l \in 0 .. size - 1 |-> {}]
    /\ total = [l \in 0 .. size - 1 |-> [keys |-> {}, peak |-> {}]]
    /\ result = <<>>
AttnIdle ==
  /\ work = <<>> /\ kTile = <<>> /\ vTile = <<>> /\ scores = <<>> /\ scratch = <<>>
  /\ acc = <<>> /\ score = <<>> /\ peak = <<>> /\ total = <<>> /\ result = <<>>

On(l, name) == Running(l) /\ Instr(l).op = name
Base(l) == Instr(l).base

\* q_sh and the zeroed accumulator.
LoadQuery(l) ==
  /\ On(l, "loadQuery")
  /\ acc' = [c \in DOMAIN acc |->
              IF c \in OwnDims(l, ValueDim) THEN [keys |-> {}, peak |-> {}] ELSE acc[c]]
  /\ Execute(l, {}, {<<"q", i>> : i \in OwnDims(l, HeadDim)}
                      \cup {<<"acc", c>> : c \in OwnDims(l, ValueDim)})
  /\ UNCHANGED <<launchVars, work, kTile, vTile, scores, scratch, score, peak, total, result>>

\* Row r of the tile is key base + r, or zeros past the end.
TileRow(l, r) == IF Base(l) + r < work.rows THEN Key(work.block, Base(l) + r) ELSE NoKey
LoadTile(l) ==
  LET ks == {i \in DOMAIN kTile : i % Width = l}
      vs == {i \in DOMAIN vTile : i % Width = l}
  IN /\ On(l, "loadTile")
     /\ kTile' = [i \in DOMAIN kTile |-> IF i \in ks THEN TileRow(l, i \div HeadDim) ELSE kTile[i]]
     /\ vTile' = [i \in DOMAIN vTile |-> IF i \in vs THEN TileRow(l, i \div ValueDim) ELSE vTile[i]]
     /\ Execute(l, {}, {<<"k", i>> : i \in ks} \cup {<<"v", i>> : i \in vs})
     /\ UNCHANGED <<launchVars, work, scores, scratch, acc, score, peak, total, result>>

ScoreKey(l) ==
  LET row == {l * HeadDim + e : e \in 0 .. HeadDim - 1}
      k == Base(l) + l
      s == IF ~Unmasked(work, k) THEN {}
           ELSE IF \A i \in row : kTile[i] = Key(work.block, k) THEN {Key(work.block, k)}
           ELSE Corrupt
  IN /\ On(l, "score")
     /\ score' = [score EXCEPT ![l] = s]
     /\ scores' = [scores EXCEPT ![l] = [of |-> "score", keys |-> s, peak |-> {}]]
     /\ scratch' = [scratch EXCEPT ![l] = [of |-> "score", keys |-> s, peak |-> {}]]
     /\ Execute(l, {<<"k", i>> : i \in row} \cup {<<"q", i>> : i \in 0 .. HeadDim - 1},
                {<<"scores", l>>, <<"scratch", l>>})
     /\ UNCHANGED <<launchVars, work, kTile, vTile, acc, peak, total, result>>

\* Combining two partial maxima, or two partial sums over one peak.
Combine(a, b) ==
  IF a.of = b.of /\ a.peak = b.peak /\ a.keys \cap b.keys = {}
  THEN [a EXCEPT !.keys = @ \cup b.keys]
  ELSE [a EXCEPT !.keys = Corrupt]
AttnTreeStep(l) ==
  /\ On(l, "attnTree")
  /\ LET s == Instr(l).stride IN
     IF l < s
     THEN /\ scratch' = [scratch EXCEPT ![l] = Combine(scratch[l], scratch[l + s])]
          /\ Execute(l, {<<"scratch", l>>, <<"scratch", l + s>>}, {<<"scratch", l>>})
     ELSE Execute(l, {}, {}) /\ UNCHANGED scratch
  /\ UNCHANGED <<launchVars, work, kTile, vTile, scores, acc, score, peak, total, result>>

\* new_max = fmaxf(running_max, scratch[0])
TakePeak(l) ==
  /\ On(l, "takePeak")
  /\ peak' = [peak EXCEPT ![l] =
               IF scratch[0].of = "score" THEN @ \cup scratch[0].keys ELSE Corrupt]
  /\ Execute(l, {<<"scratch", 0>>}, {})
  /\ UNCHANGED <<launchVars, work, kTile, vTile, scores, scratch, acc, score, total, result>>

\* scores[tid] = scratch[tid] = expf(score - new_max), with no barrier since
\* every lane read scratch[0].
Publish(l) ==
  LET w == [of |-> "weight", keys |-> score[l], peak |-> peak[l]]
  IN /\ On(l, "publish")
     /\ scores' = [scores EXCEPT ![l] = w]
     /\ scratch' = [scratch EXCEPT ![l] = w]
     /\ Execute(l, {}, {<<"scores", l>>, <<"scratch", l>>})
     /\ UNCHANGED <<launchVars, work, kTile, vTile, acc, score, peak, total, result>>

\* running_sum = running_sum * rescale + scratch[0]; the lane's accumulator
\* columns are rescaled to the new maximum too.
TakeSum(l) ==
  /\ On(l, "takeSum")
  /\ total' = [total EXCEPT ![l] =
       [keys |-> IF scratch[0].of = "weight" /\ scratch[0].peak = peak[l]
                 THEN @.keys \cup scratch[0].keys ELSE Corrupt,
        peak |-> peak[l]]]
  /\ acc' = [c \in DOMAIN acc |->
              IF c \in OwnDims(l, ValueDim) THEN [acc[c] EXCEPT !.peak = peak[l]] ELSE acc[c]]
  /\ Execute(l, {<<"scratch", 0>>} \cup {<<"acc", c>> : c \in OwnDims(l, ValueDim)},
             {<<"acc", c>> : c \in OwnDims(l, ValueDim)})
  /\ UNCHANGED <<launchVars, work, kTile, vTile, scores, scratch, score, peak, result>>

\* acc[c] += scores[t] * v_tile[t][c] over the chunk.
Added(c, a) ==
  IF \A t \in lanes : \/ scores[t].keys = {}
                      \/ /\ scores[t].of = "weight" /\ scores[t].peak = a.peak
                         /\ scores[t].keys = {vTile[t * ValueDim + c]}
  THEN [a EXCEPT !.keys = @ \cup UNION {scores[t].keys : t \in lanes}]
  ELSE [a EXCEPT !.keys = Corrupt]
Accumulate(l) ==
  LET mine == OwnDims(l, ValueDim)
  IN /\ On(l, "accumulate")
     /\ acc' = [c \in DOMAIN acc |-> IF c \in mine THEN Added(c, acc[c]) ELSE acc[c]]
     /\ Execute(l, {<<"acc", c>> : c \in mine} \cup {<<"scores", t>> : t \in lanes}
                     \cup {<<"v", t * ValueDim + c>> : t \in lanes, c \in mine},
                {<<"acc", c>> : c \in mine})
     /\ UNCHANGED <<launchVars, work, kTile, vTile, scores, scratch, score, peak, total, result>>

\* output[row][c] = acc[c] / running_sum
EmitAttention(l) ==
  LET mine == OwnDims(l, ValueDim)
  IN /\ On(l, "emitAttention")
     /\ result' = [c \in mine |-> [over |-> acc[c], by |-> total[l]]] @@ result
     /\ Execute(l, {<<"acc", c>> : c \in mine}, {})
     /\ UNCHANGED <<launchVars, work, kTile, vTile, scores, scratch, acc, score, peak, total>>

AttnNext ==
  \E l \in lanes : LoadQuery(l) \/ LoadTile(l) \/ ScoreKey(l) \/ AttnTreeStep(l) \/ TakePeak(l)
                    \/ Publish(l) \/ TakeSum(l) \/ Accumulate(l) \/ EmitAttention(l)

-----------------------------------------------------------------------------
\* Every output column is the weighted mean of the value rows of exactly the
\* attended keys, numerator and denominator relative to one maximum.
OutputIsAttention ==
  Finished /\ kernel \in FusedKernels =>
    \A c \in 0 .. ValueDim - 1 :
      /\ result[c].over.keys = Attended(work) /\ result[c].by.keys = Attended(work)
      /\ result[c].over.peak = result[c].by.peak

\* No masked key, and no key of another head, is ever part of an accumulator.
OnlyAttended ==
  kernel \in FusedKernels =>
    \A c \in DOMAIN acc : acc[c].keys \subseteq Attended(work) \cup Corrupt

====
