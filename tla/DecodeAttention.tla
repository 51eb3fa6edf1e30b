---- MODULE DecodeAttention ----
(***************************************************************************)
(* The single-token attention kernels over the KV cache: one block per     *)
(* query head, lane 0 computing the online-softmax weights and every lane  *)
(* blending its own dimension of the value rows.  A blended value is the   *)
(* set of cache rows that entered it with their own weights.               *)
(***************************************************************************)
EXTENDS ThreadBlock, Integers

CONSTANTS
  DecodeThreads,  \* block sizes
  DecodeRows,     \* numbers of cached rows
  HeadShapes,     \* pairs <<query heads, kv heads>>
  DecodeDim       \* head_dim

ASSUME DecodeAssumption ==
  /\ DecodeThreads \subseteq Nat \ {0} /\ DecodeRows \subseteq Nat \ {0}
  /\ DecodeDim \in Nat \ {0}
  /\ \A s \in HeadShapes : s[1] \in Nat \ {0} /\ s[2] \in Nat \ {0}

VARIABLES
  dec,       \* the launch: query head, heads, rows
  pair,      \* shared: old_weight and new_weight, as the positions they stand for
  weights,   \* shared arrays: weights[p] = positions weighted up to row p
  inverse,   \* shared: positions in the sum that was inverted
  running,   \* lane 0's register: positions in running_sum
  blend,     \* per lane: value rows blended so far
  written    \* destination[lane]

decodeVars == <<dec, pair, weights, inverse, running, blend, written>>

\* Consecutive groups of query heads share a KV head.
KvHead(d) == d.head \div (d.queryHeads \div d.kvHeads)
Cached(d) == {<<KvHead(d), p>> : p \in 0 .. d.rows - 1}
Wait == [op |-> "sync"]
Pos(name, p) == [op |-> name, pos |-> p]
PerRow(steps(_), rows) ==
  LET n == Len(steps(0))
  IN [i \in 1 .. rows * n |-> steps((i - 1) \div n)[((i - 1) % n) + 1]]
EndText == <<Pos("invert", 0), Wait, Pos("finish", 0)>>

\* One thread owns the query head.
SerialText(rows) ==
  LET one(p) == <<Pos("weigh", p), Pos("blend", p)>>
  IN <<Pos("onlyLane0", 0)>> \o PerRow(one, rows) \o <<Pos("invert", 0), Pos("finish", 0)>>
\* Weights through two shared scalars, reused for every row.
ScalarWithoutSecondBarrier(rows) ==
  LET one(p) == <<Pos("weigh", p), Wait, Pos("blend", p)>>
  IN <<Pos("guardDim", 0)>> \o PerRow(one, rows) \o EndText
ParallelValueText(rows) ==
  LET one(p) == <<Pos("weigh", p), Wait, Pos("blend", p), Wait>>
  IN <<Pos("guardDim", 0), Wait>> \o PerRow(one, rows) \o EndText
F16Text(rows) ==
  LET one(p) == <<Pos("weigh", p), Wait, Pos("blend", p), Wait>>
  IN <<Pos("guardDim", 0)>> \o PerRow(one, rows) \o EndText
\* All weights staged in shared arrays by lane 0, one barrier, then blended.
StagedText(rows) ==
  LET weigh(p) == <<Pos("stageWeight", p)>>
      mix(p) == <<Pos("blendStaged", p)>>
  IN <<Pos("guardDim", 0)>> \o PerRow(weigh, rows) \o <<Pos("invert", 0), Wait>>
       \o PerRow(mix, rows) \o <<Pos("finish", 0)>>
\* Scores by several warps, weights by thread 0, values by the first lanes.
ParallelScoreText(rows) ==
  LET score(p) == <<Pos("scoreRow", p)>>
      weigh(p) == <<Pos("weighScore", p)>>
      mix(p) == <<Pos("blendStaged", p)>>
  IN PerRow(score, rows) \o <<Wait>> \o PerRow(weigh, rows) \o <<Pos("invert", 0), Wait, Pos("guardDim", 0)>>
       \o PerRow(mix, rows) \o <<Pos("finish", 0)>>

DecodeTexts(rows) ==
  [decode_f32 |-> SerialText(rows), decode_parallel_value |-> ParallelValueText(rows),
   decode_f16 |-> F16Text(rows), decode_f16_staged |-> StagedText(rows),
   decode_f16_parallel_scores |-> ParallelScoreText(rows)]
DecodeKernels == DOMAIN DecodeTexts(1)

DecodeInit ==
  \E k \in DecodeKernels, size \in DecodeThreads, rows \in DecodeRows, s \in HeadShapes :
    /\ s[1] % s[2] = 0
    /\ \E h \in 0 .. s[1] - 1 : dec = [head |-> h, queryHeads |-> s[1], kvHeads |-> s[2], rows |-> rows]
    /\ k # "decode_f32" => size >= DecodeDim
    /\ BlockInit(k, size, DecodeTexts(rows)[k])
    /\ pair = [old |-> {}, new |-> {}] /\ weights = [p \in 0 .. rows - 1 |-> {}]
    /\ inverse = {} /\ running = {}
    /\ blend = [l \in 0 .. size - 1 |-> {}]
    /\ written = [l \in 0 .. size - 1 |-> {}]
DecodeIdle ==
  dec = <<>> /\ pair = <<>> /\ weights = <<>> /\ inverse = {} /\ running = {} /\ blend = <<>> /\ written = <<>>

Doing(l, name) == Running(l) /\ Instr(l).op = name
P(l) == Instr(l).pos
SoftmaxScalars == {<<"old", 0>>, <<"new", 0>>}
Mixed == {<<-1, -1>>}
Scored(p) == <<KvHead(dec), p>>
Weighted(p) == running \cup {Scored(p)}

\* The lanes past head_dim (or past lane 0) return at once.
GuardLanes(l) ==
  /\ Doing(l, "guardDim") \/ Doing(l, "onlyLane0")
  /\ IF l < (IF Doing(l, "onlyLane0") THEN 1 ELSE DecodeDim) THEN Execute(l, {}, {}) ELSE Leave(l)
  /\ UNCHANGED <<launchVars, decodeVars>>

\* if (lane == 0): score, running maximum and sum, the two weights.
Weigh(l) ==
  /\ Doing(l, "weigh")
  /\ IF l = 0
     THEN /\ pair' = [old |-> running, new |-> {Scored(P(l))}]
          /\ running' = Weighted(P(l))
          /\ Execute(l, {}, SoftmaxScalars)
     ELSE Execute(l, {}, {}) /\ UNCHANGED <<pair, running>>
  /\ UNCHANGED <<launchVars, dec, weights, inverse, blend, written>>

Blend(l) ==
  /\ Doing(l, "blend")
  /\ blend' = [blend EXCEPT ![l] =
       IF pair.old = @ /\ pair.new = {Scored(P(l))} THEN @ \cup pair.new ELSE Mixed]
  /\ Execute(l, SoftmaxScalars, {})
  /\ UNCHANGED <<launchVars, dec, pair, weights, inverse, running, written>>

StageWeight(l) ==
  /\ Doing(l, "stageWeight") \/ Doing(l, "weighScore")
  /\ IF l = 0 /\ (Doing(l, "weighScore") => weights[P(l)] = {Scored(P(l))})
     THEN /\ weights' = [weights EXCEPT ![P(l)] = Weighted(P(l))]
          /\ running' = Weighted(P(l))
          /\ Execute(l, IF Doing(l, "weighScore") THEN {<<"score", P(l)>>} ELSE {}, {<<"weight", P(l)>>})
     ELSE Execute(l, {}, {}) /\ UNCHANGED <<weights, running>>
  /\ UNCHANGED <<launchVars, dec, pair, inverse, blend, written>>

\* pos = warp; pos += warp_count: the leader of each warp stores the score.
ScoreRow(l) ==
  /\ Doing(l, "scoreRow")
  /\ IF P(l) % Cardinality(lanes) = l
     THEN weights' = [weights EXCEPT ![P(l)] = {Scored(P(l))}] /\ Execute(l, {}, {<<"score", P(l)>>})
     ELSE Execute(l, {}, {}) /\ UNCHANGED weights
  /\ UNCHANGED <<launchVars, dec, pair, inverse, running, blend, written>>

BlendStaged(l) ==
  /\ Doing(l, "blendStaged")
  /\ blend' = [blend EXCEPT ![l] =
       IF weights[P(l)] = @ \cup {Scored(P(l))} THEN weights[P(l)] ELSE Mixed]
  /\ Execute(l, {<<"weight", P(l)>>}, {})
  /\ UNCHANGED <<launchVars, dec, pair, weights, inverse, running, written>>

Invert(l) ==
  /\ Doing(l, "invert")
  /\ IF l = 0 THEN inverse' = running /\ Execute(l, {}, {<<"inverse", 0>>})
     ELSE Execute(l, {}, {}) /\ UNCHANGED inverse
  /\ UNCHANGED <<launchVars, dec, pair, weights, running, blend, written>>

Finish(l) ==
  /\ Doing(l, "finish")
  /\ written' = [written EXCEPT ![l] = IF inverse = blend[l] THEN inverse ELSE Mixed]
  /\ Execute(l, {<<"inverse", 0>>}, {})
  /\ UNCHANGED <<launchVars, dec, pair, weights, inverse, running, blend>>

DecodeNext ==
  \E l \in lanes : GuardLanes(l) \/ Weigh(l) \/ Blend(l) \/ StageWeight(l) \/ ScoreRow(l)
                    \/ BlendStaged(l) \/ Invert(l) \/ Finish(l)

-----------------------------------------------------------------------------
\* A finished decode kernel has written, in each dimension it owns, the mean of
\* all cached rows of the right KV head, each weighted once, and every lane used
\* the weights that lane 0 made for the row it was blending.
DecodeComplete ==
  Finished /\ kernel \in DecodeKernels =>
    \A l \in lanes : written[l] =
      IF l < (IF kernel = "decode_f32" THEN 1 ELSE DecodeDim) THEN Cached(dec) ELSE {}

====
