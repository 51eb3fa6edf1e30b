------------------------- MODULE MCRebuildTransition --------------------------
(***************************************************************************)
(* Model-checking instance of the parts of a model's life outside its      *)
(* sessions: its weights are loaded and brought into another               *)
(* representation (WeightStorage), a campaign qualifies representations    *)
(* and issues records about them (WeightEvidence), and a serving owner     *)
(* replaces the plan it executes with (RebuildTransition).  They share no  *)
(* state, so a behaviour explores one of them, with the others at rest.    *)
(***************************************************************************)
EXTENDS RebuildTransition, WeightEvidence

VARIABLE part   \* "weights", "evidence" or "transition"

Symm == Permutations(Plans) \cup Permutations(Clients)

\* --- Checkpoint directories ---------------------------------------------------
Decoder1 ==
  [plain |-> TRUE, silu |-> TRUE, floats |-> TRUE, multi |-> FALSE, dtype |-> "BF16", vocab |-> 3, eos |-> 2,
   hidden |-> 4, inter |-> 3, layers |-> 1, heads |-> 2, kvHeads |-> 1, positions |-> 4, tied |-> FALSE]
F32Decoder == [Decoder1 EXCEPT !.dtype = "F32"]
All == NameSeq(Decoder1)
Whole == [kind |-> "hf", current |-> TRUE, config |-> Decoder1, single |-> "file", index |-> "none", mapped |-> {},
          shards |-> <<"none", "none">>, files |-> 0 :> All @@ 1 :> <<>> @@ 2 :> <<>>, odd |-> <<Extra, "none">>,
          fill |-> "ramp"]
InFirst == <<Embedding, <<"q_proj", 1>>, Head0>>
Sharded == [Whole EXCEPT !.single = "none", !.index = "file", !.mapped = {1, 2}, !.shards = <<"file", "file">>,
            !.files = 0 :> <<>> @@ 1 :> InFirst \o <<Extra>>
                        @@ 2 :> SelectSeq(All, LAMBDA n : n \notin Range(InFirst))]
Tied(d) == [d EXCEPT !.config.tied = TRUE]
Without(d, n) == [d EXCEPT !.files = [s \in DOMAIN @ |-> SelectSeq(@[s], LAMBDA m : m # n)]]
Manifest == [Whole EXCEPT !.kind = "manifest", !.config = F32Decoder]
Good ==
  {[Whole EXCEPT !.fill = f, !.config.dtype = t] : f \in {"ramp", "ties", "zero"}, t \in {"F32", "BF16"}}
    \cup {Sharded, Tied(Without(Sharded, Head0)), Tied(Whole), Tied(Without([Whole EXCEPT !.fill = "ties"], Head0)),
          Manifest, [Manifest EXCEPT !.fill = "ties"], [Manifest EXCEPT !.fill = "even"], [Whole EXCEPT !.fill = "broken"]}
\* Configurations that some check refuses, or that a default completes.
Odds(c) ==
  {[c EXCEPT !.plain = FALSE], [c EXCEPT !.silu = FALSE], [c EXCEPT !.floats = FALSE], [c EXCEPT !.multi = TRUE],
   [c EXCEPT !.dtype = "F16"], [c EXCEPT !.eos = 3], [c EXCEPT !.eos = Absent], [c EXCEPT !.heads = 0],
   [c EXCEPT !.heads = 3], [c EXCEPT !.heads = 4], [c EXCEPT !.kvHeads = Absent], [c EXCEPT !.kvHeads = 0],
   [c EXCEPT !.layers = 0], [c EXCEPT !.layers = 2], [c EXCEPT !.inter = 1]}
Strange ==
  {[Whole EXCEPT !.config = c] : c \in Odds(Decoder1)}
    \cup {[Manifest EXCEPT !.config = c] : c \in {x \in Odds(F32Decoder) : x.kvHeads > 0 /\ x.heads > 0}}
    \cup {[Whole EXCEPT !.single = e, !.index = f] : e, f \in {"file", "none", "other"}}
    \cup {[Sharded EXCEPT !.shards[2] = e] : e \in {"none", "other"}}
    \cup {[Sharded EXCEPT !.mapped = m] : m \in {{}, {1}}}
    \cup {[d EXCEPT !.odd = <<n, w>>] :
            d \in {Whole, Manifest}, n \in {Embedding, Head0, <<"k_proj", 1>>, <<"input_norm", 1>>},
            w \in {"shape", "dtype", "half", "short"}}
    \cup {[Manifest EXCEPT !.files[0] = @ \o <<Embedding>>], [Manifest EXCEPT !.current = FALSE],
          [Manifest EXCEPT !.files[0] = @ \o <<Extra>>], Tied(Without(Manifest, Head0))}
    \cup {Without(d, n) : d \in {Whole, Sharded, Tied(Sharded)}, n \in {Embedding, Head0, <<"k_proj", 1>>}}
    \cup {Without(Tied(Without(Whole, Head0)), Embedding)}
    \cup {[Sharded EXCEPT !.files[2] = @ \o <<n>>] : n \in {Embedding, <<"q_proj", 1>>}}
MCDirectories == Good \cup Strange
MCContent(fill, n, i) ==
  LET seed == Len(n[1]) + n[2]
  IN CASE fill = "ramp" -> ((i * 5 + seed) % 11) - 5
       [] fill = "ties" -> <<2, 1, -1, 0>>[((i + seed) % 4) + 1]
       [] fill = "even" -> 2 * (((i + seed) % 5) - 2)
       [] fill = "zero" -> IF n[1] = "q_proj" THEN 0 ELSE i - 4
       [] OTHER -> IF n = <<"v_proj", 1>> /\ i = 2 THEN NonFinite ELSE i - 3
MCOrders(n) == {[i \in 1..n |-> i], [i \in 1..n |-> (n + 1) - i]}
MCSharedPairs == {<<Embedding, Head0>>, <<<<"k_proj", 1>>, <<"v_proj", 1>>>>, <<<<"input_norm", 1>>, <<"final_norm", 0>>>>}

\* --- Campaigns -------------------------------------------------------------------
\* The exact payload, another of the same geometry, and one of another geometry.
MCPayloads ==
  {Spec135M, [Spec135M EXCEPT !.sha = "other"], [sha |-> "foreign", config |-> "llama"]}
MCDevices ==
  {[uuid |-> "gpu0", arch |-> a, capability |-> "sm_89", driver |-> 12] : a \in {"sm_89", "sm_00"}}
\* Six values in two buffers under three names, as the three conversions keep them.
MCStored ==
  [f \in Families |->
     [values |-> 6, references |-> 3, elements |-> 8, buffers |-> 2,
      kept |-> CASE f = "int4" -> 11 [] f = "int2" -> 10 [] OTHER -> 14,
      serialized |-> CASE f = "int4" -> 35 [] f = "int2" -> 34 [] OTHER -> 62,
      host |-> 24]]

\* --- One part per behaviour -----------------------------------------------------
\* What another part is at: any state it may start in will do.
TransitionAtRest ==
  LET p == CHOOSE q \in Plans : TRUE
  IN /\ tx = [phase |-> "Prepared", source |-> p, target |-> p, sourceBytes |-> 0, targetBytes |-> 0, budget |-> 0]
     /\ active = p /\ admitting = TRUE /\ sessions = [c \in Clients |-> None] /\ kv = {}
     /\ candidate = None /\ running = FALSE /\ stuck = FALSE /\ created = 0
WeightsAtRest ==
  /\ dir = Whole /\ report = "none" /\ loading = "idle" /\ execution = Decoder1 /\ unread = {} /\ pending = <<>>
  /\ tensors = <<>> /\ weights = NoWeights /\ StorageInit
EvidenceAtRest ==
  /\ disk = [payload |-> Spec135M, tokenizer |-> CHOOSE t \in Tokenizers : TRUE, clean |-> TRUE,
             commit |-> CHOOSE c \in Commits : TRUE]
  /\ EvidenceStart
weightVars == <<checkpointVars, storageVars>>
MCInit ==
  \/ part = "weights" /\ WeightsInit /\ EvidenceAtRest /\ TransitionAtRest
  \/ part = "evidence" /\ EvidenceInit /\ WeightsAtRest /\ TransitionAtRest
  \/ part = "transition" /\ Init /\ WeightsAtRest /\ EvidenceAtRest
MCNext ==
  /\ UNCHANGED part
  /\ \/ part = "weights" /\ WeightsNext /\ UNCHANGED <<vars, evidenceVars>>
     \/ part = "evidence" /\ EvidenceNext /\ UNCHANGED <<vars, weightVars>>
     \/ part = "transition" /\ Next /\ UNCHANGED <<weightVars, evidenceVars>>
MCSpec == MCInit /\ [][MCNext]_<<vars, weightVars, evidenceVars, part>>
=============================================================================
