--------------------------- MODULE CheckpointLoader ----------------------------
(***************************************************************************)
(* A decoder checkpoint becomes ModelWeights: a Hugging Face directory     *)
(* (config.json and one or several Safetensors shards) is preflighted on   *)
(* the host or loaded onto the device, an NNIS directory (model.json) is   *)
(* loaded, or a caller builds the weights and shares buffers between them. *)
(*                                                                         *)
(* A tensor is named <<suffix, layer>>, layer 0 outside the layers; a slot *)
(* is <<file, position in it>>.  A BF16 word is an integer; the F32 word   *)
(* of the same number is Fine times as large, as `bits << 16` makes it.    *)
(***************************************************************************)
EXTENDS WeightFormats, SequencesExt, Functions

CONSTANTS
  Directories,       \* what may be on disk, see Init
  Content(_, _, _),  \* word of a fill's tensor at an index from 1
  Fine,              \* F32 steps in a BF16 step
  Orders(_),         \* orders in which a file of so many tensors may list them
  SharedPairs        \* pairs of weights a caller may build on one buffer

VARIABLES
  dir,        \* the directory
  report,     \* of the preflight: "none", "error", or the report
  loading,    \* "idle", "loading", "tying", "building", "loaded", or how it ended:
              \* "refused" what is on disk, "failed" to read or to copy
  execution,  \* model configuration the load executes with
  unread,     \* weight files still to open
  pending,    \* slots of the open file still to visit, in their order
  tensors,    \* name -> [shape, dtype, words], uploaded so far
  weights     \* ModelWeights: name -> owning name, and owning name -> buffer

checkpointVars == <<dir, report, loading, execution, unread, pending, tensors, weights>>

Norms == {"input_norm", "post_attention_norm", "final_norm"}
LayerSuffixes == <<"input_norm", "q_proj", "k_proj", "v_proj", "o_proj", "post_attention_norm",
                   "gate_proj", "up_proj", "down_proj">>
\* for_each_logical_tensor: the embedding, the layers, the final norm, the head.
NameSeq(c) ==
  <<<<"token_embedding", 0>>>>
  \o FlattenSeq([l \in 1..c.layers |-> [i \in 1..9 |-> <<LayerSuffixes[i], l>>]])
  \o <<<<"final_norm", 0>>, <<"lm_head", 0>>>>
Extra == <<"extra", 0>>
Head0 == <<"lm_head", 0>>
Embedding == <<"token_embedding", 0>>
\* The names tensor_spec knows; a file's other tensors are ignored.
Names(c) == {Embedding, <<"final_norm", 0>>, Head0} \cup (Range(LayerSuffixes) \X (1..c.layers))

\* --- Configuration ------------------------------------------------------------
HeadDim(c) == c.hidden \div c.heads
KvWidth(c) == c.kvHeads * HeadDim(c)
\* `floats`: rms_norm_eps and rope_theta are finite and positive.
ConfigValid(c) ==
  /\ \A d \in {c.vocab, c.hidden, c.inter, c.layers, c.heads, c.kvHeads, c.positions} : d > 0
  /\ c.eos < c.vocab /\ c.floats
  /\ c.hidden % c.heads = 0 /\ c.heads % c.kvHeads = 0 /\ HeadDim(c) % 2 = 0
\* validate_execution_support: SiLU is the one activation.
Executable(c) == ConfigValid(c) /\ c.silu
Absent == -1
\* num_key_value_heads defaults to num_attention_heads; `plain` stands for the
\* supported architecture, activation, biases and RoPE, `multi` for several
\* end-of-sequence tokens.
HfMetadata(c) == [c EXCEPT !.kvHeads = IF @ = Absent THEN c.heads ELSE @]
HfAccepts(c) ==
  /\ c.plain /\ c.silu /\ c.dtype \in {"F32", "BF16"} /\ ~c.multi
  /\ c.heads # 0 /\ c.hidden % c.heads = 0
  /\ Executable(HfMetadata(c))
\* The preflight reads config.json with checks of its own.
PreflightAccepts(c) ==
  /\ c.plain /\ c.silu /\ ~c.multi /\ c.dtype \in {"BF16", "F32"}
  /\ c.heads # 0 /\ c.hidden % c.heads = 0 /\ Executable(HfMetadata(c))

\* --- Shapes -------------------------------------------------------------------
Shape(c, n) ==
  CASE n[1] \in Norms -> <<c.hidden>>
    [] n[1] = "token_embedding" -> <<c.vocab, c.hidden>>
    [] n[1] = "lm_head" -> <<c.hidden, c.vocab>>
    [] n[1] \in {"q_proj", "o_proj"} -> <<c.hidden, c.hidden>>
    [] n[1] \in {"k_proj", "v_proj"} -> <<c.hidden, KvWidth(c)>>
    [] n[1] \in {"gate_proj", "up_proj"} -> <<c.hidden, c.inter>>
    [] n[1] = "down_proj" -> <<c.inter, c.hidden>>
    [] OTHER -> <<1>>
\* Hugging Face stores a projection as (out, in).
Transposed(n) == n[1] \notin Norms \cup {"token_embedding"}
HfShape(c, n) == IF Transposed(n) THEN Reverse(Shape(c, n)) ELSE Shape(c, n)
PreflightShape(c, n) == IF Transposed(n) THEN Reverse(Shape(c, n)) ELSE Shape(c, n)
\* checked_elements: a weight is a vector or a matrix.
Elements(shape) == IF Len(shape) = 1 THEN shape[1] ELSE shape[1] * shape[2]

\* --- What is on disk ------------------------------------------------------------
\* dir.odd = <<name, what>>: the one tensor stored otherwise than expected.
Odd(d, n, what) == d.odd = <<n, what>>
StoredShape(d, n) ==
  LET shape == IF d.kind = "hf" THEN HfShape(HfMetadata(d.config), n) ELSE Shape(d.config, n)
  IN IF Odd(d, n, "shape") THEN <<Elements(shape) + 1>> ELSE shape
StoredType(d, n) ==
  IF Odd(d, n, "half") THEN "F16"
  ELSE IF Odd(d, n, "dtype") THEN (IF d.config.dtype = "F32" THEN "BF16" ELSE "F32")
  ELSE d.config.dtype
StoredWords(d, n) == [i \in 1..Elements(StoredShape(d, n)) |-> Content(d.fill, n, i)]

\* discover_weight_files, over paths confined to regular files.
Discovered(d) ==
  /\ d.single # "other" /\ d.index # "other"
  /\ (d.single = "file") # (d.index = "file")
  /\ d.index = "file" => d.mapped # {} /\ \A s \in d.mapped : d.shards[s] = "file"
\* discover_weight_files: 0 is the single file, an index names its shards.
WeightFiles(d) == IF d.single = "file" THEN {0} ELSE d.mapped
\* dir.files[s]: the names of the tensors in file s.
Slots(d) == UNION {{s} \X DOMAIN d.files[s] : s \in WeightFiles(d)}
NameAt(d, slot) == d.files[slot[1]][slot[2]]
\* A Safetensors file is visited in the order of a hash map.
InFile(d, s, order) == [i \in DOMAIN d.files[s] |-> <<s, order[i]>>]

\* What config.json and model.json parse to.
Configs ==
  [plain : BOOLEAN, silu : BOOLEAN, floats : BOOLEAN, multi : BOOLEAN, tied : BOOLEAN, dtype : STRING,
   vocab : Nat, eos : Nat \cup {Absent}, hidden : Nat, inter : Nat, layers : Nat, heads : Nat,
   kvHeads : Nat \cup {Absent}, positions : Nat]
Permutes(o, n) ==
  /\ o \in [1..n -> 1..n]
  /\ \A i, j \in 1..n : o[i] = o[j] => i = j
  /\ \A k \in 1..n : \E i \in 1..n : o[i] = k
ASSUME CheckpointAssumption ==
  /\ Fine \in Nat \ {0}
  /\ \A d \in Directories :
       /\ d.config \in Configs /\ d.mapped \subseteq Nat
       /\ \A s \in WeightFiles(d) :
            /\ d.files[s] \in Seq(STRING \X Nat)
            /\ \A o \in Orders(Len(d.files[s])) : Permutes(o, Len(d.files[s]))

\* --- Preflight --------------------------------------------------------------------
\* validate_shard: a recognized tensor has the shape and the declared type.
StoredAsDeclared(d, n) ==
  /\ StoredShape(d, n) = PreflightShape(HfMetadata(d.config), n)
  /\ StoredType(d, n) = d.config.dtype /\ ~Odd(d, n, "short")
\* Mutant: the head is demanded although the embedding stands in for it.
CompleteWithHead(c, found) == Names(c) \subseteq found
\* validate_logical_set.
Complete(c, found) ==
  Names(c) \ (IF c.tied /\ Head0 \notin found THEN {Head0} ELSE {}) \subseteq found
PreflightOk(d) ==
  LET known == {p \in Slots(d) : NameAt(d, p) \in Names(d.config)}
      found == {NameAt(d, p) : p \in known}
  IN /\ \A p \in known : StoredAsDeclared(d, NameAt(d, p))
     /\ \A p, q \in known : NameAt(d, p) = NameAt(d, q) => p = q
     /\ Complete(d.config, found)
     /\ Cardinality(found \cup (IF d.config.tied THEN {Head0} ELSE {})) = Cardinality(Names(d.config))
Preflight ==
  /\ loading = "idle" /\ dir.kind = "hf" /\ report = "none"
  /\ report' = IF PreflightAccepts(dir.config) /\ Discovered(dir) /\ PreflightOk(dir)
               THEN (IF dir.config.dtype = "F32" THEN "ready" ELSE "widens") ELSE "error"
  /\ UNCHANGED <<dir, loading, execution, unread, pending, tensors, weights>>

\* --- Loading ------------------------------------------------------------------------
NoWeights == [owner |-> <<>>, buffer |-> <<>>]
\* An error drops what was uploaded.
Ends(how) ==
  loading' = how /\ tensors' = <<>> /\ pending' = <<>> /\ unread' = {}
  /\ UNCHANGED <<dir, report, execution, weights>>
\* load_model_from_safetensors executes in the source's type,
\* load_model_from_safetensors_f32 in F32.
BeginLoad(asF32) ==
  /\ loading = "idle" /\ dir.kind = "hf"
  /\ IF HfAccepts(dir.config) /\ Discovered(dir)
     THEN /\ loading' = "loading" /\ unread' = WeightFiles(dir)
          /\ execution' = [HfMetadata(dir.config) EXCEPT !.dtype = IF asF32 THEN "F32" ELSE @]
          /\ UNCHANGED <<dir, report, pending, tensors, weights>>
     ELSE Ends("refused")
\* load_model_directory: the entries of the manifest, in its order.
BeginManifest ==
  /\ loading = "idle" /\ dir.kind = "manifest"
  /\ IF dir.current /\ ConfigValid(dir.config)
     THEN /\ loading' = "loading" /\ pending' = [i \in DOMAIN dir.files[0] |-> <<0, i>>]
          /\ execution' = dir.config
          /\ UNCHANGED <<dir, report, unread, tensors, weights>>
     ELSE Ends("refused")
\* load_shard opens the files one by one, sorted.
OpenFile(s, order) ==
  /\ loading = "loading" /\ pending = <<>> /\ \A other \in unread : s <= other
  /\ pending' = InFile(dir, s, order) /\ unread' = unread \ {s}
  /\ UNCHANGED <<dir, report, loading, execution, tensors, weights>>

Widen(word) == IF word = NonFinite THEN NonFinite ELSE word * Fine
\* Mutant: the words stay as the checkpoint has them.
TransposeSkipped(words, rows, cols) == words
\* transpose_matrix of a rows x cols matrix.
Transpose(words, rows, cols) ==
  [i \in 1..rows * cols |-> words[((i - 1) % rows) * cols + ((i - 1) \div rows) + 1]]
\* Widening is the one conversion; narrowing is refused.
Materializes(from, to) == from = to \/ (from = "BF16" /\ to = "F32")
Materialize(words, from, to) ==
  IF from = to THEN words ELSE [i \in DOMAIN words |-> Widen(words[i])]
\* The host side of load_shard: transposed and in the execution type.
Prepared(d, n) ==
  LET shape == StoredShape(d, n)
      stored == StoredWords(d, n)
      turned == IF d.kind = "hf" /\ Transposed(n) THEN Transpose(stored, shape[1], shape[2]) ELSE stored
  IN IF d.kind = "hf" THEN Materialize(turned, d.config.dtype, execution.dtype) ELSE turned
Uploaded(n, shape, type, words) ==
  tensors' = [m \in DOMAIN tensors \cup {n} |->
                IF m = n THEN [shape |-> shape, dtype |-> type, words |-> words] ELSE tensors[m]]
\* A tensor of a shard; an entry of the manifest carries its own shape and type.
ShardTensorFits(d, n) ==
  /\ StoredShape(d, n) = HfShape(execution, n) /\ ~Odd(d, n, "short")
  /\ StoredType(d, n) = d.config.dtype /\ n \notin DOMAIN tensors
  /\ Materializes(d.config.dtype, execution.dtype)
EntryFits(d, n) ==
  n \notin DOMAIN tensors /\ StoredType(d, n) # "F16" /\ ~Odd(d, n, "short")
ThisTensor == NameAt(dir, Head(pending))
\* load_shard, one tensor: an unknown one is skipped.
LoadTensor ==
  /\ loading = "loading" /\ pending # <<>> /\ dir.kind = "hf"
  /\ LET n == ThisTensor IN
     \/ n \notin Names(execution) /\ UNCHANGED tensors
     \/ /\ n \in Names(execution) /\ ShardTensorFits(dir, n)
        /\ Uploaded(n, Shape(execution, n), execution.dtype, Prepared(dir, n))
  /\ pending' = Tail(pending)
  /\ UNCHANGED <<dir, report, loading, execution, unread, weights>>
LoadEntry ==
  /\ loading = "loading" /\ pending # <<>> /\ dir.kind = "manifest"
  /\ LET n == ThisTensor IN
     /\ EntryFits(dir, n)
     /\ Uploaded(n, StoredShape(dir, n), StoredType(dir, n), Prepared(dir, n))
  /\ pending' = Tail(pending)
  /\ UNCHANGED <<dir, report, loading, execution, unread, weights>>
\* The tensor at hand is refused, or reading, allocating or copying fails.
TensorEnds ==
  /\ loading = "loading"
  /\ \/ (pending # <<>> \/ unread # {}) /\ Ends("failed")
     \/ /\ pending # <<>>
        /\ IF dir.kind = "hf" THEN ThisTensor \in Names(execution) /\ ~ShardTensorFits(dir, ThisTensor)
           ELSE ~EntryFits(dir, ThisTensor)
        /\ Ends("refused")

\* add_tied_lm_head_if_needed.
NeedsTied == execution.tied /\ Head0 \notin DOMAIN tensors
FilesRead ==
  /\ loading = "loading" /\ pending = <<>> /\ unread = {}
  /\ loading' = IF dir.kind = "hf" /\ NeedsTied THEN "tying" ELSE "building"
  /\ UNCHANGED <<dir, report, execution, unread, pending, tensors, weights>>
TieHead ==
  /\ loading = "tying" /\ Embedding \in DOMAIN tensors /\ Head0 \notin DOMAIN tensors
  /\ LET e == tensors[Embedding] IN
     Uploaded(Head0, Shape(execution, Head0), e.dtype, Transpose(e.words, execution.vocab, execution.hidden))
  /\ loading' = "building"
  /\ UNCHANGED <<dir, report, execution, unread, pending, weights>>
TieEnds ==
  /\ loading = "tying"
  /\ \/ Ends("failed")
     \/ (Embedding \notin DOMAIN tensors \/ Head0 \in DOMAIN tensors) /\ Ends("refused")

\* build_model_weights and ModelWeights::validate.
Assembles ==
  /\ DOMAIN tensors = Names(execution)
  /\ \A n \in Names(execution) :
       tensors[n].shape = Shape(execution, n) /\ tensors[n].dtype = execution.dtype
\* build_weight_graph of format.rs, with the same demands on the tensors.
Build ==
  /\ loading = "building"
  /\ IF Assembles
     THEN /\ loading' = "loaded" /\ tensors' = <<>>
          /\ weights' = [owner |-> [n \in Names(execution) |-> n],
                         buffer |-> [n \in Names(execution) |->
                                       [dtype |-> tensors[n].dtype, words |-> tensors[n].words]]]
          /\ UNCHANGED <<dir, report, execution, unread, pending>>
     ELSE Ends("refused")
\* ModelWeights has public fields: a caller uploads the tensors of the
\* configuration and lets one weight share the other's buffer.
BuildShared(a, b) ==
  /\ loading = "idle" /\ dir.kind = "manifest" /\ dir.odd = <<Extra, "none">>
  /\ ConfigValid(dir.config) /\ dir.config.dtype = "F32"
  /\ Elements(Shape(dir.config, a)) = Elements(Shape(dir.config, b))
  /\ loading' = "loaded" /\ execution' = dir.config
  /\ weights' = [owner |-> [n \in Names(dir.config) |-> IF n = b THEN a ELSE n],
                 buffer |-> [n \in Names(dir.config) \ {b} |-> [dtype |-> "F32", words |-> StoredWords(dir, n)]]]
  /\ UNCHANGED <<dir, report, unread, pending, tensors>>

CheckpointInit ==
  /\ dir \in Directories /\ report = "none" /\ loading = "idle"
  /\ execution = dir.config /\ unread = {} /\ pending = <<>> /\ tensors = <<>> /\ weights = NoWeights
CheckpointNext ==
  \/ Preflight
  \/ \E asF32 \in BOOLEAN : BeginLoad(asF32)
  \/ \E s \in unread : \E order \in Orders(Len(dir.files[s])) : OpenFile(s, order)
  \/ BeginManifest \/ LoadTensor \/ LoadEntry \/ TensorEnds \/ FilesRead
  \/ TieHead \/ TieEnds \/ Build
  \/ \E p \in SharedPairs : BuildShared(p[1], p[2])

-----------------------------------------------------------------------------
\* A weight as the rest of the runtime reads it: row r, column c.
WeightAt(n, r, c) ==
  weights.buffer[weights.owner[n]].words[(r - 1) * Shape(execution, n)[2] + c]
\* safetensors_loader.rs:455-460 and 734-746: whatever the files, the order of
\* their tensors and the execution type, a loaded projection maps in to out as
\* the checkpoint's (out, in) matrix does, number for number; a tied head reads
\* the embedding, a head of its own does not.
LoadedIsSource ==
  loading = "loaded" /\ dir.kind = "hf" =>
    \A n \in {m \in Names(execution) : Len(Shape(execution, m)) = 2} :
      LET from == IF n = Head0 /\ \A p \in Slots(dir) : NameAt(dir, p) # Head0
                  THEN Embedding ELSE n
          read(k, j) == Content(dir.fill, from, (k - 1) * HfShape(execution, from)[2] + j)
          number(w) == IF dir.config.dtype = execution.dtype THEN w ELSE Widen(w)
      IN \A r \in 1..Shape(execution, n)[1], c \in 1..Shape(execution, n)[2] :
           WeightAt(n, r, c) = number(IF Transposed(n) THEN read(c, r) ELSE read(r, c))

\* nnis-hf.rs:17, "a CPU-only fail-closed preflight": what the preflight accepts
\* the loader assembles, and what it refuses no load accepts, though both read
\* the directory with code of their own.
PreflightAgrees ==
  /\ report = "error" => loading # "loaded"
  /\ report \in {"ready", "widens"} => loading # "refused"
================================================================================
