----------------------------- MODULE KvlabBackend ------------------------------
(***************************************************************************)
(* The KVLab backends of nnis-cli (nnis-kvlab-backend-v4.rs and the v3     *)
(* backend beside it): a process that reads one request, loads the model,  *)
(* drives one InferenceSession through prefill, selection of KV rows, a    *)
(* bridge token and teacher-forced evaluation, and writes one response.    *)
(*                                                                         *)
(* The session is the one of InferenceSession, which fails at any of its   *)
(* steps; a failure ends the process.  Positions of a v4 request count     *)
(* from 0, rows of the session from 1; a v3 request names rows by logical  *)
(* ids.  A digest is what it is taken of, and `wellFormed` stands for the  *)
(* schema string, the sizes, the ASCII and hexadecimal fields and (v4) the *)
(* canonical JSON of a request.                                            *)
(***************************************************************************)
EXTENDS InferenceSession

CONSTANTS
    Requests,    \* what the caller may write
    Backends,    \* command lines, with what they find on disk
    HeadBytes    \* bytes of one K or V row of one layer

\* The lists of a request are lists; a v4 request counts positions.
ASSUME BackendAssumption ==
    /\ HeadBytes \in Nat
    /\ \A r \in Requests :
         /\ r.version \in {3, 4}
         /\ r.logical \in Seq(Range(r.logical)) /\ r.input \in Seq(Range(r.input))
         /\ r.retained \in Seq(Range(r.retained)) /\ r.eval \in Seq(Range(r.eval))
         /\ r.version = 4 => Range(r.retained) \subseteq Nat

VARIABLES
    backend,     \* [version, spec, file, config, source], or NoBackend
    request,
    step,        \* how far execute_request is; "answered" or "failed" in the end
    steps,       \* scored steps: [target, top1], and what the logits were computed from
    answer       \* the response, or NoAnswer

backendVars == <<backend, request, step, steps, answer>>
NoBackend == [version |-> 0]
NoAnswer == [mode |-> "none"]

\* --- The request ------------------------------------------------------------------
\* trace_sha256 covers the ids of the trace, not the selection.
Trace3(r) == <<r.logical, r.input, r.eval>>
Trace4(r) == <<r.input, r.eval>>
ModeValid(r, full) ==
    \/ r.mode = "baseline" /\ ~r.policy /\ r.retained = full
    \/ r.mode = "candidate" /\ r.policy /\ r.retained # full
Positions(r) == [i \in DOMAIN r.input |-> i - 1]
Unique(ids) == IsInjective(ids)
\* Where the retained ids stand in the trace, in its order: none unless they are
\* an ordered subset of the logical ids.
Placements(r) ==
    {at \in [DOMAIN r.retained -> DOMAIN r.logical] :
       /\ \A i, j \in DOMAIN at : i < j => at[i] < at[j]
       /\ \A i \in DOMAIN at : r.logical[at[i]] = r.retained[i]}
PositionsValid(len, positions) ==
    /\ \A i \in DOMAIN positions : positions[i] < len
    /\ \A i, j \in DOMAIN positions : i < j => positions[i] < positions[j]
\* exact_checkpoint_spec: the frozen specification of the model id and revision.
SpecKnown(b) == b.spec = "exact"
Valid4(r, b) ==
    /\ r.wellFormed /\ r.bytes > 0 /\ r.provenance
    /\ r.input # <<>> /\ Len(r.eval) >= 2 /\ SpecKnown(b)
    /\ Len(r.input) <= Capacity /\ Len(r.input) + (Len(r.eval) - 1) <= Capacity
    /\ Len(r.retained) <= Len(r.input) /\ PositionsValid(Len(r.input), r.retained)
    /\ ModeValid(r, Positions(r)) /\ r.trace = Trace4(r)
Valid3(r) ==
    /\ r.wellFormed /\ r.bytes > 0 /\ r.provenance
    /\ r.logical # <<>> /\ Unique(r.logical) /\ Unique(r.retained)
    /\ Len(r.input) = Len(r.logical) /\ Len(r.eval) >= 2
    /\ Placements(r) # {}
    /\ ModeValid(r, r.logical) /\ r.trace = Trace3(r)
\* Rows to keep, in the session's numbering.
Rows4(r) == [i \in DOMAIN r.retained |-> r.retained[i] + 1]
Rows3(r) == CHOOSE at \in Placements(r) : TRUE
RetainedRows(r) == IF backend.version = 4 THEN Rows4(r) ELSE Rows3(r)

\* --- The process ------------------------------------------------------------------
\* parse_args names the backend; it is Init's choice.
ReadRequest(r) ==
    /\ step = "reading"
    /\ request' = r
    /\ step' = IF (IF backend.version = 4 THEN Valid4(r, backend) ELSE Valid3(r))
               THEN "loading" ELSE "failed"
    /\ UNCHANGED <<backend, steps, answer, vars>>

\* 2 x layers x kv heads x head_dim x size_of f32.
KvBytesPerToken == 2 * NumLayers * HeadBytes
InVocabulary(r) == Range(r.input) \cup Range(r.eval) \subseteq Tokens
\* v4: the local payload, the byte accounting, the loaded configuration, and the
\* capacity of the loaded model; it executes in F32.
Loads4(r, b) ==
    /\ b.file = "exact" /\ r.bytes = KvBytesPerToken /\ b.config = "exact"
    /\ InVocabulary(r) /\ Len(r.input) + (Len(r.eval) - 1) <= Capacity
\* v3 executes in the type of the checkpoint, and Model::new takes F32 only.
Loads3(r, b) ==
    /\ b.source = "F32" /\ InVocabulary(r) /\ Len(r.input) + Len(r.eval) <= Capacity
LoadBackend ==
    /\ step = "loading"
    /\ step' = IF (IF backend.version = 4 THEN Loads4(request, backend) ELSE Loads3(request, backend))
               THEN "loaded" ELSE "failed"
    /\ UNCHANGED <<backend, request, steps, answer, vars>>
PrefillInput ==
    /\ step = "loaded" /\ Prefill(request.input) /\ step' = "prefilling"
    /\ UNCHANGED <<backend, request, steps, answer>>
\* What prefill and decode_one do inside.
SessionStep ==
    /\ step \in {"prefilling", "decoding"}
    /\ Feed \/ FeedError \/ SyncError \/ Done
    /\ UNCHANGED backendVars
Returned(s) == step = s /\ call.op = "idle" /\ ret = "ok"
ApplySelection ==
    /\ Returned("prefilling")
    /\ IF request.mode = "candidate" THEN Compact(RetainedRows(request)) ELSE UNCHANGED vars
    /\ step' = "selected"
    /\ UNCHANGED <<backend, request, steps, answer>>
\* Mutant: the first target is judged by the logits of the prefill.
BridgeSkipped ==
    /\ Returned("selected") /\ position = Len(request.input)
    /\ step' = "decoding" /\ UNCHANGED <<backend, request, steps, answer, vars>>
Bridge ==
    /\ Returned("selected") /\ position = Len(request.input)
    /\ Decode(request.eval[1]) /\ step' = "decoding"
    /\ UNCHANGED <<backend, request, steps, answer>>
\* score_logits, and the next target is decoded unless it was the last.
Score(top1) ==
    /\ Returned("decoding")
    /\ LET n == Len(steps) + 1
           target == request.eval[n + 1]
       IN /\ steps' = Append(steps, [target |-> target, top1 |-> top1, seen |-> logits, over |-> rows])
          /\ IF n + 1 < Len(request.eval) THEN Decode(target) /\ UNCHANGED step
             ELSE step' = "scored" /\ UNCHANGED vars
    /\ UNCHANGED <<backend, request, answer>>
\* render_artifact, render_response.
Respond ==
    /\ step = "scored" /\ step' = "answered"
    /\ answer' = [mode |-> request.mode, policy |-> request.policy, retained |-> request.retained,
                  request |-> request, bridge |-> request.eval[1],
                  hits |-> Cardinality({i \in DOMAIN steps : steps[i].target = steps[i].top1}),
                  scored |-> Len(steps)]
    /\ UNCHANGED <<backend, request, steps, vars>>
\* A call returned an error, the device or the file cannot be used, or a value is
\* not finite: the process exits.
BackendFails ==
    /\ step \notin {"off", "answered", "failed"} /\ call.op = "idle"
    /\ step' = "failed" /\ UNCHANGED <<backend, request, steps, answer, vars>>

BackendOff == backend = NoBackend /\ request = <<>> /\ step = "off" /\ steps = <<>> /\ answer = NoAnswer
BackendInit ==
    /\ backend \in Backends /\ request = <<>> /\ step = "reading" /\ steps = <<>> /\ answer = NoAnswer
BackendNext ==
    \/ step = "reading" /\ \E r \in Requests : r.version = backend.version /\ ReadRequest(r)
    \/ LoadBackend \/ PrefillInput \/ SessionStep \/ ApplySelection \/ Bridge
    \/ \E t \in Tokens : Score(t)
    \/ Respond \/ BackendFails

BackendSpec == Init /\ BackendInit /\ [][BackendNext]_<<vars, backendVars>>

-----------------------------------------------------------------------------
\* The positions of the input, from 1, whose rows a request retains.
KeptPositions(r) ==
    {p \in DOMAIN r.input :
       IF r.version = 4 THEN p - 1 \in Range(r.retained) ELSE r.logical[p] \in Range(r.retained)}

\* The first rows of one layer: those of the kept input in order, under their
\* original positions.
KeptRows(r, over, kept) ==
    /\ {over[j].pos + 1 : j \in 1..kept} = KeptPositions(r)
    /\ \A j \in 1..kept : over[j].tok = r.input[over[j].pos + 1]
    /\ \A i, j \in 1..kept : i < j => over[i].pos < over[j].pos

\* Behind them the rows of the first n tokens evaluated, and no other.
AttestedRows(r, over, n) ==
    LET kept == Len(over) - n
    IN /\ kept \in Nat /\ KeptRows(r, over, kept)
       /\ \A j \in 1..n : over[kept + j] = Row(r.eval[j], Len(r.input) + j - 1)

\* Every scored target was judged by logits computed from the input and the targets
\* before it, over the attested rows of every layer.
Scored(r) ==
    \A i \in DOMAIN steps :
        /\ steps[i].target = r.eval[i + 1]
        /\ steps[i].seen = r.input \o SubSeq(r.eval, 1, i)
        /\ \A l \in Layers : AttestedRows(r, steps[i].over[l], i)

\* NNML1_KVLAB_V3_BACKEND.md:33-42 and KVLAB-POSITION-BACKEND-V4.md: every scored
\* target was judged by logits computed, on every layer, from the rows the request
\* retains under their original positions, the bridge and the earlier targets, and
\* nothing else; no step of the session failed on the way; and the bytes a v4
\* request accounts per token are what its rows take in the cache.
ScoresAttested ==
    answer # NoAnswer =>
        LET r == request
            cached == {c \in Layers \X (1..Capacity) : c[2] \in DOMAIN rows[c[1]]}
        IN /\ faultAt = NoFault /\ Len(steps) = Len(r.eval) - 1 /\ answer.hits <= answer.scored
           /\ Scored(r) /\ (r.mode = "baseline" => ~compacted)
           /\ r.version = 4 => r.bytes * Len(rows[1]) = 2 * HeadBytes * Cardinality(cached)

-----------------------------------------------------------------------------
\* The inductive strengthening of ScoresAttested.

DrivenTypes ==
    /\ rows \in [Layers -> Seq(Rows)] /\ \A l \in Layers : Len(rows[l]) <= Capacity
    /\ history \in Seq(Tokens) /\ position = Len(history)
    /\ logits \in Seq(Tokens) /\ call \in Calls
    /\ steps \in Seq([target : Tokens, top1 : Tokens, seen : Seq(Tokens),
                      over : [Layers -> Seq(Rows)]])

\* What validation and loading leave of a request.
Usable(r) ==
    /\ r.input \in Seq(Tokens) /\ r.eval \in Seq(Tokens) /\ Len(r.input) > 0 /\ Len(r.eval) >= 2
    /\ RetainedRows(r) \in Seq(DOMAIN r.input)
    /\ \A i, j \in DOMAIN RetainedRows(r) : i < j => RetainedRows(r)[i] < RetainedRows(r)[j]
    /\ Range(RetainedRows(r)) = KeptPositions(r)
    /\ r.mode # "candidate" => KeptPositions(r) = DOMAIN r.input
    /\ r.mode \in {"baseline", "candidate"}
    /\ r.version = 4 => r.bytes = KvBytesPerToken

\* prefill has fed part of the input, every layer a row per token.
Filling(r) ==
    /\ faultAt = NoFault /\ ~compacted /\ (position > 0 => logits = history)
    /\ position + Len(call.todo) = Len(r.input) /\ (call.op = "idle" => call.todo = <<>>)
    /\ \A i \in 1..position : history[i] = r.input[i]
    /\ \A i \in 1..Len(call.todo) : call.todo[i] = r.input[position + i]
    /\ \A l \in Layers : /\ Len(rows[l]) = position
                         /\ \A i \in 1..position : rows[l][i] = Row(r.input[i], i - 1)

\* n tokens of the evaluation have been decoded behind the selected rows.
Decoded(r, n) ==
    /\ faultAt = NoFault /\ (r.mode = "baseline" => ~compacted)
    /\ history = r.input \o SubSeq(r.eval, 1, n) /\ logits = history
    /\ \A l \in Layers : Len(rows[l]) = Len(rows[1]) /\ AttestedRows(r, rows[l], n)

\* What holds of the session at each step of the process, unless a call failed.
Driven(r) ==
    /\ step \in {"prefilling", "selected"} => steps = <<>>
    /\ step = "prefilling" =>
         \/ call.op = "idle" /\ ret # "ok"
         \/ call.op \in {"prefill", "idle"} /\ Filling(r)
    /\ step = "selected" => call.op = "idle" /\ Decoded(r, 0)
    /\ step = "decoding" =>
         /\ Len(steps) + 2 <= Len(r.eval)
         /\ \/ call.op = "idle" /\ ret # "ok"
            \/ call.op = "decode" /\ call.todo = <<r.eval[Len(steps) + 1]>> /\ Decoded(r, Len(steps))
            \/ call.op \in {"decode", "idle"} /\ call.todo = <<>> /\ Decoded(r, Len(steps) + 1)
    /\ step \in {"scored", "answered"} => Len(steps) + 1 = Len(r.eval) /\ Decoded(r, Len(steps))

Driving == {"loaded", "prefilling", "selected", "decoding", "scored", "answered"}
BackendInv ==
    /\ DrivenTypes
    /\ step \in Driving \cup {"reading", "loading", "failed"}
    /\ step \in {"reading", "loading", "loaded"} => call.op = "idle" /\ steps = <<>>
    /\ step = "loading" =>
         /\ request \in Requests /\ request.version = backend.version
         /\ IF backend.version = 4 THEN Valid4(request, backend) ELSE Valid3(request)
    /\ step \in Driving => Usable(request) /\ Driven(request) /\ Scored(request)
    /\ answer # NoAnswer => step = "answered" /\ answer.hits <= answer.scored
=============================================================================
