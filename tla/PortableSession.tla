--------------------------- MODULE PortableSession ----------------------------
(***************************************************************************)
(* The portable session (PortableSessionV1, nnis-core session.rs) as the   *)
(* CPU and the WGPU backend implement it (nnis-cpu session.rs, nnis-wgpu   *)
(* session.rs: the same control).  A token is staged (logits refreshed,    *)
(* row pending) and then committed; truncate recomputes the running sum    *)
(* from the committed rows.  Every backend kernel, upload and readback may *)
(* fail, and an error leaves what was already assigned.                    *)
(*                                                                         *)
(* A row is the token it was gathered for.  F32 addition is not            *)
(* associative, so a sum is the SEQUENCE of rows added, and logits are the *)
(* sum they were projected from; cleared logits are the empty sum.         *)
(*                                                                         *)
(* The session is one with the FP4 shadow; without it the shadow alone is  *)
(* missing.  Calls that fail a check change nothing and are left out.      *)
(***************************************************************************)
EXTENDS Naturals, Sequences, SequencesExt

CONSTANTS
    Tokens,        \* synthetic vocabulary
    Capacity,      \* spec.capacity
    MaxEncode,     \* bound: tokens of one encode
    MaxCalls       \* bound: public calls in one behaviour

ASSUME PortableAssumption ==
    /\ Tokens # {}
    /\ Capacity \in Nat \ {0}
    /\ MaxEncode \in Nat /\ MaxCalls \in Nat

VARIABLES
    slots,       \* storage of the KV cache; slots past length are stale
    length,      \* PortableKvCacheV1.length
    pending,     \* pending_row: <<>> or one row
    sum,         \* running_sum
    logits,      \* logits
    position,    \* position
    shadow,      \* rows encoded in the FP4 shadow
    call,        \* the public call in progress
    ret,         \* how the last call returned
    calls        \* public calls so far (bounded)

vars == <<slots, length, pending, sum, logits, position, shadow, call, ret, calls>>
data == <<slots, length, pending, sum, logits, position, shadow>>

NoCall == [op |-> "idle", todo |-> <<>>, asked |-> <<>>]

TypeOK ==
    /\ slots \in [1..Capacity -> Tokens \cup {"zero"}]
    /\ length \in 0..Capacity
    /\ pending \in Seq(Tokens) /\ Len(pending) <= 1
    /\ sum \in Seq(Tokens) /\ logits \in Seq(Tokens) /\ shadow \in Seq(Tokens)
    /\ position \in 0..Capacity
    /\ call \in [op : {"idle", "stage", "advance", "encode", "decode"},
                 todo : Seq(Tokens), asked : Seq(Tokens)]
    /\ ret \in {"ok", "err"}
    /\ calls \in 0..MaxCalls

Init ==
    /\ slots = [i \in 1..Capacity |-> "zero"]
    /\ length = 0 /\ position = 0
    /\ pending = <<>> /\ sum = <<>> /\ logits = <<>> /\ shadow = <<>>
    /\ call = NoCall /\ ret = "ok" /\ calls = 0

\* layer_prefix: the committed rows.
Committed == [i \in 1..length |-> slots[i]]

-----------------------------------------------------------------------------
Enter == call.op = "idle" /\ calls < MaxCalls /\ calls' = calls + 1

Begin(op, todo) ==
    /\ Enter
    /\ call' = [op |-> op, todo |-> todo, asked |-> todo]
    /\ UNCHANGED ret /\ UNCHANGED data

\* stage_token: refused while a row is pending or the cache is full.
StageToken(t) ==
    /\ pending = <<>> /\ length < Capacity
    /\ Begin("stage", <<t>>)

\* advance_kv: needs a pending row.
AdvanceKv ==
    /\ pending # <<>>
    /\ Begin("advance", <<>>)

\* Mutant: encode does not ask for a fresh session.
EncodeAnywhere(tokens) ==
    /\ tokens # <<>>
    /\ Begin("encode", tokens)

\* encode: only on a fresh session.
Encode(tokens) ==
    /\ tokens # <<>>
    /\ position = 0 /\ length = 0 /\ pending = <<>>
    /\ Begin("encode", tokens)

\* decode_one: no row may be pending.
DecodeOne(t) ==
    /\ pending = <<>> /\ length < Capacity
    /\ Begin("decode", <<t>>)

Return(how) == call' = NoCall /\ ret' = how /\ UNCHANGED calls

-----------------------------------------------------------------------------
\* The token of the call is staged: logits of sum + row, the row kept back.
Stage ==
    /\ call.op \in {"stage", "encode", "decode"} /\ call.todo # <<>>
    /\ pending = <<>> /\ length < Capacity
    /\ logits' = Append(sum, Head(call.todo))
    /\ pending' = <<Head(call.todo)>>
    /\ UNCHANGED <<slots, length, sum, position, shadow>>
    /\ IF call.op = "stage" THEN Return("ok")
       ELSE call' = [call EXCEPT !.todo = Tail(@)] /\ UNCHANGED <<ret, calls>>

\* stage_token fails: the cache is full in the middle of an encode, or a kernel
\* fails before anything was assigned.
StageFail ==
    /\ call.op \in {"stage", "encode", "decode"} /\ pending = <<>> /\ call.todo # <<>>
    /\ Return("err")
    /\ UNCHANGED data

\* Mutant: position is taken from the cache's length after the append, plus one.
CommitCountsTwice ==
    /\ pending # <<>> /\ call.op \in {"advance", "encode", "decode"}
    /\ sum' = sum \o pending
    /\ slots' = [slots EXCEPT ![length + 1] = Head(pending)]
    /\ length' = length + 1 /\ position' = length + 2
    /\ shadow' = Append(Committed, Head(pending))
    /\ pending' = <<>>
    /\ UNCHANGED logits
    /\ IF call.todo = <<>> THEN Return("ok") ELSE UNCHANGED <<call, ret, calls>>

\* advance_kv: the pending row is taken, added to the sum, appended to every
\* layer, counted, and the shadow is encoded again.
Commit ==
    /\ pending # <<>> /\ call.op \in {"advance", "encode", "decode"}
    /\ sum' = sum \o pending
    /\ slots' = [slots EXCEPT ![length + 1] = Head(pending)]
    /\ length' = length + 1 /\ position' = position + 1
    /\ shadow' = Append(Committed, Head(pending))
    /\ pending' = <<>>
    /\ UNCHANGED logits
    /\ IF call.todo = <<>> THEN Return("ok") ELSE UNCHANGED <<call, ret, calls>>

\* Mutant: a failed commit keeps its row pending and has already added it.
CommitFailHalf ==
    /\ pending # <<>> /\ call.op \in {"advance", "encode", "decode"}
    /\ sum' = sum \o pending
    /\ pending' = <<>>
    /\ Return("err")
    /\ UNCHANGED <<slots, length, logits, position, shadow>>

\* advance_kv fails on an upload, the Add kernel or its readback: the pending
\* row is gone, nothing else has changed.
CommitFail ==
    /\ pending # <<>> /\ call.op \in {"advance", "encode", "decode"}
    /\ pending' = <<>>
    /\ Return("err")
    /\ UNCHANGED <<slots, length, sum, logits, position, shadow>>

\* Mutant: truncate keeps the logits of the longer session.
TruncateStale(n) ==
    /\ Enter /\ n <= length
    /\ pending' = <<>>
    /\ length' = n /\ position' = n
    /\ sum' = SubSeq(Committed, 1, n)
    /\ shadow' = SubSeq(Committed, 1, n)
    /\ call' = NoCall /\ ret' = "ok"
    /\ UNCHANGED <<slots, logits>>

\* truncate: pending dropped, lengths cut, the sum added up again row by row,
\* logits projected (or cleared), shadow encoded.
Truncate(n) ==
    /\ Enter /\ n <= length
    /\ pending' = <<>>
    /\ length' = n /\ position' = n
    /\ sum' = SubSeq(Committed, 1, n)
    /\ logits' = sum'
    /\ shadow' = SubSeq(Committed, 1, n)
    /\ call' = NoCall /\ ret' = "ok"
    /\ UNCHANGED slots

\* truncate fails in refresh_logits_from_sum, after the cut.
TruncateFail(n) ==
    /\ Enter /\ n <= length /\ n > 0
    /\ pending' = <<>>
    /\ length' = n /\ position' = n
    /\ sum' = SubSeq(Committed, 1, n)
    /\ call' = NoCall /\ ret' = "err"
    /\ UNCHANGED <<slots, logits, shadow>>

\* reset.
Reset ==
    /\ Enter
    /\ pending' = <<>> /\ length' = 0 /\ position' = 0
    /\ sum' = <<>> /\ logits' = <<>> /\ shadow' = <<>>
    /\ call' = NoCall /\ ret' = "ok"
    /\ UNCHANGED slots

-----------------------------------------------------------------------------
Prompts == UNION {[1..n -> Tokens] : n \in 1..MaxEncode}

Next ==
    \/ \E t \in Tokens : StageToken(t) \/ DecodeOne(t)
    \/ AdvanceKv
    \/ \E tokens \in Prompts : Encode(tokens)
    \/ Stage \/ StageFail \/ Commit \/ CommitFail
    \/ \E n \in 0..Capacity : Truncate(n) \/ TruncateFail(n)
    \/ Reset

Spec == Init /\ [][Next]_vars

-----------------------------------------------------------------------------
\* PORTABLE_MODEL_SESSION_V1.md:24-32 and session.rs:326-409: whichever kernels
\* fail in whichever call, the running sum is exactly the committed rows, added
\* in their order, and position counts them.
SumIsCommitted == sum = Committed /\ position = length

\* session.rs:304-323, 380-409: after every call that succeeds the logits are
\* those of the committed rows plus the pending one, also when calls before it
\* failed half way.
LogitsCurrent ==
    call.op = "idle" /\ ret = "ok" => logits = Committed \o pending

\* session.rs:351-367: an encode that fails leaves a prefix of its tokens
\* committed, never a gap or a row of another call.
EncodePrefix ==
    [][call.op = "encode" /\ call'.op = "idle" =>
        /\ IsPrefix(Committed', call.asked)
        /\ ret' = "ok" => Committed' = call.asked]_vars

\* PORTABLE_MODEL_SESSION_V1.md:50-53: the shadow is maintained beside the dense
\* rows "with exact Fp4KvStorageV1 accounting exposed by kv_storage_telemetry":
\* the telemetry of a session between calls counts the committed rows.
ExactAccounting == call.op = "idle" => Len(shadow) = length
=============================================================================
