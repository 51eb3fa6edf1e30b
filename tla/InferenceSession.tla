--------------------------- MODULE InferenceSession ---------------------------
(***************************************************************************)
(* One decoder session of nnis-model (runtime.rs, runtime/kv_selection.rs, *)
(* sampling.rs, streaming.rs, speculative_session.rs): position, per-layer *)
(* KV rows and the logits buffer, through prefill, decode_one, generate,   *)
(* verify_greedy_draft, compact_kv_cache_rows and reset.                   *)
(*                                                                         *)
(* A public call takes &mut self, so calls do not overlap; but one call is *)
(* a long sequence of fallible steps, and an error leaves the session as   *)
(* the failing step found it.  A token passes layer by layer: each layer's *)
(* append commits a row at once, position advances only after the last     *)
(* one.  KvCache.tla shows what a committed row is; here a row is the      *)
(* token and the RoPE position it was computed for, and the logits buffer  *)
(* is the token history its content was computed from.                     *)
(***************************************************************************)
EXTENDS Naturals, Sequences, FiniteSets, SequencesExt

CONSTANTS
    Tokens,        \* vocabulary
    NumLayers,     \* num_hidden_layers
    Capacity,      \* max_position_embeddings, also the cache capacity
    MaxPrompt,     \* bound: prompt length
    MaxDraft,      \* bound: scheduled draft tokens of one verification
    MaxCalls       \* bound: public calls in one behaviour

ASSUME SessionAssumption ==
    /\ Tokens # {}
    /\ NumLayers \in Nat \ {0}
    /\ Capacity \in Nat \ {0}
    /\ MaxPrompt \in Nat /\ MaxDraft \in Nat /\ MaxCalls \in Nat

VARIABLES
    rows,        \* rows[l]: the valid rows of cache layer l
    position,    \* InferenceSession.position
    logits,      \* provenance of workspace.logits: the history it was computed from
    stats,       \* the caller's SpeculativeAcceptanceStatsV1: steps recorded
    call,        \* the public call in progress
    ret,         \* how the last call returned
    calls,       \* public calls so far (bounded)
    history,     \* ghost: the tokens the session stands for
    faultAt,     \* ghost: first row a failed step may have spoilt
    compacted,   \* ghost: rows were compacted since the last reset
    mixed,       \* ghost: a rewind was applied to a compacted cache
    unwound      \* ghost: a call was unwound, or its readback failed, and no
                 \*        token was decoded since

vars == <<rows, position, logits, stats, call, ret, calls, history, faultAt,
          compacted, mixed, unwound>>

ghosts == <<compacted, mixed, unwound>>

-----------------------------------------------------------------------------
Layers  == 1..NumLayers
NoFault == Capacity + 1
Lesser(a, b) == IF a < b THEN a ELSE b

Row(tok, pos) == [tok |-> tok, pos |-> pos]

NoCall == [op |-> "idle", prompt |-> <<>>, todo |-> <<>>, left |-> 0,
           fixed |-> FALSE, stop |-> FALSE, out |-> <<>>, seen |-> <<>>,
           base |-> 0, draft |-> <<>>, acc |-> 0, judged |-> <<>>,
           hist0 |-> <<>>, rows0 |-> [l \in Layers |-> <<>>], doubt |-> FALSE]

Busy == {"prefill", "decode", "generate", "verify", "emit"}

Rows  == [tok : Tokens, pos : Nat]
Calls == [op : Busy \cup {"idle", "unwind"}, prompt : Seq(Tokens),
          todo : Seq(Tokens), left : Nat, fixed : BOOLEAN, stop : BOOLEAN,
          out : Seq(Tokens), seen : Seq(Tokens), base : Nat, draft : Seq(Tokens),
          acc : Nat, judged : Seq(Seq(Tokens)), hist0 : Seq(Tokens),
          rows0 : [Layers -> Seq(Rows)], doubt : BOOLEAN]

TypeOK ==
    /\ rows \in [Layers -> Seq(Rows)]
    /\ \A l \in Layers : Len(rows[l]) <= Capacity
    /\ position \in 0..Capacity
    /\ history \in Seq(Tokens) /\ Len(history) = position
    /\ logits \in Seq(Tokens)
    /\ stats \in Nat /\ calls \in 0..MaxCalls
    /\ call \in Calls
    /\ ret \in {"ok", "err", "reset"}
    /\ faultAt \in 0..NoFault
    /\ {compacted, mixed, unwound} \subseteq BOOLEAN

Init ==
    /\ rows = [l \in Layers |-> <<>>]
    /\ position = 0
    /\ logits = <<>>
    /\ stats = 0
    /\ call = NoCall
    /\ ret = "ok"
    /\ calls = 0
    /\ history = <<>>
    /\ faultAt = NoFault
    /\ compacted = FALSE /\ mixed = FALSE /\ unwound = FALSE

-----------------------------------------------------------------------------
\* A public call is entered; at most MaxCalls of them.
Enter ==
    /\ call.op = "idle"
    /\ calls < MaxCalls
    /\ calls' = calls + 1

Return(how) == call' = NoCall /\ ret' = how

\* An error inside a verification goes to its rewind; any other call returns it.
Abort ==
    IF call.op \in {"verify", "emit"}
    THEN call' = [call EXCEPT !.op = "unwind", !.todo = <<>>] /\ UNCHANGED ret
    ELSE Return("err")

\* enqueue_current_token succeeds: every layer appends a row, then lm_head
\* overwrites the logits and position advances.
EnqueueToken(t) ==
    /\ position < Capacity
    /\ \A l \in Layers : Len(rows[l]) < Capacity
    /\ rows' = [l \in Layers |-> Append(rows[l], Row(t, position))]
    /\ position' = position + 1
    /\ history' = Append(history, t)
    /\ logits' = history'
    /\ unwound' = FALSE

\* Rows from p on are no longer known to be good.
Spoil(p) == IF compacted THEN 0 ELSE Lesser(faultAt, p)

\* enqueue_current_token fails after the first k layers have appended.
EnqueuePart(t, k) ==
    /\ \A l \in 1..k : Len(rows[l]) < Capacity
    /\ rows' = [l \in Layers |->
                  IF l <= k THEN Append(rows[l], Row(t, position)) ELSE rows[l]]
    /\ UNCHANGED <<position, history, logits>>

\* reset: synchronize, retire the pending appends, clear lengths and position.
ResetState ==
    /\ rows' = [l \in Layers |-> <<>>]
    /\ position' = 0
    /\ history' = <<>>
    /\ faultAt' = NoFault
    /\ compacted' = FALSE /\ mixed' = FALSE
    /\ UNCHANGED <<logits, unwound, stats>>

\* Mutant: rewind_to forgets the cache and only moves position back.
RewindPositionOnly(p) ==
    /\ \A l \in Layers : Len(rows[l]) >= p
    /\ rows' = rows
    /\ position' = p
    /\ history' = SubSeq(history, 1, p)
    /\ faultAt' = IF p <= faultAt THEN NoFault ELSE faultAt
    /\ mixed' = (mixed \/ compacted)

\* rewind_to: KvCache::truncate to a number of positions, then position.
RewindTo(p) ==
    /\ \A l \in Layers : Len(rows[l]) >= p
    /\ rows' = [l \in Layers |-> SubSeq(rows[l], 1, p)]
    /\ position' = p
    /\ history' = SubSeq(history, 1, p)
    /\ faultAt' = IF p <= faultAt THEN NoFault ELSE faultAt
    /\ mixed' = (mixed \/ compacted)

-----------------------------------------------------------------------------
\* reset (and a prefill or generate whose upload fails right after its reset).
Reset ==
    /\ Enter
    /\ ResetState
    /\ Return("ok")

\* prefill: validate the prompt, reset, upload, then feed it token by token.
Prefill(prompt) ==
    /\ Enter
    /\ Len(prompt) \in 1..Capacity
    /\ ResetState
    /\ call' = [NoCall EXCEPT !.op = "prefill", !.todo = prompt]
    /\ UNCHANGED ret

\* generate_fixed (fixed) or generate_until_eos, generate_sampled and
\* generate_sampled_streaming (one token at a time): the prompt plus the new
\* tokens must fit.
Generate(prompt, new, fixed) ==
    /\ Enter
    /\ Len(prompt) \in 1..Capacity
    /\ Len(prompt) + new <= Capacity
    /\ ResetState
    /\ call' = [NoCall EXCEPT !.op = "generate", !.prompt = prompt,
                              !.todo = prompt, !.left = new, !.fixed = fixed]
    /\ UNCHANGED ret

\* decode_one.
Decode(t) ==
    /\ Enter
    /\ position < Capacity
    /\ call' = [NoCall EXCEPT !.op = "decode", !.todo = <<t>>, !.base = position]
    /\ UNCHANGED <<rows, position, logits, stats, ret, history, faultAt>>
    /\ UNCHANGED ghosts

\* verify_greedy_draft: the current logits are read back, the scheduled draft
\* tokens are to be decoded one by one.
Verify(draft) ==
    /\ Enter
    /\ position > 0
    /\ position + Len(draft) + 1 <= Capacity
    /\ call' = [NoCall EXCEPT !.op = "verify", !.todo = draft, !.draft = draft,
                              !.base = position, !.judged = <<logits>>,
                              !.hist0 = history, !.rows0 = rows, !.doubt = unwound]
    /\ UNCHANGED <<rows, position, logits, stats, ret, history, faultAt>>
    /\ UNCHANGED ghosts

\* Mutant: compaction renumbers the session to the retained rows.
KeepRowsRenumber(keep) ==
    /\ rows' = [l \in Layers |-> [i \in 1..Len(keep) |-> rows[l][keep[i]]]]
    /\ position' = Len(keep)

\* compact_kv_cache: the kept rows of every layer, in order; position stays.
KeepRows(keep) ==
    /\ rows' = [l \in Layers |-> [i \in 1..Len(keep) |-> rows[l][keep[i]]]]
    /\ UNCHANGED position

\* compact_kv_cache_rows: strictly increasing row indices of a cache whose
\* layers have one length.  Any failure leaves the cache as it was.
Compact(keep) ==
    /\ Enter
    /\ \A l \in Layers : Len(rows[l]) = Len(rows[1])
    /\ \A i \in DOMAIN keep : keep[i] \in 1..Len(rows[1])
    /\ \A i, j \in DOMAIN keep : i < j => keep[i] < keep[j]
    /\ KeepRows(keep)
    /\ compacted' = TRUE
    /\ faultAt' = IF faultAt = NoFault THEN NoFault ELSE 0
    /\ Return("ok")
    /\ UNCHANGED <<logits, stats, history, mixed, unwound>>

-----------------------------------------------------------------------------
\* Mutant: the logits are read back before the token has been executed.
FeedStale ==
    /\ call.op \in Busy /\ call.todo # <<>>
    /\ EnqueueToken(Head(call.todo))
    /\ call' = [call EXCEPT
         !.todo = Tail(@),
         !.base = IF call.op \in {"verify", "emit"} THEN position ELSE @,
         !.judged = IF call.op = "verify" THEN Append(@, logits) ELSE @]
    /\ UNCHANGED <<stats, ret, calls, faultAt, compacted, mixed>>

\* The next token of the call in progress goes through all layers.  decode_one
\* synchronizes per token: the rows before this one are known to be good.
Feed ==
    /\ call.op \in Busy /\ call.todo # <<>>
    /\ EnqueueToken(Head(call.todo))
    /\ call' = [call EXCEPT
         !.todo = Tail(@),
         !.base = IF call.op \in {"verify", "emit"} THEN position ELSE @,
         !.judged = IF call.op = "verify" THEN Append(@, logits') ELSE @]
    /\ UNCHANGED <<stats, ret, calls, faultAt, compacted, mixed>>

\* A launch or an append of the token fails and the call aborts; finish drains
\* what was submitted, or fails to.
FeedError ==
    /\ call.op \in Busy /\ call.todo # <<>>
    /\ \E k \in 0..NumLayers, drained \in BOOLEAN :
         /\ EnqueuePart(Head(call.todo), k)
         /\ faultAt' = CASE ~drained -> Spoil(call.base)
                       [] drained /\ k > 0 -> Spoil(position)
                       [] drained /\ k = 0 -> faultAt
         /\ unwound' = (unwound \/ ~drained)
    /\ Abort
    /\ UNCHANGED <<stats, calls, compacted, mixed>>

\* finish or the logits readback fails: what was submitted since the last good
\* synchronize may not have happened, but lengths and position count it.
SyncError ==
    /\ call.op \in Busy
    /\ faultAt' = Spoil(call.base)
    /\ unwound' = TRUE
    /\ Abort
    /\ UNCHANGED <<rows, position, logits, stats, calls, history, compacted, mixed>>

\* prefill and decode_one return the logits.
Done ==
    /\ call.op \in {"prefill", "decode"} /\ call.todo = <<>>
    /\ Return("ok")
    /\ UNCHANGED <<rows, position, logits, stats, calls, history, faultAt>>
    /\ UNCHANGED ghosts

\* Mutant: the token reaches the caller before it is executed.
ChooseAndShow(t) ==
    /\ call.op = "generate" /\ call.todo = <<>>
    /\ call.left > 0 /\ ~call.stop
    /\ call' = [call EXCEPT !.out = Append(@, t), !.seen = Append(@, t),
                            !.todo = <<t>>, !.left = @ - 1]
    /\ UNCHANGED <<rows, position, logits, stats, ret, calls, history, faultAt>>
    /\ UNCHANGED ghosts

\* generate: the next token is chosen from the logits and pushed to the output,
\* still to be executed.  All but generate_fixed synchronize to see the token.
Choose(t) ==
    /\ call.op = "generate" /\ call.todo = <<>>
    /\ call.left > 0 /\ ~call.stop /\ call.seen = call.out
    /\ call' = [call EXCEPT !.out = Append(@, t), !.todo = <<t>>, !.left = @ - 1,
                            !.base = IF call.fixed THEN @ ELSE position]
    /\ UNCHANGED <<rows, position, logits, stats, ret, calls, history, faultAt>>
    /\ UNCHANGED ghosts

\* The sampler (or, for zero new tokens, the late validation of the request)
\* refuses after the prompt has been fed.
SampleError ==
    /\ call.op = "generate" /\ call.todo = <<>>
    /\ ~call.fixed /\ call.seen = call.out
    /\ Return("err")
    /\ UNCHANGED <<rows, position, logits, stats, calls, history, faultAt>>
    /\ UNCHANGED ghosts

\* The executed token is shown to the caller's callback, who may stop; the
\* end-of-sequence token stops as well.
Show ==
    /\ call.op = "generate" /\ call.todo = <<>> /\ call.seen # call.out
    /\ \E stop \in (IF call.fixed THEN {FALSE} ELSE BOOLEAN) :
         call' = [call EXCEPT !.seen = call.out, !.stop = stop]
    /\ UNCHANGED <<rows, position, logits, stats, ret, calls, history, faultAt>>
    /\ UNCHANGED ghosts

\* Mutant: generation stops on the chosen token without executing it.
GenerateDoneEarly ==
    /\ call.op = "generate" /\ Len(call.out) > 0
    /\ Return("ok")
    /\ UNCHANGED <<rows, position, logits, stats, calls, history, faultAt>>
    /\ UNCHANGED ghosts

\* generate returns its output.
GenerateDone ==
    /\ call.op = "generate" /\ call.todo = <<>> /\ call.seen = call.out
    /\ call.left = 0 \/ call.stop
    /\ Return("ok")
    /\ UNCHANGED <<rows, position, logits, stats, calls, history, faultAt>>
    /\ UNCHANGED ghosts

\* Mutant: the rejected part of the draft stays in the session.
JudgeKeepsDraft(acc, emitted) ==
    /\ call.op = "verify" /\ call.todo = <<>>
    /\ acc \in 0..Len(call.draft)
    /\ acc < Len(call.draft) => emitted # call.draft[acc + 1]
    /\ RewindTo(Len(call.hist0) + Len(call.draft))
    /\ call' = [call EXCEPT !.op = "emit", !.acc = acc, !.todo = <<emitted>>,
                            !.base = Len(call.hist0) + acc]
    /\ UNCHANGED <<logits, stats, ret, calls, compacted, unwound>>

\* The draft is judged: acc tokens are accepted, the session is rewound to the
\* accepted prefix, and the one target token emitted instead is to be decoded.
Judge(acc, emitted) ==
    /\ call.op = "verify" /\ call.todo = <<>>
    /\ acc \in 0..Len(call.draft)
    /\ acc < Len(call.draft) => emitted # call.draft[acc + 1]
    /\ RewindTo(Len(call.hist0) + acc)
    /\ call' = [call EXCEPT !.op = "emit", !.acc = acc, !.todo = <<emitted>>,
                            !.base = Len(call.hist0) + acc]
    /\ UNCHANGED <<logits, stats, ret, calls, compacted, unwound>>

\* Judging (non-finite logits), the counters or the rewind fail.
JudgeError ==
    /\ call.op = "verify" /\ call.todo = <<>>
    /\ call' = [call EXCEPT !.op = "unwind"]
    /\ UNCHANGED <<rows, position, logits, stats, ret, calls, history, faultAt>>
    /\ UNCHANGED ghosts

\* The emitted token has been decoded: the counters are taken over.
VerifyDone ==
    /\ call.op = "emit" /\ call.todo = <<>>
    /\ stats' = stats + 1
    /\ Return("ok")
    /\ UNCHANGED <<rows, position, logits, calls, history, faultAt>>
    /\ UNCHANGED ghosts

\* The failed verification rewinds to where it started.
UnwindOk ==
    /\ call.op = "unwind"
    /\ RewindTo(Len(call.hist0))
    /\ unwound' = TRUE
    /\ Return("err")
    /\ UNCHANGED <<logits, stats, calls, compacted>>

\* The rewind fails too: the error tells the caller to reset the session.
UnwindError ==
    /\ call.op = "unwind"
    /\ faultAt' = Spoil(call.base)
    /\ unwound' = TRUE
    /\ Return("reset")
    /\ UNCHANGED <<rows, position, logits, stats, calls, history, compacted, mixed>>

-----------------------------------------------------------------------------
Prompts == UNION {[1..n -> Tokens] : n \in 1..MaxPrompt}
Drafts  == UNION {[1..n -> Tokens] : n \in 0..MaxDraft}
Keeps   == {k \in UNION {[1..n -> 1..Capacity] : n \in 0..Capacity} :
               \A i, j \in DOMAIN k : i < j => k[i] < k[j]}

Next ==
    \/ Reset
    \/ \E prompt \in Prompts : Prefill(prompt)
    \/ \E prompt \in Prompts, new \in 1..Capacity, fixed \in BOOLEAN :
            Generate(prompt, new, fixed)
    \/ \E t \in Tokens : Decode(t)
    \/ \E draft \in Drafts : Verify(draft)
    \/ \E keep \in Keeps : Compact(keep)
    \/ Feed \/ FeedError \/ SyncError \/ Done
    \/ \E t \in Tokens : Choose(t)
    \/ SampleError \/ Show \/ GenerateDone
    \/ \E acc \in 0..MaxDraft, t \in Tokens : Judge(acc, t)
    \/ JudgeError \/ VerifyDone \/ UnwindOk \/ UnwindError

Spec == Init /\ [][Next]_vars

-----------------------------------------------------------------------------
\* runtime.rs:918-1120: below the first failed step (and as long as no rows were
\* compacted away) row i of EVERY layer is the i-th token at position i-1, and
\* without failures there are exactly position rows.
IntactPrefix ==
    ~compacted =>
        /\ \A l \in Layers : \A i \in 1..Lesser(position, faultAt) :
              i <= Len(rows[l]) /\ rows[l][i] = Row(history[i], i - 1)
        /\ faultAt = NoFault => \A l \in Layers : Len(rows[l]) = position

\* kv_selection.rs:11-22: after compaction the layers agree, every row is a row
\* of the history under its original position, in order, and later tokens keep
\* their logical positions.  Sessions that also rewound after compacting are
\* left out here: RewoundHistory below is about them.
TrueRows ==
    \A l \in Layers :
        /\ rows[l] = rows[1]
        /\ \A i \in DOMAIN rows[l] :
              /\ rows[l][i].pos < position
              /\ rows[l][i].tok = history[rows[l][i].pos + 1]
        /\ \A i, j \in DOMAIN rows[l] : i < j => rows[l][i].pos < rows[l][j].pos

RetainedHistory == faultAt = NoFault /\ ~mixed => TrueRows

\* runtime.rs:670-672: "The KV cache and position are then rewound to the
\* accepted prefix": after a verification the cache holds rows of the session's
\* history only, on a compacted cache as well.
RewoundHistory == faultAt = NoFault => TrueRows

\* runtime.rs:666-669: row i of the judged logits was computed from the history
\* at the start followed by the first i-1 draft tokens, unless an earlier call
\* was unwound or failed its readback and nothing was decoded since.
JudgedInOrder(c) ==
    \A i \in DOMAIN c.judged : c.judged[i] = c.hist0 \o SubSeq(c.draft, 1, i - 1)

JudgedLogits == call.op = "verify" /\ ~call.doubt => JudgedInOrder(call)

\* runtime.rs:666-667: "The logits of the current position are read back from
\* the session", for every verification of a session no step of which failed.
CurrentLogits == call.op = "verify" /\ faultAt = NoFault => JudgedInOrder(call)

\* runtime.rs:672-674: a verification that succeeds leaves exactly the accepted
\* draft prefix and the emitted token behind the old history.
VerifyExact ==
    [][call.op = "emit" /\ call'.op = "idle" /\ ret' = "ok" =>
        \E e \in Tokens :
          /\ history' = call.hist0 \o SubSeq(call.draft, 1, call.acc) \o <<e>>
          /\ position' = Len(call.hist0) + call.acc + 1
          /\ logits' = history']_vars

\* runtime.rs:677-679: a verification that fails and can rewind leaves cache
\* and position as it found them, and the counters untouched.
FailedVerifyRestores ==
    [][call.op = "unwind" /\ call'.op = "idle" /\ ret' = "err"
         /\ ~compacted /\ faultAt' = NoFault =>
        /\ history' = call.hist0 /\ position' = Len(call.hist0)
        /\ \A l \in Layers : rows'[l] = SubSeq(call.rows0[l], 1, position')
        /\ stats' = stats]_vars

\* runtime.rs:666-679: however a verification ends, cache, position and counters
\* are those of the accepted prefix, or those it began with.
VerifyOutcome == VerifyExact /\ FailedVerifyRestores

\* docs/MODEL_RUNTIME.md:79: every generated token, the last one included, is
\* processed before generate returns.
GenerateExact ==
    [][call.op = "generate" /\ call'.op = "idle" /\ ret' = "ok" =>
        /\ history' = call.prompt \o call.out
        /\ position' = Len(call.prompt) + Len(call.out)]_vars

\* streaming.rs:18-20: the caller sees a token only after the decoder has
\* executed it, so a stop leaves the session ready to continue.
ShownIsExecuted ==
    call.op = "generate" => IsPrefix(call.seen, SubSeq(history, Len(call.prompt) + 1, position))

-----------------------------------------------------------------------------
\* The inductive strengthening of IntactPrefix.

\* How far a call in progress has moved the session.
CallProgress ==
    /\ call.base <= position
    /\ call.op = "verify" =>
          position + Len(call.todo) = Len(call.hist0) + Len(call.draft)
    /\ call.op \in {"verify", "emit", "unwind"} =>
          Len(call.hist0) <= position /\ Len(call.hist0) > 0

\* A fault lies below position until a rewind reaches below the fault.
FaultBelow == faultAt = NoFault \/ faultAt <= position

IInv == TypeOK /\ CallProgress /\ FaultBelow /\ IntactPrefix
=============================================================================
