------------------------ MODULE InferenceSessionProofs ------------------------
(***************************************************************************)
(* Theorems of InferenceSession, for every vocabulary, number of layers    *)
(* and capacity.  First IntactPrefix, by the inductive invariant IInv: the *)
(* data half of a step (rows, position, history, faultAt) is treated once  *)
(* per helper that changes it, the call record per action.  Then, on top   *)
(* of it, what the calls in progress have executed, by HInv.  Last, of     *)
(* KvlabBackend, what the process that drives a session may answer, by     *)
(* BackendInv.                                                             *)
(***************************************************************************)
EXTENDS KvlabBackend, SequenceTheorems, FiniteSetTheorems, TLAPS

\* The data half of IInv.
DataOK ==
    /\ rows \in [Layers -> Seq(Rows)]
    /\ \A l \in Layers : Len(rows[l]) <= Capacity
    /\ position \in 0..Capacity
    /\ history \in Seq(Tokens) /\ Len(history) = position
    /\ faultAt \in 0..NoFault
    /\ compacted \in BOOLEAN
    /\ FaultBelow
    /\ IntactPrefix

\* The rest of IInv, except what the call record says of position.
OtherOK ==
    /\ logits \in Seq(Tokens)
    /\ stats \in Nat /\ calls \in 0..MaxCalls
    /\ ret \in {"ok", "err", "reset"}
    /\ mixed \in BOOLEAN /\ unwound \in BOOLEAN

CallOK == call \in Calls /\ CallProgress

\* IInv is the conjunction of its three parts.
LEMMA Parts == IInv <=> DataOK /\ OtherOK /\ CallOK
  BY DEF IInv, DataOK, OtherOK, CallOK, TypeOK

\* The constants are numbers.
LEMMA Consts == /\ Capacity \in Nat /\ NumLayers \in Nat /\ MaxCalls \in Nat
                /\ NoFault = Capacity + 1 /\ Layers = 1..NumLayers
  BY SessionAssumption DEF NoFault, Layers

-----------------------------------------------------------------------------
\* A row is a record of its token and its position.
LEMMA RowType ==
    ASSUME NEW t \in Tokens, NEW p \in Nat
    PROVE  Row(t, p) \in Rows
  BY DEF Row, Rows

\* A token that passes every layer extends the intact prefix by one row.
LEMMA EnqueueKeeps ==
    ASSUME DataOK, NEW t \in Tokens, EnqueueToken(t), UNCHANGED <<faultAt, compacted>>
    PROVE  DataOK' /\ position' = position + 1 /\ logits' \in Seq(Tokens)
  <1>. USE Consts DEF DataOK
  <1>0. Row(t, position) \in Rows
    BY RowType
  <1>1. rows' \in [Layers -> Seq(Rows)] /\ \A l \in Layers : Len(rows'[l]) = Len(rows[l]) + 1
    BY <1>0 DEF EnqueueToken
  <1>2. /\ \A l \in Layers : Len(rows'[l]) <= Capacity
        /\ position' = position + 1 /\ position' \in 0..Capacity
    BY <1>1 DEF EnqueueToken
  <1>3. /\ history' \in Seq(Tokens) /\ Len(history') = position' /\ logits' \in Seq(Tokens)
        /\ \A i \in 1..position : history'[i] = history[i]
        /\ history'[position + 1] = t
    BY DEF EnqueueToken
  <1>4. FaultBelow'
    BY <1>2 DEF FaultBelow
  <1>5. IntactPrefix'
    <2>1. SUFFICES ASSUME ~compacted
          PROVE /\ \A l \in Layers : \A i \in 1..Lesser(position', faultAt) :
                      i <= Len(rows'[l]) /\ rows'[l][i] = Row(history'[i], i - 1)
                /\ faultAt = NoFault => \A l \in Layers : Len(rows'[l]) = position'
      BY DEF IntactPrefix
    <2>2. ASSUME NEW l \in Layers, NEW i \in 1..Lesser(position', faultAt)
          PROVE  i <= Len(rows'[l]) /\ rows'[l][i] = Row(history'[i], i - 1)
      <3>0. rows'[l] = Append(rows[l], Row(t, position)) /\ rows[l] \in Seq(Rows)
        BY DEF EnqueueToken
      <3>1. CASE i <= position
        <4>1. i \in 1..Lesser(position, faultAt)
          BY <1>2, <3>1 DEF Lesser
        <4>2. i <= Len(rows[l]) /\ rows[l][i] = Row(history[i], i - 1)
          BY <2>1, <4>1 DEF IntactPrefix
        <4>3. rows'[l][i] = rows[l][i]
          BY <3>0, <4>1, <4>2
        <4>4. i \in 1..position
          BY <3>1, <4>1 DEF Lesser
        <4>5. history'[i] = history[i]
          BY <1>3, <4>4
        <4>6. i <= Len(rows'[l])
          BY <1>1, <4>2, <4>4
        <4>. QED
          BY <4>2, <4>3, <4>5, <4>6
      <3>2. CASE i > position
        <4>1. i = position + 1 /\ faultAt = NoFault
          BY <1>2, <3>2 DEF Lesser, FaultBelow
        <4>2. Len(rows[l]) = position
          BY <2>1, <4>1 DEF IntactPrefix
        <4>3. rows'[l][i] = Row(t, position) /\ i <= Len(rows'[l])
          BY <3>0, <4>1, <4>2, <1>1
        <4>. QED
          BY <4>1, <4>3, <1>3
      <3>. QED
        BY <3>1, <3>2, <1>2 DEF Lesser
    <2>3. faultAt = NoFault => \A l \in Layers : Len(rows'[l]) = position'
      BY <2>1, <1>1, <1>2 DEF IntactPrefix
    <2>. QED
      BY <2>2, <2>3
  <1>. QED
    BY <1>1, <1>2, <1>3, <1>4, <1>5

\* Lowering faultAt keeps whatever rows were intact below it.
LEMMA SpoilKeeps ==
    ASSUME DataOK, UNCHANGED <<rows, position, history, compacted>>,
           NEW p \in 0..position, faultAt' = Spoil(p)
    PROVE  DataOK'
  <1>. USE Consts DEF DataOK
  <1>1. /\ faultAt' \in 0..NoFault /\ faultAt' <= faultAt /\ faultAt' <= position
        /\ faultAt' # NoFault
    BY DEF Spoil, Lesser
  <1>2. IntactPrefix'
    BY <1>1 DEF IntactPrefix, Lesser
  <1>. QED
    BY <1>1, <1>2 DEF FaultBelow

\* A token that fails after k layers leaves the rows below position alone.
LEMMA PartKeeps ==
    ASSUME DataOK, NEW t \in Tokens, NEW k \in 0..NumLayers, EnqueuePart(t, k),
           compacted' = compacted,
           \/ \E p \in 0..position : faultAt' = Spoil(p)
           \/ k = 0 /\ faultAt' = faultAt
    PROVE  DataOK'
  <1>. USE Consts DEF DataOK
  <1>1. CASE k = 0 /\ faultAt' = faultAt
    <2>1. rows' = rows
      BY <1>1 DEF EnqueuePart
    <2>. QED
      BY <1>1, <2>1 DEF EnqueuePart, FaultBelow, IntactPrefix
  <1>2. ASSUME NEW p \in 0..position, faultAt' = Spoil(p)
        PROVE  DataOK'
    <2>0. Row(t, position) \in Rows
      BY RowType
    <2>1. /\ faultAt' \in 0..NoFault /\ faultAt' <= faultAt /\ faultAt' <= position
          /\ faultAt' # NoFault
      BY <1>2 DEF Spoil, Lesser
    <2>2. /\ rows' \in [Layers -> Seq(Rows)]
          /\ \A l \in Layers : Len(rows'[l]) <= Capacity
          /\ \A l \in Layers : Len(rows[l]) <= Len(rows'[l])
          /\ \A l \in Layers : \A i \in 1..Len(rows[l]) : rows'[l][i] = rows[l][i]
      BY <2>0 DEF EnqueuePart
    <2>3. IntactPrefix'
      <3>1. SUFFICES ASSUME ~compacted, NEW l \in Layers,
                            NEW i \in 1..Lesser(position, faultAt')
            PROVE  i <= Len(rows'[l]) /\ rows'[l][i] = Row(history[i], i - 1)
        BY <2>1 DEF IntactPrefix, EnqueuePart
      <3>2. i \in 1..Lesser(position, faultAt)
        BY <2>1 DEF Lesser
      <3>3. i <= Len(rows[l]) /\ rows[l][i] = Row(history[i], i - 1)
        BY <3>1, <3>2 DEF IntactPrefix
      <3>4. i \in 1..Len(rows[l]) /\ Len(rows[l]) <= Len(rows'[l]) /\ Len(rows'[l]) \in Nat
            /\ Len(rows[l]) \in Nat
        BY <2>2, <3>3, <3>2 DEF Lesser
      <3>. QED
        BY <2>2, <3>3, <3>4
    <2>. QED
      BY <2>1, <2>2, <2>3 DEF FaultBelow, EnqueuePart
  <1>. QED
    BY <1>1, <1>2

\* reset leaves an empty, faultless session.
LEMMA ResetKeeps ==
    ASSUME DataOK, OtherOK, ResetState
    PROVE  /\ DataOK' /\ position' = 0
           /\ logits' \in Seq(Tokens) /\ stats' \in Nat
           /\ mixed' \in BOOLEAN /\ unwound' \in BOOLEAN
  <1>. USE Consts DEF DataOK
  <1>1. /\ rows' \in [Layers -> Seq(Rows)] /\ \A l \in Layers : Len(rows'[l]) = 0
        /\ position' = 0 /\ history' = <<>> /\ faultAt' = NoFault
    BY DEF ResetState
  <1>2. IntactPrefix'
    BY <1>1 DEF IntactPrefix, Lesser
  <1>3. /\ compacted' \in BOOLEAN /\ mixed' \in BOOLEAN /\ unwound' \in BOOLEAN
        /\ logits' \in Seq(Tokens) /\ stats' \in Nat
    BY Zenon DEF ResetState, OtherOK
  <1>4. FaultBelow' /\ history' \in Seq(Tokens) /\ Len(history') = position'
    BY <1>1 DEF FaultBelow
  <1>5. /\ position' \in 0..Capacity /\ faultAt' \in 0..NoFault
        /\ \A l \in Layers : Len(rows'[l]) <= Capacity
    BY <1>1
  <1>. QED
    BY <1>1, <1>2, <1>3, <1>4, <1>5

\* A rewind keeps the intact prefix up to its target, and a rewind to below the
\* first fault clears it.
LEMMA RewindKeeps ==
    ASSUME DataOK, NEW p \in 0..position, RewindTo(p), compacted' = compacted
    PROVE  DataOK' /\ position' = p
  <1>. USE Consts DEF DataOK
  <1>1. /\ rows' \in [Layers -> Seq(Rows)]
        /\ \A l \in Layers : Len(rows'[l]) = p
        /\ \A l \in Layers : \A i \in 1..p : rows'[l][i] = rows[l][i]
    BY DEF RewindTo
  <1>2. /\ position' = p /\ history' \in Seq(Tokens) /\ Len(history') = p
        /\ \A i \in 1..p : history'[i] = history[i]
    BY DEF RewindTo
  <1>3. /\ p <= faultAt => faultAt' = NoFault
        /\ p > faultAt => faultAt' = faultAt
    BY DEF RewindTo
  <1>4. faultAt' \in 0..NoFault /\ FaultBelow'
    BY <1>2, <1>3 DEF FaultBelow
  <1>5. IntactPrefix'
    <2>1. SUFFICES ASSUME ~compacted, NEW l \in Layers, NEW i \in 1..Lesser(p, faultAt')
          PROVE  i <= Len(rows'[l]) /\ rows'[l][i] = Row(history'[i], i - 1)
      BY <1>1, <1>2 DEF IntactPrefix
    <2>2. i \in 1..p /\ i \in 1..Lesser(position, faultAt)
      BY <1>3 DEF Lesser
    <2>3. rows[l][i] = Row(history[i], i - 1)
      BY <2>1, <2>2 DEF IntactPrefix
    <2>. QED
      BY <1>1, <1>2, <2>2, <2>3
  <1>. QED
    BY <1>1, <1>2, <1>4, <1>5

-----------------------------------------------------------------------------
\* A call that returns leaves the idle record, which says nothing of position.
LEMMA NoCallType == NoCall \in Calls /\ NoCall.base = 0 /\ NoCall.op = "idle"
  <1>1. NoCall \in Calls
    <2>1. [l \in Layers |-> <<>>] \in [Layers -> Seq(Rows)]
      OBVIOUS
    <2>2. <<>> \in Seq(Tokens) /\ <<>> \in Seq(Seq(Tokens))
      OBVIOUS
    <2>. QED
      BY <2>1, <2>2 DEF NoCall, Calls, Busy
  <1>2. NoCall.base = 0 /\ NoCall.op = "idle"
    BY DEF NoCall
  <1>. QED
    BY <1>1, <1>2

\* The same of the call left behind by a return.
LEMMA ReturnOK ==
    ASSUME position' \in Nat, call' = NoCall
    PROVE  CallOK'
  BY NoCallType DEF CallOK, CallProgress

\* The initial session satisfies the invariant.
LEMMA InitInv == Init => IInv
  <1>. SUFFICES ASSUME Init PROVE IInv
    OBVIOUS
  <1>. USE Consts
  <1>1. /\ rows \in [Layers -> Seq(Rows)] /\ \A l \in Layers : Len(rows[l]) = 0
        /\ position = 0 /\ history = <<>> /\ faultAt = NoFault
    BY DEF Init
  <1>2. compacted \in BOOLEAN /\ mixed \in BOOLEAN /\ unwound \in BOOLEAN
    BY Zenon DEF Init
  <1>3. DataOK
    BY <1>1, <1>2 DEF DataOK, FaultBelow, IntactPrefix, Lesser
  <1>4. OtherOK
    BY <1>2 DEF Init, OtherOK
  <1>5. CallOK
    BY <1>1, NoCallType DEF Init, CallOK, CallProgress
  <1>. QED
    BY <1>3, <1>4, <1>5, Parts

\* Outside a verification the call record only says that base is not ahead.
LEMMA PlainOK ==
    ASSUME call' \in Calls, call'.op \in {"prefill", "decode", "generate"},
           call'.base <= position'
    PROVE  CallOK'
  BY DEF CallOK, CallProgress

\* An aborted call either returns an error or goes to its unwinding.
LEMMA AbortOK ==
    ASSUME CallOK, position \in Nat, position' = position, call.op \in Busy, Abort,
           ret \in {"ok", "err", "reset"}
    PROVE  CallOK' /\ ret' \in {"ok", "err", "reset"}
  <1>1. CASE call.op \in {"verify", "emit"}
    <2>1. call' = [call EXCEPT !.op = "unwind", !.todo = <<>>] /\ ret' = ret
      BY <1>1 DEF Abort
    <2>2. call' \in Calls
      <3>1. <<>> \in Seq(Tokens) /\ "unwind" \in Busy \cup {"idle", "unwind"}
        OBVIOUS
      <3>. QED
        BY <2>1, <3>1 DEF CallOK, Calls
    <2>3. call'.op = "unwind" /\ call'.base = call.base /\ call'.hist0 = call.hist0
      BY <2>1 DEF CallOK, Calls
    <2>. QED
      BY <1>1, <2>1, <2>2, <2>3 DEF CallOK, CallProgress
  <1>2. CASE call.op \notin {"verify", "emit"}
    BY <1>2, ReturnOK DEF Abort, Return
  <1>. QED
    BY <1>1, <1>2

\* The three parts of IInv after a step give IInv after it.
LEMMA PartsNext == DataOK' /\ OtherOK' /\ CallOK' => IInv'
  BY DEF IInv, DataOK, OtherOK, CallOK, TypeOK

\* Entering a call counts it within the bound.
LEMMA EnterOK ==
    ASSUME OtherOK, Enter
    PROVE  calls' \in 0..MaxCalls
  BY Consts DEF OtherOK, Enter

\* A step that leaves the data alone keeps the data half.
LEMMA DataSame ==
    ASSUME DataOK, UNCHANGED <<rows, position, history, faultAt, compacted>>
    PROVE  DataOK'
  BY DEF DataOK, FaultBelow, IntactPrefix

\* Every step of the session preserves IInv.
LEMMA StepInv == IInv /\ [Next]_vars => IInv'
  <1>. SUFFICES ASSUME DataOK, OtherOK, CallOK, [Next]_vars
                PROVE  DataOK' /\ OtherOK' /\ CallOK'
    BY Parts, PartsNext
  <1>0. position \in Nat /\ position <= Capacity /\ Capacity \in Nat
    BY Consts DEF DataOK
  <1>1. CASE Reset
    <2>1. DataOK' /\ position' = 0
      BY <1>1, ResetKeeps DEF Reset
    <2>2. OtherOK'
      BY <1>1, ResetKeeps, EnterOK DEF Reset, Return, OtherOK
    <2>. QED
      BY <1>1, <2>1, <2>2, ReturnOK DEF Reset, Return
  <1>2. ASSUME NEW prompt \in Prompts, Prefill(prompt)
        PROVE  DataOK' /\ OtherOK' /\ CallOK'
    <2>1. DataOK' /\ position' = 0
      BY <1>2, ResetKeeps DEF Prefill
    <2>2. OtherOK'
      BY <1>2, ResetKeeps, EnterOK DEF Prefill, OtherOK
    <2>3. prompt \in Seq(Tokens)
      BY SessionAssumption DEF Prompts
    <2>4. call' \in Calls
      <3>1. "prefill" \in Busy \cup {"idle", "unwind"}
        BY DEF Busy
      <3>. QED
        BY <1>2, <2>3, <3>1, NoCallType DEF Prefill, Calls
    <2>5. CallOK'
      <3>1. call'.op = "prefill" /\ call'.base = 0
        BY <1>2 DEF Prefill, NoCall
      <3>. QED
        BY <2>1, <2>4, <3>1, PlainOK
    <2>. QED
      BY <2>1, <2>2, <2>5
  <1>3. ASSUME NEW prompt \in Prompts, NEW new \in 1..Capacity, NEW fixed \in BOOLEAN,
               Generate(prompt, new, fixed)
        PROVE  DataOK' /\ OtherOK' /\ CallOK'
    <2>1. DataOK' /\ position' = 0
      BY <1>3, ResetKeeps DEF Generate
    <2>2. OtherOK'
      BY <1>3, ResetKeeps, EnterOK DEF Generate, OtherOK
    <2>3. prompt \in Seq(Tokens) /\ new \in Nat
      BY SessionAssumption DEF Prompts
    <2>4. call' \in Calls
      <3>1. "generate" \in Busy \cup {"idle", "unwind"}
        BY DEF Busy
      <3>. QED
        BY <1>3, <2>3, <3>1, NoCallType DEF Generate, Calls
    <2>5. CallOK'
      <3>1. call'.op = "generate" /\ call'.base = 0
        BY <1>3 DEF Generate, NoCall
      <3>. QED
        BY <2>1, <2>4, <3>1, PlainOK
    <2>. QED
      BY <2>1, <2>2, <2>5
  <1>4. ASSUME NEW t \in Tokens, Decode(t)
        PROVE  DataOK' /\ OtherOK' /\ CallOK'
    <2>1. DataOK' /\ position' = position
      BY <1>4, DataSame DEF Decode, ghosts
    <2>2. OtherOK'
      BY <1>4, EnterOK DEF Decode, OtherOK, ghosts
    <2>4. call' \in Calls
      <3>1. "decode" \in Busy \cup {"idle", "unwind"} /\ <<t>> \in Seq(Tokens)
        BY DEF Busy
      <3>. QED
        BY <1>0, <1>4, <3>1, NoCallType DEF Decode, Calls
    <2>5. CallOK'
      <3>1. call'.op = "decode" /\ call'.base = position
        BY <1>4 DEF Decode, NoCall
      <3>. QED
        BY <1>0, <2>1, <2>4, <3>1, PlainOK
    <2>. QED
      BY <2>1, <2>2, <2>5
  <1>5. ASSUME NEW draft \in Drafts, Verify(draft)
        PROVE  DataOK' /\ OtherOK' /\ CallOK'
    <2>1. DataOK' /\ position' = position
      BY <1>5, DataSame DEF Verify, ghosts
    <2>2. OtherOK'
      BY <1>5, EnterOK DEF Verify, OtherOK, ghosts
    <2>3. draft \in Seq(Tokens)
      BY SessionAssumption DEF Drafts
    <2>4. /\ history \in Seq(Tokens) /\ Len(history) = position /\ position > 0
          /\ rows \in [Layers -> Seq(Rows)] /\ <<logits>> \in Seq(Seq(Tokens))
          /\ unwound \in BOOLEAN
      BY <1>5 DEF DataOK, OtherOK, Verify
    <2>5. /\ call'.op = "verify" /\ call'.base = position /\ call'.todo = draft
          /\ call'.draft = draft /\ call'.hist0 = history
      BY <1>5 DEF Verify, NoCall
    <2>6. call' \in Calls
      <3>1. "verify" \in Busy \cup {"idle", "unwind"}
        BY DEF Busy
      <3>. QED
        BY <1>0, <1>5, <2>3, <2>4, <3>1, NoCallType DEF Verify, Calls
    <2>7. CallOK'
      <3>1. Len(draft) \in Nat
        BY <2>3
      <3>2. CallProgress'
        <4>1. /\ call'.base <= position'
              /\ Len(call'.hist0) = position' /\ Len(call'.hist0) > 0
              /\ Len(call'.todo) = Len(call'.draft)
          BY <1>0, <2>1, <2>4, <2>5
        <4>. QED
          BY <1>0, <2>1, <2>5, <4>1 DEF CallProgress
      <3>. QED
        BY <2>6, <3>2 DEF CallOK
    <2>. QED
      BY <2>1, <2>2, <2>7
  <1>6. ASSUME NEW keep \in Keeps, Compact(keep)
        PROVE  DataOK' /\ OtherOK' /\ CallOK'
    <2>1. position' = position /\ history' = history /\ compacted' = TRUE
      BY <1>6 DEF Compact, KeepRows
    <2>2. Len(keep) \in 0..Capacity /\ DOMAIN keep = 1..Len(keep)
      BY <1>0 DEF Keeps
    <2>3. rows' \in [Layers -> Seq(Rows)] /\ \A l \in Layers : Len(rows'[l]) <= Capacity
      <3>1. ASSUME NEW l \in Layers
            PROVE  /\ [i \in 1..Len(keep) |-> rows[l][keep[i]]] \in Seq(Rows)
                   /\ Len([i \in 1..Len(keep) |-> rows[l][keep[i]]]) <= Capacity
        <4>1. 1 \in Layers
          BY SessionAssumption DEF Layers
        <4>2. \A i \in 1..Len(keep) : keep[i] \in 1..Len(rows[l])
          BY <1>6, <2>2, <4>1 DEF Compact
        <4>3. \A i \in 1..Len(keep) : rows[l][keep[i]] \in Rows
          BY <4>2 DEF DataOK
        <4>. QED
          BY <1>0, <2>2, <4>3
      <3>2. rows' = [l \in Layers |-> [i \in 1..Len(keep) |-> rows[l][keep[i]]]]
        BY <1>6 DEF Compact, KeepRows
      <3>. QED
        BY <3>1, <3>2
    <2>4. IntactPrefix'
      BY <2>1 DEF IntactPrefix
    <2>5. faultAt' \in 0..NoFault /\ FaultBelow'
      BY <1>0, <1>6, <2>1, Consts DEF Compact, FaultBelow, DataOK
    <2>6. DataOK'
      BY <2>1, <2>3, <2>4, <2>5 DEF DataOK
    <2>7. OtherOK'
      BY <1>6, EnterOK DEF Compact, Return, OtherOK
    <2>. QED
      BY <1>0, <1>6, <2>1, <2>6, <2>7, ReturnOK DEF Compact, Return
  <1>7. CASE Feed
    <2>1. Head(call.todo) \in Tokens /\ Tail(call.todo) \in Seq(Tokens)
          /\ Len(Tail(call.todo)) = Len(call.todo) - 1 /\ Len(call.todo) \in Nat
      BY <1>7 DEF Feed, CallOK, Calls
    <2>2. DataOK' /\ position' = position + 1 /\ logits' \in Seq(Tokens)
      BY <1>7, <2>1, EnqueueKeeps DEF Feed
    <2>3. OtherOK'
      <3>1. unwound' \in BOOLEAN
        BY <1>7, Zenon DEF Feed, EnqueueToken
      <3>. QED
        BY <1>7, <2>2, <3>1 DEF Feed, OtherOK
    <2>4. PICK base \in Nat, judged \in Seq(Seq(Tokens)) :
            /\ base <= position
            /\ call' = [call EXCEPT !.todo = Tail(@), !.base = base, !.judged = judged]
      <3>1. DEFINE base == IF call.op \in {"verify", "emit"} THEN position ELSE call.base
                   judged == IF call.op = "verify" THEN Append(call.judged, logits')
                             ELSE call.judged
      <3>2. base \in Nat /\ base <= position
        BY <1>0 DEF CallOK, CallProgress, Calls
      <3>3. judged \in Seq(Seq(Tokens))
        BY <2>2 DEF CallOK, Calls
      <3>4. call' = [call EXCEPT !.todo = Tail(@), !.base = base, !.judged = judged]
        BY <1>7 DEF Feed
      <3>. HIDE DEF base, judged
      <3>. QED
        BY <3>2, <3>3, <3>4
    <2>5. call' \in Calls
      BY <2>1, <2>4 DEF CallOK, Calls
    <2>6. /\ call'.op = call.op /\ call'.base = base /\ call'.todo = Tail(call.todo)
          /\ call'.hist0 = call.hist0 /\ call'.draft = call.draft
      BY <2>4 DEF CallOK, Calls
    <2>7. Len(call.hist0) \in Nat /\ Len(call.draft) \in Nat
      BY DEF CallOK, Calls
    <2>8. CallProgress'
      <3>1. CallProgress
        BY DEF CallOK
      <3>2. Len(call'.todo) = Len(call.todo) - 1
        BY <2>1, <2>6
      <3>3. call'.base <= position'
        BY <1>0, <2>2, <2>4, <2>6
      <3>4. call.op = "verify" =>
              position' + Len(call'.todo) = Len(call'.hist0) + Len(call'.draft)
        <4>. DEFINE n == Len(call.todo)
                    h == Len(call.hist0)
                    d == Len(call.draft)
        <4>1. n \in Nat /\ h \in Nat /\ d \in Nat
          BY <2>1, <2>7
        <4>2. call.op = "verify" => position + n = h + d
          BY <3>1 DEF CallProgress
        <4>3. Len(call'.todo) = n - 1 /\ Len(call'.hist0) = h /\ Len(call'.draft) = d
          BY <2>6, <3>2
        <4>. HIDE DEF n, h, d
        <4>4. call.op = "verify" => position + 1 + (n - 1) = h + d
          BY <1>0, <4>1, <4>2
        <4>. QED
          BY <2>2, <4>3, <4>4
      <3>5. call.op \in {"verify", "emit", "unwind"} =>
              Len(call'.hist0) <= position' /\ Len(call'.hist0) > 0
        BY <1>0, <2>2, <2>6, <2>7, <3>1 DEF CallProgress
      <3>. QED
        BY <2>6, <3>3, <3>4, <3>5 DEF CallProgress
    <2>. QED
      BY <2>2, <2>3, <2>5, <2>8 DEF CallOK
  <1>8. CASE FeedError
    <2>0. Head(call.todo) \in Tokens /\ call.base \in 0..position /\ call.op \in Busy
      BY <1>0, <1>8 DEF FeedError, CallOK, Calls, CallProgress
    <2>1. PICK k \in 0..NumLayers, drained \in BOOLEAN :
            /\ EnqueuePart(Head(call.todo), k)
            /\ faultAt' = CASE ~drained -> Spoil(call.base)
                          [] drained /\ k > 0 -> Spoil(position)
                          [] drained /\ k = 0 -> faultAt
            /\ unwound' = (unwound \/ ~drained)
      BY <1>8 DEF FeedError
    <2>2. \/ \E p \in 0..position : faultAt' = Spoil(p)
          \/ k = 0 /\ faultAt' = faultAt
      BY <1>0, <2>0, <2>1, Consts
    <2>3. DataOK' /\ position' = position
      BY <1>8, <2>0, <2>1, <2>2, PartKeeps DEF FeedError, EnqueuePart
    <2>4. CallOK' /\ ret' \in {"ok", "err", "reset"}
      BY <1>0, <1>8, <2>0, <2>3, AbortOK DEF FeedError, OtherOK
    <2>5. unwound' \in BOOLEAN
      BY <2>1, Zenon
    <2>6. OtherOK'
      BY <1>8, <2>1, <2>4, <2>5 DEF FeedError, EnqueuePart, OtherOK
    <2>. QED
      BY <2>3, <2>4, <2>6
  <1>9. CASE SyncError
    <2>0. call.base \in 0..position /\ call.op \in Busy
      BY <1>0, <1>9 DEF SyncError, CallOK, Calls, CallProgress
    <2>1. DataOK'
      BY <1>9, <2>0, SpoilKeeps DEF SyncError
    <2>2. CallOK' /\ ret' \in {"ok", "err", "reset"}
      BY <1>0, <1>9, <2>0, AbortOK DEF SyncError, OtherOK
    <2>3. unwound' \in BOOLEAN
      BY <1>9, Zenon DEF SyncError
    <2>. QED
      BY <1>9, <2>1, <2>2, <2>3 DEF SyncError, OtherOK
  <1>10. CASE Done \/ SampleError \/ GenerateDone
    <2>1. /\ UNCHANGED <<rows, position, logits, stats, calls, history, faultAt>>
          /\ UNCHANGED ghosts /\ call' = NoCall /\ ret' \in {"ok", "err", "reset"}
      BY <1>10 DEF Done, SampleError, GenerateDone, Return
    <2>. QED
      BY <1>0, <2>1, DataSame, ReturnOK DEF OtherOK, ghosts
  <1>11. ASSUME NEW t \in Tokens, Choose(t)
         PROVE  DataOK' /\ OtherOK' /\ CallOK'
    <2>1. DataOK' /\ OtherOK' /\ position' = position
      BY <1>11, DataSame DEF Choose, OtherOK, ghosts
    <2>2. PICK base \in 0..position :
            call' = [call EXCEPT !.out = Append(@, t), !.todo = <<t>>, !.left = @ - 1,
                                 !.base = base]
      <3>1. CASE call.fixed
        <4>1. call.base \in 0..position
          BY <1>0 DEF CallOK, CallProgress, Calls
        <4>. QED
          BY <1>11, <3>1, <4>1 DEF Choose
      <3>2. CASE ~call.fixed
        <4>1. position \in 0..position
          BY <1>0
        <4>2. call' = [call EXCEPT !.out = Append(@, t), !.todo = <<t>>, !.left = @ - 1,
                                   !.base = position]
          BY <1>11, <3>2 DEF Choose
        <4>. QED
          BY <4>1, <4>2
      <3>. QED
        BY <3>1, <3>2
    <2>3. /\ Append(call.out, t) \in Seq(Tokens) /\ <<t>> \in Seq(Tokens)
          /\ call.left - 1 \in Nat
      BY <1>11 DEF Choose, CallOK, Calls
    <2>4. call' \in Calls
      <3>1. base \in Nat
        BY <1>0
      <3>. QED
        BY <2>2, <2>3, <3>1 DEF CallOK, Calls
    <2>5. call'.op = "generate" /\ call'.base = base
      BY <1>11, <2>2 DEF CallOK, Calls, Choose
    <2>. QED
      BY <1>0, <2>1, <2>4, <2>5, PlainOK
  <1>12. CASE Show
    <2>1. DataOK' /\ OtherOK' /\ position' = position
      BY <1>12, DataSame DEF Show, OtherOK, ghosts
    <2>2. PICK stop \in BOOLEAN : call' = [call EXCEPT !.seen = call.out, !.stop = stop]
      BY <1>12 DEF Show
    <2>3. call' \in Calls
      BY <2>2 DEF CallOK, Calls
    <2>4. call'.op = "generate" /\ call'.base = call.base
      BY <1>12, <2>2 DEF CallOK, Calls, Show
    <2>. QED
      BY <1>0, <2>1, <2>3, <2>4 DEF CallOK, CallProgress
  <1>13. ASSUME NEW acc \in 0..MaxDraft, NEW t \in Tokens, Judge(acc, t)
         PROVE  DataOK' /\ OtherOK' /\ CallOK'
    <2>1. /\ Len(call.hist0) \in Nat /\ Len(call.draft) \in Nat /\ acc \in Nat
          /\ acc <= Len(call.draft) /\ position = Len(call.hist0) + Len(call.draft)
          /\ Len(call.hist0) > 0
      <3>1. /\ call.op = "verify" /\ Len(call.todo) = 0
            /\ acc \in 0..Len(call.draft)
        BY <1>13 DEF Judge
      <3>2. call.hist0 \in Seq(Tokens) /\ call.draft \in Seq(Tokens)
        BY DEF CallOK, Calls
      <3>3. Len(call.hist0) \in Nat /\ Len(call.draft) \in Nat
        BY <3>2
      <3>4. /\ position + Len(call.todo) = Len(call.hist0) + Len(call.draft)
            /\ Len(call.hist0) > 0
        BY <3>1 DEF CallOK, CallProgress
      <3>5. acc \in Nat /\ acc <= Len(call.draft)
        BY <3>1, <3>3
      <3>. HIDE DEF CallOK, DataOK, OtherOK
      <3>6. position = Len(call.hist0) + Len(call.draft)
        BY <1>0, <3>1, <3>3, <3>4
      <3>. QED
        BY <3>3, <3>4, <3>5, <3>6
    <2>2. DataOK' /\ position' = Len(call.hist0) + acc
      <3>1. Len(call.hist0) + acc \in 0..position
        <4>. DEFINE h == Len(call.hist0)
                    d == Len(call.draft)
        <4>1. h \in Nat /\ d \in Nat /\ acc \in Nat /\ acc <= d /\ position = h + d
          BY <2>1
        <4>. HIDE DEF h, d
        <4>2. h + acc \in 0..position
          BY <4>1
        <4>. QED
          BY <4>2 DEF h
      <3>. QED
        BY <1>13, <3>1, RewindKeeps DEF Judge
    <2>3. mixed' \in BOOLEAN
      BY <1>13, Zenon DEF Judge, RewindTo
    <2>4. OtherOK'
      BY <1>13, <2>3 DEF Judge, OtherOK
    <2>5. call' = [call EXCEPT !.op = "emit", !.acc = acc, !.todo = <<t>>,
                               !.base = Len(call.hist0) + acc]
      BY <1>13 DEF Judge
    <2>6. call' \in Calls
      <3>1. /\ "emit" \in Busy \cup {"idle", "unwind"} /\ <<t>> \in Seq(Tokens)
            /\ Len(call.hist0) + acc \in Nat /\ acc \in Nat
        BY <2>1 DEF Busy
      <3>. QED
        BY <2>5, <3>1 DEF CallOK, Calls
    <2>7. /\ call'.op = "emit" /\ call'.base = Len(call.hist0) + acc
          /\ call'.hist0 = call.hist0
      BY <2>5 DEF CallOK, Calls
    <2>. QED
      BY <2>1, <2>2, <2>4, <2>6, <2>7 DEF CallOK, CallProgress
  <1>14. CASE JudgeError
    <2>1. DataOK' /\ OtherOK' /\ position' = position
      BY <1>14, DataSame DEF JudgeError, OtherOK, ghosts
    <2>2. call' \in Calls
      BY <1>14 DEF CallOK, Calls, JudgeError
    <2>3. /\ call'.op = "unwind" /\ call'.base = call.base /\ call'.hist0 = call.hist0
          /\ call.op = "verify"
      BY <1>14 DEF CallOK, Calls, JudgeError
    <2>. QED
      BY <1>0, <2>1, <2>2, <2>3 DEF CallOK, CallProgress
  <1>15. CASE VerifyDone
    BY <1>0, <1>15, DataSame, ReturnOK DEF VerifyDone, Return, OtherOK, ghosts
  <1>16. CASE UnwindOk
    <2>1. Len(call.hist0) \in 0..position
      BY <1>0, <1>16 DEF UnwindOk, CallOK, CallProgress, Calls
    <2>2. DataOK' /\ position' = Len(call.hist0)
      BY <1>16, <2>1, RewindKeeps DEF UnwindOk
    <2>3. mixed' \in BOOLEAN /\ unwound' \in BOOLEAN
      BY <1>16, Zenon DEF UnwindOk, RewindTo
    <2>. QED
      BY <1>16, <2>1, <2>2, <2>3, ReturnOK DEF UnwindOk, Return, OtherOK
  <1>17. CASE UnwindError
    <2>0. call.base \in 0..position
      BY <1>0 DEF CallOK, Calls, CallProgress
    <2>1. DataOK'
      BY <1>17, <2>0, SpoilKeeps DEF UnwindError
    <2>2. unwound' \in BOOLEAN
      BY <1>17, Zenon DEF UnwindError
    <2>. QED
      BY <1>0, <1>17, <2>1, <2>2, ReturnOK DEF UnwindError, Return, OtherOK
  <1>18. CASE UNCHANGED vars
    BY <1>18, DataSame DEF vars, OtherOK, CallOK, CallProgress
  <1>. QED
    BY <1>1, <1>2, <1>3, <1>4, <1>5, <1>6, <1>7, <1>8, <1>9, <1>10, <1>11, <1>12,
       <1>13, <1>14, <1>15, <1>16, <1>17, <1>18 DEF Next

\* runtime.rs:918-1120: whatever calls are made and whichever steps of them fail,
\* below the first fault every layer holds exactly the session's tokens at their
\* positions, for every vocabulary, layer count and capacity.
THEOREM PrefixIntact == Spec => []IntactPrefix
  <1>1. IInv => IntactPrefix
    BY DEF IInv
  <1>. QED
    BY InitInv, StepInv, <1>1, PTL DEF Spec

\* runtime.rs:605-635: type correctness of the session; no layer outgrows the
\* capacity, and position always counts the tokens the session stands for.
THEOREM SessionTypes == Spec => []TypeOK
  <1>1. IInv => TypeOK
    BY DEF IInv
  <1>. QED
    BY InitInv, StepInv, <1>1, PTL DEF Spec

-----------------------------------------------------------------------------
\* What the session has been fed, against what the call in progress was given.

\* A generation has executed the prompt and its output but for what is to do.
GenerateProgress ==
    call.op = "generate" => history \o call.todo = call.prompt \o call.out

\* A verification decodes its draft behind the old history, then the emitted
\* token behind the accepted part of it.
VerifyProgress ==
    /\ call.op = "verify" => history \o call.todo = call.hist0 \o call.draft
    /\ call.op = "emit" =>
          /\ call.acc <= Len(call.draft)
          /\ \E e \in Tokens :
                history \o call.todo = call.hist0 \o SubSeq(call.draft, 1, call.acc) \o <<e>>
          /\ call.todo = <<>> => logits = history
    /\ call.op \in {"verify", "emit", "unwind"} => IsPrefix(call.hist0, history)

\* The rows a verification began with were those of its history, unless a fault
\* lies below them.
StartRows ==
    call.op \in {"verify", "emit", "unwind"} /\ ~compacted /\ Len(call.hist0) <= faultAt =>
        \A l \in Layers :
            /\ Len(call.rows0[l]) >= Len(call.hist0)
            /\ \A i \in 1..Len(call.hist0) : call.rows0[l][i] = Row(call.hist0[i], i - 1)

\* One row of logits is judged per draft token decoded, and one before them.
JudgedSoFar ==
    call.op = "verify" /\ ~call.doubt =>
        /\ Len(call.judged) + Len(call.todo) = Len(call.draft) + 1
        /\ JudgedInOrder(call)

\* Only a rewind, or a failure to read them back, leaves logits behind.
LogitsFresh ==
    ~unwound /\ position > 0 /\ call.op \notin {"emit", "unwind"} => logits = history

HInv ==
    /\ GenerateProgress /\ ShownIsExecuted
    /\ VerifyProgress /\ StartRows /\ JudgedSoFar /\ LogitsFresh
    /\ RetainedHistory

-----------------------------------------------------------------------------
\* A prefix, element by element.
LEMMA PrefixPointwise ==
    ASSUME NEW S, NEW s \in Seq(S), NEW t \in Seq(S)
    PROVE  IsPrefix(s, t) <=> Len(s) <= Len(t) /\ \A i \in 1..Len(s) : s[i] = t[i]
  <1>1. Len(s) \in Nat /\ Len(t) \in Nat
    BY LenProperties
  <1>2. ASSUME Len(s) <= Len(t)
        PROVE  SubSeq(s, 1, Len(s)) = SubSeq(t, 1, Len(s)) <=> \A i \in 1..Len(s) : s[i] = t[i]
    <2>1. /\ SubSeq(s, 1, Len(s)) = [i \in 1..Len(s) |-> s[i]]
          /\ SubSeq(t, 1, Len(s)) = [i \in 1..Len(s) |-> t[i]]
      BY <1>1, <1>2
    <2>. QED
      BY <2>1
  <1>. QED
    BY <1>2 DEF IsPrefix

\* A cut behind the first part of a concatenation leaves it and a cut of the rest.
LEMMA CutConcat ==
    ASSUME NEW S, NEW s \in Seq(S), NEW t \in Seq(S), NEW n \in 0..Len(t)
    PROVE  SubSeq(s \o t, 1, Len(s) + n) = s \o SubSeq(t, 1, n) /\ SubSeq(t, 1, n) \in Seq(S)
  <1>1. /\ Len(s) \in Nat /\ Len(t) \in Nat /\ n \in Nat /\ s \o t \in Seq(S)
        /\ Len(s \o t) = Len(s) + Len(t)
        /\ \A i \in 1..Len(s) + Len(t) : (s \o t)[i] = IF i <= Len(s) THEN s[i] ELSE t[i - Len(s)]
    BY LenProperties, ConcatProperties
  <1>2. /\ SubSeq(t, 1, n) \in Seq(S) /\ Len(SubSeq(t, 1, n)) = n
        /\ \A i \in 1..n : SubSeq(t, 1, n)[i] = t[i]
    <2>1. \A i \in 1..n : t[i] \in S
      BY <1>1, ElementOfSeq
    <2>. QED
      BY <1>1, <2>1, SubSeqProperties
  <1>3. /\ s \o SubSeq(t, 1, n) \in Seq(S) /\ Len(s \o SubSeq(t, 1, n)) = Len(s) + n
        /\ \A i \in 1..Len(s) + n :
             (s \o SubSeq(t, 1, n))[i] = IF i <= Len(s) THEN s[i] ELSE SubSeq(t, 1, n)[i - Len(s)]
    BY <1>2, ConcatProperties
  <1>4. SubSeq(s \o t, 1, Len(s) + n) = [i \in 1..Len(s) + n |-> (s \o t)[i]]
    BY <1>1
  <1>5. /\ SubSeq(s \o t, 1, Len(s) + n) \in Seq(S)
        /\ Len(SubSeq(s \o t, 1, Len(s) + n)) = Len(s) + n
        /\ \A i \in 1..Len(s) + n : SubSeq(s \o t, 1, Len(s) + n)[i] = (s \o t)[i]
    <2>1. \A i \in 1..Len(s) + n : (s \o t)[i] \in S
      BY <1>1, ElementOfSeq
    <2>. QED
      BY <1>1, <2>1, SubSeqProperties
  <1>6. \A i \in 1..Len(s) + n : (s \o t)[i] = (s \o SubSeq(t, 1, n))[i]
    <2>1. \A i \in 1..Len(s) + n : i \in 1..Len(s) + Len(t) /\ (i <= Len(s) \/ i - Len(s) \in 1..n)
      BY <1>1
    <2>. QED
      BY <1>1, <1>2, <1>3, <2>1
  <1>. QED
    BY <1>2, <1>3, <1>5, <1>6, SeqEqual

\* What lies behind the first part of a concatenation is the second.
LEMMA DropConcat ==
    ASSUME NEW S, NEW s \in Seq(S), NEW t \in Seq(S)
    PROVE  SubSeq(s \o t, Len(s) + 1, Len(s) + Len(t)) = t
  <1>1. /\ Len(s) \in Nat /\ Len(t) \in Nat /\ s \o t \in Seq(S)
        /\ \A i \in 1..Len(s) + Len(t) : (s \o t)[i] = IF i <= Len(s) THEN s[i] ELSE t[i - Len(s)]
    BY LenProperties, ConcatProperties
  <1>2. \A i \in Len(s) + 1..Len(s) + Len(t) : (s \o t)[i] = t[i - Len(s)] /\ i - Len(s) \in 1..Len(t)
    BY <1>1
  <1>3. \A i \in Len(s) + 1..Len(s) + Len(t) : (s \o t)[i] \in S
    BY <1>2, ElementOfSeq
  <1>. DEFINE u == SubSeq(s \o t, Len(s) + 1, Len(s) + Len(t))
  <1>4. /\ u \in Seq(S) /\ Len(u) = Len(t)
        /\ \A i \in 1..Len(t) : u[i] = (s \o t)[Len(s) + i]
    <2>. DEFINE a == Len(s) + 1
                b == Len(s) + Len(t)
    <2>1. a \in Int /\ b \in Int /\ b - a + 1 = Len(t) /\ (a <= b <=> Len(t) > 0)
      BY <1>1
    <2>2. /\ u \in Seq(S) /\ Len(u) = IF a <= b THEN b - a + 1 ELSE 0
          /\ \A i \in 1..b - a + 1 : u[i] = (s \o t)[a + i - 1]
      BY <1>3, <2>1, SubSeqProperties
    <2>3. \A i \in 1..Len(t) : a + i - 1 = Len(s) + i
      BY <1>1
    <2>. QED
      BY <1>1, <2>1, <2>2, <2>3
  <1>5. \A i \in 1..Len(t) : u[i] = t[i]
    <2>1. \A i \in 1..Len(t) : Len(s) + i \in Len(s) + 1..Len(s) + Len(t) /\ (Len(s) + i) - Len(s) = i
      BY <1>1
    <2>. QED
      BY <1>2, <1>4, <2>1
  <1>. HIDE DEF u
  <1>6. u = t
    BY <1>4, <1>5, SeqEqual
  <1>. QED
    BY <1>6 DEF u

\* Moving the head of what is to do behind what was done changes neither.
LEMMA MoveHead ==
    ASSUME NEW S, NEW s \in Seq(S), NEW t \in Seq(S), t # <<>>
    PROVE  Append(s, Head(t)) \o Tail(t) = s \o t
  <1>1. /\ Head(t) \in S /\ Head(t) = t[1] /\ Tail(t) \in Seq(S) /\ Len(Tail(t)) = Len(t) - 1
        /\ \A i \in 1..Len(Tail(t)) : Tail(t)[i] = t[i + 1]
    BY HeadTailProperties
  <1>2. Len(s) \in Nat /\ Len(t) \in Nat \ {0}
    BY LenProperties, EmptySeq, Zenon
  <1>3. /\ Append(s, Head(t)) \in Seq(S) /\ Len(Append(s, Head(t))) = Len(s) + 1
        /\ \A i \in 1..Len(s) : Append(s, Head(t))[i] = s[i]
        /\ Append(s, Head(t))[Len(s) + 1] = Head(t)
    BY <1>1, AppendProperties
  <1>. DEFINE l == Append(s, Head(t)) \o Tail(t)
              r == s \o t
  <1>4. /\ l \in Seq(S) /\ Len(l) = Len(s) + 1 + (Len(t) - 1)
        /\ \A i \in 1..Len(s) + 1 + (Len(t) - 1) :
             l[i] = IF i <= Len(s) + 1 THEN Append(s, Head(t))[i] ELSE Tail(t)[i - (Len(s) + 1)]
    BY <1>1, <1>3, ConcatProperties
  <1>5. /\ r \in Seq(S) /\ Len(r) = Len(s) + Len(t)
        /\ \A i \in 1..Len(s) + Len(t) : r[i] = IF i <= Len(s) THEN s[i] ELSE t[i - Len(s)]
    BY ConcatProperties
  <1>. HIDE DEF l, r
  <1>6. \A i \in 1..Len(s) + Len(t) : l[i] = r[i]
    <2>. TAKE i \in 1..Len(s) + Len(t)
    <2>0. i \in 1..Len(s) + 1 + (Len(t) - 1)
      BY <1>2
    <2>1. CASE i <= Len(s)
      BY <1>2, <1>3, <1>4, <1>5, <2>0, <2>1
    <2>2. CASE i = Len(s) + 1
      BY <1>1, <1>2, <1>3, <1>4, <1>5, <2>0, <2>2
    <2>3. CASE i > Len(s) + 1
      <3>1. i - (Len(s) + 1) \in 1..Len(Tail(t)) /\ i - (Len(s) + 1) + 1 = i - Len(s)
        BY <1>1, <1>2, <2>3
      <3>2. l[i] = Tail(t)[i - (Len(s) + 1)] /\ r[i] = t[i - Len(s)]
        BY <1>2, <1>4, <1>5, <2>0, <2>3
      <3>. QED
        BY <1>1, <3>1, <3>2
    <2>. QED
      BY <1>2, <2>1, <2>2, <2>3
  <1>7. l = r
    BY <1>2, <1>4, <1>5, <1>6, SeqEqual
  <1>. QED
    BY <1>7 DEF l, r

\* A prefix of the tail of a history stays one when the history grows.
LEMMA PrefixGrows ==
    ASSUME NEW S, NEW s \in Seq(S), NEW h \in Seq(S), NEW e \in S, NEW p \in Nat,
           IsPrefix(s, SubSeq(h, p + 1, Len(h)))
    PROVE  IsPrefix(s, SubSeq(Append(h, e), p + 1, Len(h) + 1))
  <1>1. Len(h) \in Nat /\ Len(s) \in Nat
    BY LenProperties
  <1>2. /\ Append(h, e) \in Seq(S) /\ Len(Append(h, e)) = Len(h) + 1
        /\ \A i \in 1..Len(h) : Append(h, e)[i] = h[i]
    BY AppendProperties
  <1>. DEFINE u == SubSeq(h, p + 1, Len(h))
              v == SubSeq(Append(h, e), p + 1, Len(h) + 1)
  <1>3. /\ u \in Seq(S) /\ Len(u) = IF p + 1 <= Len(h) THEN Len(h) - p ELSE 0
        /\ \A i \in 1..Len(h) - p : u[i] = h[p + i]
    <2>1. \A i \in p + 1..Len(h) : h[i] \in S
      BY <1>1, ElementOfSeq
    <2>2. /\ u \in Seq(S) /\ Len(u) = IF p + 1 <= Len(h) THEN Len(h) - (p + 1) + 1 ELSE 0
          /\ \A i \in 1..Len(h) - (p + 1) + 1 : u[i] = h[p + 1 + i - 1]
      BY <1>1, <2>1, SubSeqProperties
    <2>3. Len(h) - (p + 1) + 1 = Len(h) - p /\ \A i \in 1..Len(h) - p : p + 1 + i - 1 = p + i
      BY <1>1
    <2>. QED
      BY <2>2, <2>3
  <1>4. /\ v \in Seq(S) /\ Len(v) = IF p + 1 <= Len(h) + 1 THEN Len(h) + 1 - p ELSE 0
        /\ \A i \in 1..Len(h) + 1 - p : v[i] = Append(h, e)[p + i]
    <2>1. \A i \in p + 1..Len(h) + 1 : Append(h, e)[i] \in S
      BY <1>1, <1>2, ElementOfSeq
    <2>2. /\ v \in Seq(S) /\ Len(v) = IF p + 1 <= Len(h) + 1 THEN Len(h) + 1 - (p + 1) + 1 ELSE 0
          /\ \A i \in 1..Len(h) + 1 - (p + 1) + 1 : v[i] = Append(h, e)[p + 1 + i - 1]
      BY <1>1, <2>1, SubSeqProperties
    <2>3. Len(h) + 1 - (p + 1) + 1 = Len(h) + 1 - p /\ \A i \in 1..Len(h) + 1 - p : p + 1 + i - 1 = p + i
      BY <1>1
    <2>. QED
      BY <2>2, <2>3
  <1>0. IsPrefix(s, u)
    OBVIOUS
  <1>. HIDE DEF u, v
  <1>5. Len(s) <= Len(u) /\ \A i \in 1..Len(s) : s[i] = u[i]
    BY <1>0, <1>3, PrefixPointwise
  <1>6. Len(s) <= Len(v)
    BY <1>1, <1>3, <1>4, <1>5
  <1>7. \A i \in 1..Len(s) : s[i] = v[i]
    <2>. TAKE i \in 1..Len(s)
    <2>1. i \in 1..Len(h) - p /\ i \in 1..Len(h) + 1 - p /\ p + i \in 1..Len(h)
      BY <1>1, <1>3, <1>5
    <2>. QED
      BY <1>2, <1>3, <1>4, <1>5, <2>1
  <1>8. IsPrefix(s, v)
    BY <1>4, <1>6, <1>7, PrefixPointwise
  <1>. QED
    BY <1>8 DEF v

\* A prefix of a history is one of any history that goes on from it.
LEMMA PrefixAppend ==
    ASSUME NEW S, NEW s \in Seq(S), NEW h \in Seq(S), NEW e \in S, IsPrefix(s, h)
    PROVE  IsPrefix(s, Append(h, e))
  <1>1. /\ Append(h, e) \in Seq(S) /\ Len(Append(h, e)) = Len(h) + 1
        /\ \A i \in 1..Len(h) : Append(h, e)[i] = h[i]
    BY AppendProperties
  <1>2. Len(s) <= Len(h) /\ \A i \in 1..Len(s) : s[i] = h[i]
    BY PrefixPointwise
  <1>3. Len(s) \in Nat /\ Len(h) \in Nat
    BY LenProperties
  <1>4. Len(s) <= Len(Append(h, e)) /\ \A i \in 1..Len(s) : s[i] = Append(h, e)[i]
    BY <1>1, <1>2, <1>3
  <1>. QED
    BY <1>1, <1>4, PrefixPointwise

\* A history cut behind a prefix of it keeps that prefix.
LEMMA PrefixCut ==
    ASSUME NEW S, NEW s \in Seq(S), NEW h \in Seq(S), NEW n \in 0..Len(h),
           IsPrefix(s, h), Len(s) <= n
    PROVE  IsPrefix(s, SubSeq(h, 1, n))
  <1>1. Len(s) \in Nat /\ Len(h) \in Nat
    BY LenProperties
  <1>2. Len(s) <= Len(h) /\ \A i \in 1..Len(s) : s[i] = h[i]
    BY PrefixPointwise
  <1>3. /\ SubSeq(h, 1, n) \in Seq(S) /\ Len(SubSeq(h, 1, n)) = n
        /\ \A i \in 1..n : SubSeq(h, 1, n)[i] = h[i]
    <2>1. \A i \in 1..n : h[i] \in S
      BY <1>1, ElementOfSeq
    <2>. QED
      BY <1>1, <2>1, SubSeqProperties
  <1>4. Len(s) <= Len(SubSeq(h, 1, n)) /\ \A i \in 1..Len(s) : s[i] = SubSeq(h, 1, n)[i]
    BY <1>1, <1>2, <1>3
  <1>. QED
    BY <1>3, <1>4, PrefixPointwise

\* A concatenation cut behind its first part is that part.
LEMMA FirstPart ==
    ASSUME NEW S, NEW s \in Seq(S), NEW t \in Seq(S)
    PROVE  SubSeq(s \o t, 1, Len(s)) = s
  <1>1. Len(s) \in Nat /\ Len(t) \in Nat
    BY LenProperties
  <1>2. SubSeq(s \o t, 1, Len(s) + 0) = s \o SubSeq(t, 1, 0)
    BY <1>1, CutConcat
  <1>3. s \o SubSeq(t, 1, 0) = s
    <2>1. SubSeq(t, 1, 0) = <<>>
      BY SubSeqEmpty
    <2>. QED
      BY <2>1, ConcatEmptySeq
  <1>. QED
    BY <1>1, <1>2, <1>3

-----------------------------------------------------------------------------
\* The half of HInv that is about the call in progress.
CallHInv == GenerateProgress /\ ShownIsExecuted /\ VerifyProgress /\ StartRows /\ JudgedSoFar

\* What the type invariant says of the sequences of a session.
LEMMA SessionSequences ==
    ASSUME IInv
    PROVE  /\ history \in Seq(Tokens) /\ position = Len(history) /\ position \in Nat
           /\ logits \in Seq(Tokens) /\ faultAt \in Nat /\ unwound \in BOOLEAN
           /\ call \in Calls /\ call.prompt \in Seq(Tokens) /\ call.todo \in Seq(Tokens)
           /\ call.out \in Seq(Tokens) /\ call.seen \in Seq(Tokens)
           /\ call.draft \in Seq(Tokens) /\ call.hist0 \in Seq(Tokens)
           /\ call.judged \in Seq(Seq(Tokens)) /\ call.acc \in Nat
           /\ call.op \in {"verify", "emit", "unwind"} =>
                 Len(call.hist0) <= position /\ Len(call.hist0) > 0
  BY Consts DEF IInv, TypeOK, Calls, CallProgress

\* A call that is neither a generation nor a verification claims nothing.
LEMMA OtherCalls ==
    ASSUME call.op \in {"idle", "prefill", "decode"}
    PROVE  CallHInv
  BY DEF CallHInv, GenerateProgress, ShownIsExecuted, VerifyProgress, StartRows, JudgedSoFar

\* The same after a step.
LEMMA OtherCallsNext ==
    ASSUME call'.op \in {"idle", "prefill", "decode"}
    PROVE  CallHInv'
  BY DEF CallHInv, GenerateProgress, ShownIsExecuted, VerifyProgress, StartRows, JudgedSoFar

\* An executed token moves from what is to do to the history and its logits
\* join the judged ones.
LEMMA FeedProgress ==
    ASSUME IInv, IInv', CallHInv, Feed
    PROVE  CallHInv' /\ logits' = history'
  <1>. DEFINE t == Head(call.todo)
  <1>1. /\ history' = Append(history, t) /\ logits' = history' /\ position' = position + 1
        /\ UNCHANGED <<faultAt, compacted>> /\ call.todo # <<>> /\ call.op \in Busy
    BY DEF Feed, EnqueueToken
  <1>2. /\ call'.op = call.op /\ call'.todo = Tail(call.todo) /\ call'.prompt = call.prompt
        /\ call'.out = call.out /\ call'.seen = call.seen /\ call'.draft = call.draft
        /\ call'.acc = call.acc /\ call'.hist0 = call.hist0 /\ call'.rows0 = call.rows0
        /\ call'.doubt = call.doubt
        /\ call.op = "verify" => call'.judged = Append(call.judged, history')
    BY <1>1 DEF Feed, IInv, TypeOK, Calls
  <1>3. t \in Tokens /\ call'.todo \in Seq(Tokens) /\ Len(call'.todo) = Len(call.todo) - 1
        /\ Len(call.todo) \in Nat
    BY <1>1, <1>2, SessionSequences, HeadTailProperties, LenProperties
  <1>4. history' \o call'.todo = history \o call.todo
    BY <1>1, <1>2, SessionSequences, MoveHead
  <1>5. GenerateProgress'
    BY <1>2, <1>4 DEF CallHInv, GenerateProgress
  <1>6. ShownIsExecuted'
    <2>1. SUFFICES ASSUME call.op = "generate"
          PROVE  IsPrefix(call.seen, SubSeq(Append(history, t), Len(call.prompt) + 1, Len(history) + 1))
      BY <1>1, <1>2, SessionSequences DEF ShownIsExecuted
    <2>2. IsPrefix(call.seen, SubSeq(history, Len(call.prompt) + 1, Len(history)))
      BY <2>1, SessionSequences DEF CallHInv, ShownIsExecuted
    <2>3. Len(call.prompt) \in Nat
      BY SessionSequences, LenProperties
    <2>. HIDE DEF t
    <2>. QED
      BY <1>3, <2>2, <2>3, SessionSequences, PrefixGrows
  <1>7. VerifyProgress'
    <2>1. call.op \in {"verify", "emit", "unwind"} => IsPrefix(call.hist0, history')
      BY <1>1, <1>3, SessionSequences, PrefixAppend DEF CallHInv, VerifyProgress
    <2>. QED
      BY <1>1, <1>2, <1>4, <2>1 DEF CallHInv, VerifyProgress
  <1>8. StartRows'
    BY <1>1, <1>2 DEF CallHInv, StartRows
  <1>9. JudgedSoFar'
    <2>1. SUFFICES ASSUME call.op = "verify", ~call.doubt
          PROVE  /\ Len(call'.judged) + Len(call'.todo) = Len(call.draft) + 1
                 /\ \A i \in DOMAIN call'.judged :
                       call'.judged[i] = call.hist0 \o SubSeq(call.draft, 1, i - 1)
      BY <1>2 DEF JudgedSoFar, JudgedInOrder
    <2>. DEFINE n == Len(call.judged)
    <2>2. /\ n \in Nat /\ Len(call'.judged) = n + 1 /\ DOMAIN call'.judged = 1..n + 1
          /\ \A i \in 1..n : call'.judged[i] = call.judged[i]
          /\ call'.judged[n + 1] = history' /\ DOMAIN call.judged = 1..n
      <3>1. call.judged \in Seq(Seq(Tokens)) /\ history' \in Seq(Tokens)
        BY SessionSequences DEF IInv, TypeOK
      <3>. QED
        BY <1>2, <2>1, <3>1
    <2>3. /\ n + Len(call.todo) = Len(call.draft) + 1
          /\ \A i \in 1..n : call.judged[i] = call.hist0 \o SubSeq(call.draft, 1, i - 1)
      BY <2>1, <2>2 DEF CallHInv, JudgedSoFar, JudgedInOrder
    <2>4. history' = call.hist0 \o SubSeq(call.draft, 1, n)
      <3>1. history' \in Seq(Tokens) /\ Len(history') = position + 1
        BY <1>1 DEF IInv, TypeOK
      <3>2. history' \o call'.todo = call.hist0 \o call.draft
        BY <1>4, <2>1 DEF CallHInv, VerifyProgress
      <3>3. Len(call.hist0) <= Len(history')
        BY <2>1, <3>1, SessionSequences, LenProperties
      <3>4. position + Len(call.todo) = Len(call.hist0) + Len(call.draft)
        BY <2>1 DEF IInv, CallProgress
      <3>5. Len(history') = Len(call.hist0) + n /\ n \in 0..Len(call.draft)
        <4>. DEFINE h == Len(call.hist0)
                    d == Len(call.draft)
                    k == Len(call.todo)
        <4>1. h \in Nat /\ d \in Nat /\ position \in Nat /\ k \in Nat /\ k - 1 \in Nat
          BY <1>3, SessionSequences, LenProperties
        <4>2. n + k = d + 1 /\ position + k = h + d /\ Len(history') = position + 1
          BY <2>3, <3>1, <3>4
        <4>. HIDE DEF n, h, d, k
        <4>3. Len(history') = h + n /\ n \in 0..d
          BY <2>2, <4>1, <4>2
        <4>. QED
          BY <4>3 DEF h, d
      <3>6. SubSeq(history' \o call'.todo, 1, Len(history')) = history'
        BY <1>3, <3>1, FirstPart
      <3>. HIDE DEF n
      <3>7. SubSeq(call.hist0 \o call.draft, 1, Len(call.hist0) + n) = call.hist0 \o SubSeq(call.draft, 1, n)
        <4>1. call.hist0 \in Seq(Tokens) /\ call.draft \in Seq(Tokens) /\ n \in 0..Len(call.draft)
          BY <3>5, SessionSequences
        <4>. QED
          BY <4>1, CutConcat, Zenon
      <3>. QED
        BY <3>2, <3>5, <3>6, <3>7
    <2>. HIDE DEF n
    <2>5. \A i \in 1..n + 1 : i \in 1..n \/ (i = n + 1 /\ i - 1 = n)
      BY <2>2
    <2>6. \A i \in 1..n + 1 : call'.judged[i] = call.hist0 \o SubSeq(call.draft, 1, i - 1)
      BY <2>2, <2>3, <2>4, <2>5
    <2>7. n + 1 + Len(call'.todo) = Len(call.draft) + 1
      <3>. DEFINE d == Len(call.draft)
                  k == Len(call.todo)
      <3>1. d \in Nat /\ k \in Nat /\ n \in Nat /\ n + k = d + 1 /\ Len(call'.todo) = k - 1
        BY <1>3, <2>2, <2>3, SessionSequences, LenProperties
      <3>. HIDE DEF d, k
      <3>2. n + 1 + (k - 1) = d + 1
        BY <3>1
      <3>. QED
        BY <3>1, <3>2 DEF d
    <2>. QED
      BY <2>2, <2>6, <2>7
  <1>. QED
    BY <1>1, <1>5, <1>6, <1>7, <1>8, <1>9 DEF CallHInv

\* Nothing is a prefix of everything, and a sequence of itself.
LEMMA PrefixTrivial ==
    ASSUME NEW S, NEW s \in Seq(S)
    PROVE  IsPrefix(<<>>, s) /\ IsPrefix(s, s)
  <1>1. <<>> \in Seq(S) /\ Len(<<>>) = 0 /\ Len(s) \in Nat
    BY EmptySeq, LenProperties
  <1>2. IsPrefix(<<>>, s)
    <2>1. SubSeq(<<>>, 1, 0) = <<>> /\ SubSeq(s, 1, 0) = <<>>
      BY SubSeqEmpty
    <2>. QED
      BY <1>1, <2>1 DEF IsPrefix
  <1>3. IsPrefix(s, s)
    BY <1>1 DEF IsPrefix
  <1>. QED
    BY <1>2, <1>3

\* Concatenation may be regrouped.
LEMMA Regroup ==
    \A s, t, u \in Seq(Tokens) : (s \o t) \o u = s \o (t \o u)
  BY ConcatAssociative

\* A verification that goes to its rewind still stands on its old history.
LEMMA UnwindBegins ==
    ASSUME IInv, CallHInv, call.op \in {"verify", "emit"}, call'.op = "unwind",
           call'.hist0 = call.hist0, call'.rows0 = call.rows0,
           UNCHANGED <<history, compacted>>, faultAt' \in Nat, faultAt' <= faultAt
    PROVE  CallHInv'
  <1>1. IsPrefix(call.hist0, history)
    BY DEF CallHInv, VerifyProgress
  <1>2. GenerateProgress' /\ ShownIsExecuted' /\ JudgedSoFar'
    BY DEF GenerateProgress, ShownIsExecuted, JudgedSoFar
  <1>3. VerifyProgress'
    BY <1>1 DEF VerifyProgress
  <1>4. StartRows'
    <2>1. Len(call.hist0) \in Nat /\ faultAt \in Nat
      BY SessionSequences, LenProperties
    <2>2. Len(call.hist0) <= faultAt' => Len(call.hist0) <= faultAt
      BY <2>1
    <2>. QED
      BY <2>2 DEF CallHInv, StartRows
  <1>. QED
    BY <1>2, <1>3, <1>4 DEF CallHInv

\* An aborted call has returned, or is a verification at its rewind.
LEMMA AbortProgress ==
    ASSUME IInv, CallHInv, Abort, UNCHANGED <<history, compacted>>,
           faultAt' \in Nat, faultAt' <= faultAt
    PROVE  CallHInv'
  <1>1. CASE call.op \in {"verify", "emit"}
    <2>1. call'.op = "unwind" /\ call'.hist0 = call.hist0 /\ call'.rows0 = call.rows0
      BY <1>1, SessionSequences DEF Abort, Calls
    <2>. QED
      BY <1>1, <2>1, UnwindBegins
  <1>2. CASE call.op \notin {"verify", "emit"}
    BY <1>2, NoCallType, OtherCallsNext DEF Abort, Return
  <1>. QED
    BY <1>1, <1>2

\* A generation begins with its prompt to be executed.
LEMMA GenerateBegins ==
    ASSUME NEW prompt \in Seq(Tokens), NEW new \in Nat, NEW fixed \in BOOLEAN,
           Generate(prompt, new, fixed)
    PROVE  CallHInv'
  <1>1. /\ call'.op = "generate" /\ call'.prompt = prompt /\ call'.todo = prompt
        /\ call'.out = <<>> /\ call'.seen = <<>> /\ history' = <<>> /\ position' = 0
    BY DEF Generate, NoCall, ResetState
  <1>2. GenerateProgress'
    BY <1>1, ConcatEmptySeq DEF GenerateProgress
  <1>3. ShownIsExecuted'
    <2>1. SubSeq(<<>>, Len(prompt) + 1, 0) = <<>>
      <3>1. Len(prompt) \in Nat
        BY LenProperties
      <3>. QED
        BY <3>1, SubSeqEmpty
    <2>2. IsPrefix(<<>>, <<>>)
      BY EmptySeq, PrefixTrivial
    <2>. QED
      BY <1>1, <2>1, <2>2 DEF ShownIsExecuted
  <1>4. VerifyProgress' /\ StartRows' /\ JudgedSoFar'
    BY <1>1 DEF VerifyProgress, StartRows, JudgedSoFar
  <1>. QED
    BY <1>2, <1>3, <1>4 DEF CallHInv

\* A chosen token is the next of the output, and is to be executed.
LEMMA ChooseProgress ==
    ASSUME IInv, CallHInv, NEW t \in Tokens, Choose(t)
    PROVE  CallHInv'
  <1>1. /\ call'.op = "generate" /\ call'.prompt = call.prompt /\ call'.todo = <<t>>
        /\ call'.out = Append(call.out, t) /\ call'.seen = call.seen
        /\ UNCHANGED <<history, position>> /\ call.op = "generate" /\ call.todo = <<>>
    BY SessionSequences DEF Choose, Calls
  <1>2. /\ history \in Seq(Tokens) /\ call.prompt \in Seq(Tokens)
        /\ call.out \in Seq(Tokens) /\ <<t>> \in Seq(Tokens)
    BY SessionSequences
  <1>3. history = call.prompt \o call.out
    <2>1. history \o <<>> = call.prompt \o call.out
      BY <1>1 DEF CallHInv, GenerateProgress
    <2>. QED
      BY <1>2, <2>1, ConcatEmptySeq
  <1>4. GenerateProgress'
    <2>1. Append(call.out, t) = call.out \o <<t>>
      BY <1>2, AppendIsConcat
    <2>2. (call.prompt \o call.out) \o <<t>> = call.prompt \o (call.out \o <<t>>)
      BY <1>2, Regroup, Zenon
    <2>. QED
      BY <1>1, <1>3, <2>1, <2>2 DEF GenerateProgress
  <1>5. ShownIsExecuted'
    BY <1>1 DEF CallHInv, ShownIsExecuted
  <1>6. VerifyProgress' /\ StartRows' /\ JudgedSoFar'
    BY <1>1 DEF VerifyProgress, StartRows, JudgedSoFar
  <1>. QED
    BY <1>4, <1>5, <1>6 DEF CallHInv

\* A token is shown when nothing is left to do: all of the output is executed.
LEMMA ShowProgress ==
    ASSUME IInv, CallHInv, Show
    PROVE  CallHInv'
  <1>1. /\ call'.op = "generate" /\ call'.prompt = call.prompt /\ call'.todo = call.todo
        /\ call'.out = call.out /\ call'.seen = call.out
        /\ UNCHANGED <<history, position>> /\ call.op = "generate" /\ call.todo = <<>>
    BY SessionSequences DEF Show, Calls
  <1>2. /\ history \in Seq(Tokens) /\ call.prompt \in Seq(Tokens) /\ call.out \in Seq(Tokens)
        /\ position = Len(history)
    BY SessionSequences
  <1>3. history = call.prompt \o call.out
    <2>1. history \o <<>> = call.prompt \o call.out
      BY <1>1 DEF CallHInv, GenerateProgress
    <2>. QED
      BY <1>2, <2>1, ConcatEmptySeq
  <1>4. SubSeq(history, Len(call.prompt) + 1, position) = call.out
    <2>1. Len(call.prompt \o call.out) = Len(call.prompt) + Len(call.out)
      BY <1>2, ConcatProperties
    <2>. QED
      BY <1>2, <1>3, <2>1, DropConcat
  <1>5. ShownIsExecuted'
    BY <1>1, <1>2, <1>4, PrefixTrivial DEF ShownIsExecuted
  <1>6. GenerateProgress'
    BY <1>1 DEF CallHInv, GenerateProgress
  <1>7. VerifyProgress' /\ StartRows' /\ JudgedSoFar'
    BY <1>1 DEF VerifyProgress, StartRows, JudgedSoFar
  <1>. QED
    BY <1>5, <1>6, <1>7 DEF CallHInv

\* A verification begins on the history, the rows and the logits it finds.
LEMMA VerifyBegins ==
    ASSUME IInv, LogitsFresh, NEW draft \in Seq(Tokens), Verify(draft)
    PROVE  CallHInv'
  <1>1. /\ call'.op = "verify" /\ call'.todo = draft /\ call'.draft = draft
        /\ call'.hist0 = history /\ call'.rows0 = rows /\ call'.judged = <<logits>>
        /\ call'.doubt = unwound /\ UNCHANGED <<history, faultAt, compacted>>
        /\ call.op = "idle" /\ position > 0
    BY DEF Verify, NoCall, Enter, ghosts
  <1>2. /\ history \in Seq(Tokens) /\ position = Len(history) /\ position \in Nat
        /\ faultAt \in Nat
    BY SessionSequences
  <1>3. VerifyProgress'
    BY <1>1, <1>2, PrefixTrivial DEF VerifyProgress
  <1>4. StartRows'
    <2>1. SUFFICES ASSUME ~compacted, Len(history) <= faultAt, NEW l \in Layers
          PROVE  /\ Len(rows[l]) >= Len(history)
                 /\ \A i \in 1..Len(history) : rows[l][i] = Row(history[i], i - 1)
      BY <1>1 DEF StartRows
    <2>2. Lesser(position, faultAt) = position
      BY <1>2, <2>1 DEF Lesser
    <2>3. \A i \in 1..position : i <= Len(rows[l]) /\ rows[l][i] = Row(history[i], i - 1)
      BY <2>1, <2>2 DEF IInv, IntactPrefix
    <2>4. position \in 1..position
      BY <1>1, <1>2
    <2>5. Len(rows[l]) \in Nat
      <3>1. rows[l] \in Seq(Rows)
        BY DEF IInv, TypeOK
      <3>. QED
        BY <3>1, LenProperties
    <2>. QED
      BY <1>2, <2>3, <2>4, <2>5
  <1>5. JudgedSoFar'
    <2>1. SUFFICES ASSUME ~unwound
          PROVE  /\ Len(<<logits>>) + Len(draft) = Len(draft) + 1
                 /\ \A i \in DOMAIN <<logits>> : <<logits>>[i] = history \o SubSeq(draft, 1, i - 1)
      BY <1>1 DEF JudgedSoFar, JudgedInOrder
    <2>2. logits = history
      BY <1>1, <2>1 DEF LogitsFresh
    <2>3. history \o SubSeq(draft, 1, 0) = history
      <3>1. SubSeq(draft, 1, 0) = <<>>
        BY SubSeqEmpty
      <3>. QED
        BY <1>2, <3>1, ConcatEmptySeq
    <2>4. Len(draft) \in Nat
      BY LenProperties
    <2>5. Len(<<logits>>) = 1 /\ DOMAIN <<logits>> = {1} /\ <<logits>>[1] = logits
      OBVIOUS
    <2>6. \A i \in {1} : i - 1 = 0
      OBVIOUS
    <2>. QED
      BY <2>2, <2>3, <2>4, <2>5, <2>6
  <1>6. GenerateProgress' /\ ShownIsExecuted'
    BY <1>1 DEF GenerateProgress, ShownIsExecuted
  <1>. QED
    BY <1>3, <1>4, <1>5, <1>6 DEF CallHInv

\* The judged draft leaves its accepted part behind the old history.
LEMMA JudgeProgress ==
    ASSUME IInv, IInv', CallHInv, NEW acc \in Nat, NEW e \in Tokens, Judge(acc, e)
    PROVE  CallHInv'
  <1>. DEFINE p == Len(call.hist0) + acc
  <1>1. /\ call'.op = "emit" /\ call'.todo = <<e>> /\ call'.acc = acc
        /\ call'.draft = call.draft /\ call'.hist0 = call.hist0 /\ call'.rows0 = call.rows0
    BY SessionSequences DEF Judge, Calls
  <1>2. /\ call.op = "verify" /\ call.todo = <<>> /\ acc \in 0..Len(call.draft)
        /\ history' = SubSeq(history, 1, p) /\ compacted' = compacted
        /\ faultAt' = IF p <= faultAt THEN NoFault ELSE faultAt
    BY DEF Judge, RewindTo
  <1>3. /\ history \in Seq(Tokens) /\ call.draft \in Seq(Tokens) /\ call.hist0 \in Seq(Tokens)
        /\ Len(call.hist0) \in Nat /\ Len(call.draft) \in Nat /\ faultAt \in Nat
    BY SessionSequences, LenProperties
  <1>4. history = call.hist0 \o call.draft /\ Len(history) = Len(call.hist0) + Len(call.draft)
    <2>1. history \o <<>> = call.hist0 \o call.draft
      BY <1>2 DEF CallHInv, VerifyProgress
    <2>. QED
      BY <1>3, <2>1, ConcatEmptySeq, ConcatProperties
  <1>5. history' = call.hist0 \o SubSeq(call.draft, 1, acc)
    <2>1. SubSeq(call.hist0 \o call.draft, 1, Len(call.hist0) + acc)
            = call.hist0 \o SubSeq(call.draft, 1, acc)
      <3>1. call.hist0 \in Seq(Tokens) /\ call.draft \in Seq(Tokens) /\ acc \in 0..Len(call.draft)
        BY <1>2, <1>3
      <3>. QED
        BY <3>1, CutConcat, Zenon
    <2>. QED
      BY <1>2, <1>4, <2>1
  <1>6. IsPrefix(call.hist0, history')
    <2>1. IsPrefix(call.hist0, history)
      BY <1>2 DEF CallHInv, VerifyProgress
    <2>2. p \in 0..Len(history) /\ Len(call.hist0) <= p
      <3>. DEFINE h == Len(call.hist0)
                  d == Len(call.draft)
      <3>1. h \in Nat /\ d \in Nat /\ acc \in 0..d /\ Len(history) = h + d
        BY <1>2, <1>3, <1>4
      <3>. HIDE DEF h, d
      <3>2. h + acc \in 0..Len(history) /\ h <= h + acc
        BY <3>1
      <3>. QED
        BY <3>2 DEF h
    <2>. HIDE DEF p
    <2>. QED
      BY <1>2, <1>3, <2>1, <2>2, PrefixCut
  <1>7. VerifyProgress'
    <2>1. \E x \in Tokens :
             history' \o <<e>> = call.hist0 \o SubSeq(call.draft, 1, acc) \o <<x>>
      BY <1>5
    <2>2. <<e>> # <<>> /\ acc <= Len(call.draft)
      BY <1>2
    <2>. HIDE DEF p
    <2>. QED
      BY <1>1, <1>6, <2>1, <2>2 DEF VerifyProgress
  <1>8. StartRows'
    <2>1. Len(call.hist0) <= faultAt' => Len(call.hist0) <= faultAt
      BY <1>2, <1>3
    <2>. QED
      BY <1>1, <1>2, <2>1 DEF CallHInv, StartRows
  <1>9. GenerateProgress' /\ ShownIsExecuted' /\ JudgedSoFar'
    BY <1>1 DEF GenerateProgress, ShownIsExecuted, JudgedSoFar
  <1>. QED
    BY <1>7, <1>8, <1>9 DEF CallHInv

\* A step that leaves the call, the history and the fault alone keeps its half.
LEMMA CallSame ==
    ASSUME CallHInv,
           UNCHANGED <<call, history, position, logits, faultAt, compacted>>
    PROVE  CallHInv'
  BY DEF CallHInv, GenerateProgress, ShownIsExecuted, VerifyProgress, StartRows, JudgedSoFar,
     JudgedInOrder

\* A lowered fault stays a number, and is not above the old one.
LEMMA SpoilLowers ==
    ASSUME IInv, NEW p \in 0..position
    PROVE  Spoil(p) \in Nat /\ Spoil(p) <= faultAt /\ Spoil(p) # NoFault
  BY Consts DEF IInv, TypeOK, Spoil, Lesser

\* A failed step never raises the fault.
LEMMA FaultLowers ==
    ASSUME IInv, FeedError \/ SyncError
    PROVE  faultAt' \in Nat /\ faultAt' <= faultAt
  <1>1. call.base \in 0..position /\ position \in 0..position /\ faultAt \in Nat
    BY Consts DEF IInv, TypeOK, Calls, CallProgress
  <1>2. CASE FeedError
    <2>1. PICK k \in 0..NumLayers, drained \in BOOLEAN :
            faultAt' = CASE ~drained -> Spoil(call.base)
                       [] drained /\ k > 0 -> Spoil(position)
                       [] drained /\ k = 0 -> faultAt
      BY <1>2 DEF FeedError
    <2>2. faultAt' \in {Spoil(call.base), Spoil(position), faultAt}
      BY <2>1, Consts
    <2>. QED
      BY <1>1, <2>2, SpoilLowers
  <1>3. CASE SyncError
    BY <1>1, <1>3, SpoilLowers DEF SyncError
  <1>. QED
    BY <1>2, <1>3

\* Every step keeps what is known of the call in progress.
LEMMA CallStep ==
    ASSUME IInv, IInv', CallHInv, LogitsFresh, [Next]_vars
    PROVE  CallHInv'
  <1>1. ASSUME call' = NoCall PROVE CallHInv'
    BY <1>1, NoCallType, OtherCallsNext
  <1>2. CASE \/ Reset \/ Done \/ SampleError \/ GenerateDone \/ VerifyDone
             \/ UnwindOk \/ UnwindError \/ \E keep \in Keeps : Compact(keep)
    BY <1>1, <1>2 DEF Reset, Done, SampleError, GenerateDone, VerifyDone, UnwindOk,
       UnwindError, Compact, Return
  <1>3. ASSUME NEW prompt \in Prompts, Prefill(prompt) PROVE CallHInv'
    BY <1>3, OtherCallsNext DEF Prefill, NoCall
  <1>4. ASSUME NEW t \in Tokens, Decode(t) PROVE CallHInv'
    BY <1>4, OtherCallsNext DEF Decode, NoCall
  <1>5. ASSUME NEW prompt \in Prompts, NEW new \in 1..Capacity, NEW fixed \in BOOLEAN,
               Generate(prompt, new, fixed)
        PROVE  CallHInv'
    <2>1. prompt \in Seq(Tokens) /\ new \in Nat
      BY SessionAssumption DEF Prompts
    <2>. QED
      BY <1>5, <2>1, GenerateBegins
  <1>6. ASSUME NEW draft \in Drafts, Verify(draft) PROVE CallHInv'
    <2>1. draft \in Seq(Tokens)
      BY SessionAssumption DEF Drafts
    <2>. QED
      BY <1>6, <2>1, VerifyBegins
  <1>7. CASE Feed
    BY <1>7, FeedProgress
  <1>8. CASE FeedError \/ SyncError
    <2>1. Abort /\ UNCHANGED <<history, compacted>>
      BY <1>8 DEF FeedError, SyncError, EnqueuePart
    <2>. QED
      BY <1>8, <2>1, FaultLowers, AbortProgress
  <1>9. ASSUME NEW t \in Tokens, Choose(t) PROVE CallHInv'
    BY <1>9, ChooseProgress
  <1>10. CASE Show
    BY <1>10, ShowProgress
  <1>11. ASSUME NEW acc \in 0..MaxDraft, NEW t \in Tokens, Judge(acc, t) PROVE CallHInv'
    <2>1. acc \in Nat
      OBVIOUS
    <2>. QED
      BY <1>11, <2>1, JudgeProgress
  <1>12. CASE JudgeError
    <2>1. /\ call'.op = "unwind" /\ call'.hist0 = call.hist0 /\ call'.rows0 = call.rows0
          /\ call.op = "verify" /\ UNCHANGED <<history, compacted, faultAt>>
      BY <1>12, SessionSequences DEF JudgeError, Calls, ghosts
    <2>2. faultAt' \in Nat /\ faultAt' <= faultAt
      BY <2>1, SessionSequences
    <2>. QED
      BY <2>1, <2>2, UnwindBegins
  <1>13. CASE UNCHANGED vars
    BY <1>13, CallSame DEF vars
  <1>. QED
    BY <1>2, <1>3, <1>4, <1>5, <1>6, <1>7, <1>8, <1>9, <1>10, <1>11, <1>12, <1>13 DEF Next

\* Every step keeps the logits with the history, or says that it did not.
LEMMA FreshStep ==
    ASSUME IInv, IInv', CallHInv, LogitsFresh, [Next]_vars
    PROVE  LogitsFresh'
  <1>1. CASE Reset \/ \E prompt \in Prompts : Prefill(prompt)
    <2>1. position' = 0
      BY <1>1 DEF Reset, Prefill, ResetState
    <2>. QED
      BY <2>1 DEF LogitsFresh
  <1>2. ASSUME NEW prompt \in Prompts, NEW new \in 1..Capacity, NEW fixed \in BOOLEAN,
               Generate(prompt, new, fixed)
        PROVE  LogitsFresh'
    BY <1>2 DEF Generate, ResetState, LogitsFresh
  <1>3. ASSUME UNCHANGED <<position, logits, history, unwound>>,
               call.op \notin {"emit", "unwind"}
        PROVE  LogitsFresh'
    BY <1>3 DEF LogitsFresh
  <1>4. CASE \/ Done \/ SampleError \/ GenerateDone \/ Show
             \/ \E t \in Tokens : Decode(t) \/ Choose(t)
             \/ \E draft \in Drafts : Verify(draft)
             \/ \E keep \in Keeps : Compact(keep)
    <2>1. CASE Done \/ SampleError \/ GenerateDone \/ Show \/ \E t \in Tokens : Choose(t)
      BY <1>3, <2>1 DEF Done, SampleError, GenerateDone, Show, Choose, ghosts
    <2>2. CASE (\E t \in Tokens : Decode(t)) \/ (\E draft \in Drafts : Verify(draft))
      BY <1>3, <2>2 DEF Decode, Verify, Enter, ghosts
    <2>3. CASE \E keep \in Keeps : Compact(keep)
      BY <1>3, <2>3 DEF Compact, KeepRows, Enter
    <2>. QED
      BY <1>4, <2>1, <2>2, <2>3
  <1>5. CASE Feed
    BY <1>5, FeedProgress DEF LogitsFresh
  <1>6. CASE FeedError
    <2>1. PICK drained \in BOOLEAN : unwound' = (unwound \/ ~drained)
      BY <1>6 DEF FeedError
    <2>2. UNCHANGED <<position, logits, history>> /\ Abort
      BY <1>6 DEF FeedError, EnqueuePart
    <2>3. CASE call.op \in {"verify", "emit"}
      <3>1. call'.op = "unwind"
        BY <2>2, <2>3, SessionSequences DEF Abort, Calls
      <3>. QED
        BY <3>1 DEF LogitsFresh
    <2>4. CASE call.op \notin {"verify", "emit"}
      <3>1. ~unwound' => ~unwound
        BY <2>1, Zenon
      <3>2. call.op \notin {"emit", "unwind"}
        BY <1>6, <2>4 DEF FeedError, Busy
      <3>. QED
        BY <2>2, <3>1, <3>2 DEF LogitsFresh
    <2>. QED
      BY <2>3, <2>4
  <1>7. CASE SyncError \/ UnwindOk \/ UnwindError
    BY <1>7 DEF SyncError, UnwindOk, UnwindError, LogitsFresh
  <1>8. CASE JudgeError \/ \E acc \in 0..MaxDraft, t \in Tokens : Judge(acc, t)
    <2>1. call'.op \in {"emit", "unwind"}
      BY <1>8, SessionSequences DEF JudgeError, Judge, Calls
    <2>. QED
      BY <2>1 DEF LogitsFresh
  <1>9. CASE VerifyDone
    <2>1. logits = history
      BY <1>9 DEF VerifyDone, CallHInv, VerifyProgress
    <2>. QED
      BY <1>9, <2>1 DEF VerifyDone, LogitsFresh
  <1>10. CASE UNCHANGED vars
    BY <1>10 DEF vars, LogitsFresh
  <1>. QED
    BY <1>1, <1>2, <1>4, <1>5, <1>6, <1>7, <1>8, <1>9, <1>10 DEF Next

-----------------------------------------------------------------------------
\* The retained rows.

\* Without a compaction the rows of a session no step of which failed are those
\* of its history.
LEMMA IntactIsTrue ==
    ASSUME IInv, ~compacted, faultAt = NoFault
    PROVE  TrueRows
  <1>1. position \in Nat /\ Lesser(position, faultAt) = position
    BY Consts DEF IInv, TypeOK, Lesser
  <1>2. \A l \in Layers : rows[l] \in Seq(Rows) /\ Len(rows[l]) = position /\ DOMAIN rows[l] = 1..position
    BY DEF IInv, TypeOK, IntactPrefix
  <1>3. \A l \in Layers : \A i \in 1..position : rows[l][i] = Row(history[i], i - 1)
    BY <1>1 DEF IInv, IntactPrefix
  <1>4. 1 \in Layers
    BY SessionAssumption DEF Layers
  <1>5. \A l \in Layers : rows[l] = rows[1]
    <2>. TAKE l \in Layers
    <2>1. \A i \in 1..Len(rows[l]) : rows[l][i] = rows[1][i]
      BY <1>2, <1>3, <1>4
    <2>. QED
      BY <1>2, <1>4, <2>1, SeqEqual
  <1>6. \A l \in Layers : \A i \in DOMAIN rows[l] :
           rows[l][i].pos = i - 1 /\ rows[l][i].tok = history[i] /\ i \in 1..position
    <2>. TAKE l \in Layers
    <2>. TAKE i \in DOMAIN rows[l]
    <2>1. i \in 1..position
      BY <1>2
    <2>2. rows[l][i] = Row(history[i], i - 1)
      BY <1>3, <2>1
    <2>. QED
      BY <2>1, <2>2 DEF Row
  <1>. QED
    BY <1>1, <1>2, <1>5, <1>6 DEF TrueRows

\* The same after a step.
LEMMA IntactIsTrueNext ==
    (IInv /\ ~compacted /\ faultAt = NoFault)' => TrueRows'
  <1>1. IInv /\ ~compacted /\ faultAt = NoFault => TrueRows
    BY IntactIsTrue
  <1>. QED
    BY <1>1, PTL

\* A token that passes every layer adds one true row, the last.
LEMMA FeedKeepsRows ==
    ASSUME IInv, TrueRows, NEW t \in Tokens, EnqueueToken(t)
    PROVE  TrueRows'
  <1>1. /\ history \in Seq(Tokens) /\ position = Len(history) /\ position \in Nat
        /\ 1 \in Layers
    BY SessionSequences, SessionAssumption DEF Layers
  <1>2. /\ position' = position + 1
        /\ \A i \in 1..position : history'[i] = history[i]
        /\ history'[position + 1] = t
    BY <1>1, AppendProperties DEF EnqueueToken
  <1>3. \A l \in Layers :
           /\ rows[l] \in Seq(Rows) /\ Len(rows[l]) \in Nat
           /\ DOMAIN rows[l] = 1..Len(rows[l])
           /\ \A i \in 1..Len(rows[l]) : rows[l][i] \in Rows
    BY LenProperties, ElementOfSeq DEF IInv, TypeOK
  <1>4. \A l \in Layers :
           /\ rows'[l] = Append(rows[l], Row(t, position))
           /\ DOMAIN rows'[l] = 1..Len(rows[l]) + 1
           /\ \A i \in 1..Len(rows[l]) : rows'[l][i] = rows[l][i]
           /\ rows'[l][Len(rows[l]) + 1] = Row(t, position)
    <2>1. Row(t, position) \in Rows
      BY <1>1, RowType
    <2>. QED
      BY <1>3, <2>1, AppendProperties DEF EnqueueToken
  <1>5. \A l \in Layers : rows'[l] = rows'[1]
    BY <1>1, <1>4 DEF TrueRows
  <1>6. Row(t, position).pos = position /\ Row(t, position).tok = t
    BY DEF Row
  <1>7. ASSUME NEW l \in Layers, NEW i \in DOMAIN rows'[l]
        PROVE  /\ rows'[l][i].pos < position'
               /\ rows'[l][i].tok = history'[rows'[l][i].pos + 1]
    <2>1. CASE i \in 1..Len(rows[l])
      <3>1. /\ rows[l][i].pos < position /\ rows[l][i].tok = history[rows[l][i].pos + 1]
            /\ rows[l][i].pos \in Nat
        BY <1>3, <2>1 DEF TrueRows, Rows
      <3>2. rows[l][i].pos + 1 \in 1..position /\ rows[l][i].pos < position + 1
        BY <1>1, <3>1
      <3>. QED
        BY <1>2, <1>4, <2>1, <3>1, <3>2
    <2>2. CASE i = Len(rows[l]) + 1
      BY <1>1, <1>2, <1>4, <1>6, <2>2
    <2>. QED
      BY <1>3, <1>4, <2>1, <2>2
  <1>8. ASSUME NEW l \in Layers, NEW i \in DOMAIN rows'[l], NEW j \in DOMAIN rows'[l], i < j
        PROVE  rows'[l][i].pos < rows'[l][j].pos
    <2>1. i \in 1..Len(rows[l])
      BY <1>3, <1>4, <1>8
    <2>2. rows[l][i].pos < position /\ rows'[l][i] = rows[l][i]
      BY <1>3, <1>4, <2>1 DEF TrueRows
    <2>3. CASE j \in 1..Len(rows[l])
      BY <1>3, <1>4, <1>8, <2>1, <2>3 DEF TrueRows
    <2>4. CASE j = Len(rows[l]) + 1
      BY <1>4, <1>6, <2>2, <2>4
    <2>. QED
      BY <1>3, <1>4, <2>3, <2>4
  <1>. QED
    BY <1>5, <1>7, <1>8 DEF TrueRows

\* A compaction keeps some of the true rows, in their order.
LEMMA CompactKeepsRows ==
    ASSUME IInv, TrueRows, NEW keep \in Keeps, Compact(keep)
    PROVE  TrueRows'
  <1>1. 1 \in Layers /\ Capacity \in Nat
    BY SessionAssumption DEF Layers
  <1>2. \A l \in Layers : rows[l] \in Seq(Rows) /\ DOMAIN rows[l] = 1..Len(rows[l])
    BY LenProperties DEF IInv, TypeOK
  <1>3. /\ \A l \in Layers : rows'[l] = [i \in 1..Len(keep) |-> rows[l][keep[i]]]
        /\ UNCHANGED <<position, history>>
    BY DEF Compact, KeepRows
  <1>4. DOMAIN keep = 1..Len(keep) /\ Len(keep) \in Nat
    BY <1>1 DEF Keeps
  <1>5. /\ \A l \in Layers : \A i \in 1..Len(keep) : keep[i] \in DOMAIN rows[l]
        /\ \A i, j \in 1..Len(keep) : i < j => keep[i] < keep[j]
    BY <1>2, <1>4 DEF Compact
  <1>6. \A l \in Layers : DOMAIN rows'[l] = 1..Len(keep)
                          /\ \A i \in 1..Len(keep) : rows'[l][i] = rows[l][keep[i]]
    <2>. TAKE l \in Layers
    <2>1. rows'[l] = [i \in 1..Len(keep) |-> rows[l][keep[i]]]
      BY <1>3
    <2>. QED
      BY <2>1
  <1>7. \A l \in Layers : rows'[l] = rows'[1]
    BY <1>1, <1>3 DEF TrueRows
  <1>8. \A l \in Layers : \A i \in DOMAIN rows'[l] :
          /\ rows'[l][i].pos < position'
          /\ rows'[l][i].tok = history'[rows'[l][i].pos + 1]
    BY <1>3, <1>5, <1>6 DEF TrueRows
  <1>9. \A l \in Layers : \A i, j \in DOMAIN rows'[l] : i < j => rows'[l][i].pos < rows'[l][j].pos
    BY <1>5, <1>6 DEF TrueRows
  <1>. QED
    BY <1>7, <1>8, <1>9 DEF TrueRows

\* Every step keeps the rows of a session without failures true.
LEMMA RetainedStep ==
    ASSUME IInv, IInv', RetainedHistory, [Next]_vars
    PROVE  RetainedHistory'
  <1>. SUFFICES ASSUME faultAt' = NoFault, ~mixed'
                PROVE  TrueRows'
    BY DEF RetainedHistory
  <1>1. CASE ~compacted'
    BY <1>1, IntactIsTrueNext
  <1>2. CASE compacted'
    <2>1. ASSUME ResetState PROVE FALSE
      BY <1>2, <2>1 DEF ResetState
    <2>2. ASSUME NEW p \in Nat, RewindTo(p), compacted' = compacted PROVE FALSE
      BY <1>2, <2>2 DEF RewindTo
    <2>3. ASSUME UNCHANGED <<rows, position, history, faultAt, mixed>> PROVE TrueRows'
      <3>1. TrueRows
        BY <2>3 DEF RetainedHistory
      <3>. QED
        BY <2>3, <3>1 DEF TrueRows
    <2>4. call.base \in 0..position /\ position \in 0..position
      BY Consts DEF IInv, TypeOK, Calls, CallProgress
    <2>5. CASE \/ Reset \/ \E prompt \in Prompts : Prefill(prompt)
               \/ \E prompt \in Prompts, new \in 1..Capacity, fixed \in BOOLEAN :
                      Generate(prompt, new, fixed)
      BY <2>1, <2>5 DEF Reset, Prefill, Generate
    <2>6. CASE Done \/ SampleError \/ Show \/ GenerateDone \/ JudgeError \/ VerifyDone
      BY <2>3, <2>6 DEF Done, SampleError, Show, GenerateDone, JudgeError, VerifyDone, ghosts
    <2>7. CASE \/ \E t \in Tokens : Decode(t) \/ Choose(t)
               \/ \E draft \in Drafts : Verify(draft)
      BY <2>3, <2>7 DEF Decode, Choose, Verify, ghosts
    <2>8. CASE Feed
      <3>1. TrueRows
        BY <2>8 DEF Feed, RetainedHistory
      <3>2. Head(call.todo) \in Tokens
        BY <2>8, SessionSequences, HeadTailProperties DEF Feed
      <3>. QED
        BY <2>8, <3>1, <3>2, FeedKeepsRows DEF Feed
    <2>9. CASE FeedError
      <3>1. PICK k \in 0..NumLayers, drained \in BOOLEAN :
              /\ EnqueuePart(Head(call.todo), k)
              /\ faultAt' = CASE ~drained -> Spoil(call.base)
                            [] drained /\ k > 0 -> Spoil(position)
                            [] drained /\ k = 0 -> faultAt
        BY <2>9 DEF FeedError
      <3>2. k = 0 /\ faultAt' = faultAt
        BY <2>4, <3>1, SpoilLowers, Consts
      <3>3. rows' = rows
        BY <3>1, <3>2, Consts DEF EnqueuePart, IInv, TypeOK
      <3>. QED
        BY <2>3, <2>9, <3>1, <3>2, <3>3 DEF FeedError, EnqueuePart
    <2>10. CASE SyncError \/ UnwindError
      BY <2>4, <2>10, SpoilLowers DEF SyncError, UnwindError
    <2>11. ASSUME NEW keep \in Keeps, Compact(keep) PROVE TrueRows'
      <3>0. ~mixed
        BY <2>11, Zenon DEF Compact
      <3>1. faultAt = NoFault
        <4>1. faultAt' = IF faultAt = NoFault THEN NoFault ELSE 0
          BY <2>11 DEF Compact
        <4>2. NoFault # 0
          BY Consts
        <4>. QED
          BY <4>1, <4>2
      <3>. QED
        BY <2>11, <3>0, <3>1, CompactKeepsRows DEF RetainedHistory
    <2>12. CASE UnwindOk \/ \E acc \in 0..MaxDraft, t \in Tokens : Judge(acc, t)
      <3>1. Len(call.hist0) \in Nat
        BY SessionSequences, LenProperties
      <3>2. CASE UnwindOk
        BY <2>2, <3>1, <3>2 DEF UnwindOk
      <3>3. ASSUME NEW acc \in 0..MaxDraft, NEW t \in Tokens, Judge(acc, t) PROVE FALSE
        <4>1. Len(call.hist0) + acc \in Nat
          BY <3>1
        <4>. QED
          BY <2>2, <3>3, <4>1 DEF Judge
      <3>. QED
        BY <2>12, <3>2, <3>3
    <2>13. CASE UNCHANGED vars
      BY <2>3, <2>13 DEF vars
    <2>. QED
      BY <2>5, <2>6, <2>7, <2>8, <2>9, <2>10, <2>11, <2>12, <2>13 DEF Next
  <1>. QED
    BY <1>1, <1>2

-----------------------------------------------------------------------------
\* The initial session satisfies HInv.
LEMMA InitHistory == Init => IInv /\ HInv
  <1>. SUFFICES ASSUME Init PROVE IInv /\ HInv
    OBVIOUS
  <1>1. IInv
    BY InitInv
  <1>2. CallHInv
    BY NoCallType, OtherCalls DEF Init
  <1>3. LogitsFresh
    BY DEF Init, LogitsFresh
  <1>4. RetainedHistory
    <2>1. ~compacted /\ faultAt = NoFault
      BY DEF Init
    <2>. QED
      BY <1>1, <2>1, IntactIsTrue DEF RetainedHistory
  <1>. QED
    BY <1>1, <1>2, <1>3, <1>4 DEF HInv, CallHInv

\* Every step preserves it.
LEMMA StepHistory == IInv /\ HInv /\ [Next]_vars => (IInv /\ HInv)'
  <1>. SUFFICES ASSUME IInv, HInv, [Next]_vars PROVE IInv' /\ HInv'
    OBVIOUS
  <1>1. IInv'
    BY StepInv
  <1>2. CallHInv /\ LogitsFresh /\ RetainedHistory
    BY DEF HInv, CallHInv
  <1>3. CallHInv' /\ LogitsFresh' /\ RetainedHistory'
    BY <1>1, <1>2, CallStep, FreshStep, RetainedStep
  <1>. QED
    BY <1>1, <1>3 DEF HInv, CallHInv

\* Both invariants hold throughout.
LEMMA HistoryInvariant == Spec => [](IInv /\ HInv)
  <1>. QED
    BY InitHistory, StepHistory, PTL DEF Spec

\* streaming.rs:18-20: whichever steps of a generation fail, its caller has only
\* seen tokens the decoder has executed.
THEOREM ShownHolds == Spec => []ShownIsExecuted
  <1>1. HInv => ShownIsExecuted
    BY DEF HInv
  <1>. QED
    BY <1>1, HistoryInvariant, PTL

\* runtime.rs:666-669: for drafts of any length, the judged logits are those of the
\* old history and the draft before them.
THEOREM JudgedHolds == Spec => []JudgedLogits
  <1>1. HInv => JudgedLogits
    BY DEF HInv, JudgedSoFar, JudgedLogits
  <1>. QED
    BY <1>1, HistoryInvariant, PTL

\* kv_selection.rs:11-22: however often rows are compacted away and whatever is
\* decoded afterwards, the layers agree and every row is a token of the history
\* under its original position, in order.
THEOREM RetainedHolds == Spec => []RetainedHistory
  <1>1. HInv => RetainedHistory
    BY DEF HInv
  <1>. QED
    BY <1>1, HistoryInvariant, PTL

\* docs/MODEL_RUNTIME.md:79: a generation that returns has executed its prompt and
\* all of its output.
THEOREM GenerateHolds == Spec => GenerateExact
  <1>. DEFINE Ends == call.op = "generate" /\ call'.op = "idle" /\ ret' = "ok" =>
                        /\ history' = call.prompt \o call.out
                        /\ position' = Len(call.prompt) + Len(call.out)
  <1>1. ASSUME IInv, HInv, [Next]_vars PROVE [Ends]_vars
    <2>. SUFFICES ASSUME Next, call.op = "generate", call'.op = "idle", ret' = "ok"
                  PROVE  /\ history' = call.prompt \o call.out
                         /\ position' = Len(call.prompt) + Len(call.out)
      BY <1>1
    <2>1. call.todo = <<>> /\ UNCHANGED <<history, position>>
      <3>1. CASE Feed \/ FeedError \/ SyncError
        BY <1>1, <3>1, SessionSequences DEF Feed, FeedError, SyncError, Abort, Return, Calls
      <3>2. CASE Done \/ SampleError \/ Show \/ GenerateDone \/ \E t \in Tokens : Choose(t)
        BY <3>2 DEF Done, SampleError, Show, GenerateDone, Choose
      <3>3. CASE JudgeError \/ VerifyDone \/ UnwindOk \/ UnwindError
                 \/ \E acc \in 0..MaxDraft, t \in Tokens : Judge(acc, t)
        BY <3>3 DEF JudgeError, VerifyDone, UnwindOk, UnwindError, Judge
      <3>4. ~Enter
        BY DEF Enter
      <3>. QED
        BY <3>1, <3>2, <3>3, <3>4 DEF Next, Reset, Prefill, Generate, Decode, Verify, Compact
    <2>2. history \o call.todo = call.prompt \o call.out
      BY <1>1 DEF HInv, GenerateProgress
    <2>3. /\ history \in Seq(Tokens) /\ call.prompt \in Seq(Tokens)
          /\ call.out \in Seq(Tokens) /\ position = Len(history)
      BY <1>1, SessionSequences
    <2>4. history = call.prompt \o call.out
      BY <2>1, <2>2, <2>3, ConcatEmptySeq
    <2>. QED
      BY <2>1, <2>3, <2>4, ConcatProperties
  <1>. QED
    BY <1>1, HistoryInvariant, PTL DEF Spec, GenerateExact

\* A verification that succeeds leaves the old history, the accepted draft and the
\* emitted token, and their logits.
LEMMA VerifyExactStep ==
    ASSUME IInv, HInv, Next, call.op = "emit", call'.op = "idle", ret' = "ok"
    PROVE  \E e \in Tokens :
             /\ history' = call.hist0 \o SubSeq(call.draft, 1, call.acc) \o <<e>>
             /\ position' = Len(call.hist0) + call.acc + 1
             /\ logits' = history'
  <1>1. VerifyDone
    <2>1. CASE Feed \/ FeedError \/ SyncError
      BY <2>1, SessionSequences DEF Feed, FeedError, SyncError, Abort, Calls
    <2>2. CASE Done \/ SampleError \/ Show \/ GenerateDone \/ \E t \in Tokens : Choose(t)
      BY <2>2 DEF Done, SampleError, Show, GenerateDone, Choose
    <2>3. CASE JudgeError \/ UnwindOk \/ UnwindError
               \/ \E acc \in 0..MaxDraft, t \in Tokens : Judge(acc, t)
      BY <2>3 DEF JudgeError, UnwindOk, UnwindError, Judge
    <2>4. ~Enter
      BY DEF Enter
    <2>. QED
      BY <2>1, <2>2, <2>3, <2>4 DEF Next, Reset, Prefill, Generate, Decode, Verify, Compact
  <1>2. call.todo = <<>> /\ UNCHANGED <<history, position, logits>>
    BY <1>1 DEF VerifyDone
  <1>3. PICK e \in Tokens :
          history \o call.todo = call.hist0 \o SubSeq(call.draft, 1, call.acc) \o <<e>>
    BY DEF HInv, VerifyProgress
  <1>4. logits = history /\ call.acc <= Len(call.draft)
    BY <1>2 DEF HInv, VerifyProgress
  <1>5. /\ history \in Seq(Tokens) /\ call.hist0 \in Seq(Tokens) /\ call.draft \in Seq(Tokens)
        /\ position = Len(history) /\ call.acc \in Nat /\ <<e>> \in Seq(Tokens)
        /\ Len(call.draft) \in Nat /\ Len(call.hist0) \in Nat
    BY SessionSequences, LenProperties
  <1>6. history = call.hist0 \o SubSeq(call.draft, 1, call.acc) \o <<e>>
    BY <1>2, <1>3, <1>5, ConcatEmptySeq
  <1>7. SubSeq(call.draft, 1, call.acc) \in Seq(Tokens) /\ Len(SubSeq(call.draft, 1, call.acc)) = call.acc
    <2>1. \A i \in 1..call.acc : call.draft[i] \in Tokens
      BY <1>4, <1>5, ElementOfSeq
    <2>. QED
      BY <1>5, <2>1, SubSeqProperties
  <1>8. /\ call.hist0 \o SubSeq(call.draft, 1, call.acc) \in Seq(Tokens)
        /\ Len(call.hist0 \o SubSeq(call.draft, 1, call.acc)) = Len(call.hist0) + call.acc
    BY <1>5, <1>7, ConcatProperties
  <1>9. Len(call.hist0 \o SubSeq(call.draft, 1, call.acc) \o <<e>>) = Len(call.hist0) + call.acc + 1
    <2>1. Len(<<e>>) = 1
      OBVIOUS
    <2>. QED
      BY <1>5, <1>8, <2>1, ConcatProperties
  <1>. QED
    BY <1>2, <1>4, <1>5, <1>6, <1>9

\* A verification that fails and can rewind leaves history, rows and counters as
\* it found them.
LEMMA FailedVerifyStep ==
    ASSUME IInv, IInv', HInv, Next, call.op = "unwind", call'.op = "idle", ret' = "err",
           ~compacted, faultAt' = NoFault
    PROVE  /\ history' = call.hist0 /\ position' = Len(call.hist0)
           /\ \A l \in Layers : rows'[l] = SubSeq(call.rows0[l], 1, position')
           /\ stats' = stats
  <1>1. UnwindOk
    <2>1. CASE Feed \/ FeedError \/ SyncError
      BY <2>1 DEF Feed, FeedError, SyncError, Busy
    <2>2. CASE Done \/ SampleError \/ Show \/ GenerateDone \/ \E t \in Tokens : Choose(t)
      BY <2>2 DEF Done, SampleError, Show, GenerateDone, Choose
    <2>3. CASE JudgeError \/ VerifyDone \/ UnwindError
               \/ \E acc \in 0..MaxDraft, t \in Tokens : Judge(acc, t)
      BY <2>3 DEF JudgeError, VerifyDone, UnwindError, Judge, Return
    <2>4. ~Enter
      BY DEF Enter
    <2>. QED
      BY <2>1, <2>2, <2>3, <2>4 DEF Next, Reset, Prefill, Generate, Decode, Verify, Compact
  <1>. DEFINE h == Len(call.hist0)
  <1>2. /\ history' = SubSeq(history, 1, h) /\ position' = h
        /\ faultAt' = (IF h <= faultAt THEN NoFault ELSE faultAt)
        /\ stats' = stats /\ compacted' = compacted
    BY <1>1 DEF UnwindOk, RewindTo
  <1>3. /\ call.hist0 \in Seq(Tokens) /\ h \in Nat \ {0} /\ h <= position /\ position <= Capacity
        /\ faultAt \in Nat /\ IsPrefix(call.hist0, history) /\ position \in Nat
    <2>1. IsPrefix(call.hist0, history)
      BY DEF HInv, VerifyProgress
    <2>2. position <= Capacity
      BY Consts DEF IInv, TypeOK
    <2>. QED
      BY <2>1, <2>2, SessionSequences, LenProperties
  <1>4. history' = call.hist0
    <2>1. SubSeq(history, 1, h) = SubSeq(call.hist0, 1, h)
      BY <1>3 DEF IsPrefix
    <2>. QED
      BY <1>2, <1>3, <2>1, SubSeqFull
  <1>5. h <= faultAt
    <2>. HIDE DEF h
    <2>1. NoFault > Capacity /\ Capacity \in Nat /\ NoFault \in Nat
      BY Consts
    <2>2. CASE ~(h <= faultAt)
      <3>1. faultAt = NoFault
        BY <1>2, <2>2
      <3>. QED
        BY <1>3, <2>1, <2>2, <3>1
    <2>. QED
      BY <2>2
  <1>6. \A l \in Layers : /\ Len(call.rows0[l]) >= h
                          /\ \A i \in 1..h : call.rows0[l][i] = Row(call.hist0[i], i - 1)
    BY <1>5 DEF HInv, StartRows
  <1>7. \A l \in Layers : /\ rows'[l] \in Seq(Rows) /\ Len(rows'[l]) = h
                          /\ \A i \in 1..h : rows'[l][i] = Row(call.hist0[i], i - 1)
    <2>1. Lesser(position', faultAt') = h
      <3>. HIDE DEF h
      <3>1. h < NoFault
        BY <1>3, Consts
      <3>. QED
        BY <1>2, <3>1 DEF Lesser
    <2>2. \A l \in Layers : rows'[l] \in Seq(Rows) /\ Len(rows'[l]) = position'
      BY <1>2 DEF IInv, TypeOK, IntactPrefix
    <2>3. \A l \in Layers : \A i \in 1..h : rows'[l][i] = Row(history'[i], i - 1)
      BY <1>2, <2>1 DEF IInv, IntactPrefix
    <2>. QED
      BY <1>2, <1>4, <2>2, <2>3
  <1>8. ASSUME NEW l \in Layers PROVE rows'[l] = SubSeq(call.rows0[l], 1, h)
    <2>1. call.rows0[l] \in Seq(Rows) /\ Len(call.rows0[l]) \in Nat
      BY SessionSequences, LenProperties DEF Calls
    <2>2. \A i \in 1..h : call.rows0[l][i] \in Rows
      BY <1>3, <1>6, <2>1, ElementOfSeq
    <2>3. /\ SubSeq(call.rows0[l], 1, h) \in Seq(Rows) /\ Len(SubSeq(call.rows0[l], 1, h)) = h
          /\ \A i \in 1..h : SubSeq(call.rows0[l], 1, h)[i] = call.rows0[l][i]
      BY <1>3, <2>2, SubSeqProperties
    <2>4. \A i \in 1..h : rows'[l][i] = SubSeq(call.rows0[l], 1, h)[i]
      BY <1>6, <1>7, <2>3
    <2>. HIDE DEF h
    <2>. QED
      BY <1>7, <2>3, <2>4, SeqEqual
  <1>. QED
    BY <1>2, <1>4, <1>8

\* runtime.rs:666-679: however a verification ends, and whichever of its steps fail,
\* cache, position and counters are those of the accepted prefix, or those it began
\* with.
THEOREM VerifyHolds == Spec => VerifyOutcome
  <1>. DEFINE Exact == call.op = "emit" /\ call'.op = "idle" /\ ret' = "ok" =>
                         \E e \in Tokens :
                           /\ history' = call.hist0 \o SubSeq(call.draft, 1, call.acc) \o <<e>>
                           /\ position' = Len(call.hist0) + call.acc + 1
                           /\ logits' = history'
              Restores == call.op = "unwind" /\ call'.op = "idle" /\ ret' = "err"
                            /\ ~compacted /\ faultAt' = NoFault =>
                          /\ history' = call.hist0 /\ position' = Len(call.hist0)
                          /\ \A l \in Layers : rows'[l] = SubSeq(call.rows0[l], 1, position')
                          /\ stats' = stats
  <1>1. ASSUME IInv, HInv, [Next]_vars PROVE [Exact]_vars
    BY <1>1, VerifyExactStep
  <1>2. ASSUME IInv, HInv, [Next]_vars PROVE [Restores]_vars
    <2>1. IInv'
      BY <1>2, StepInv
    <2>. QED
      BY <1>2, <2>1, FailedVerifyStep
  <1>3. Spec => VerifyExact
    BY <1>1, HistoryInvariant, PTL DEF Spec, VerifyExact
  <1>4. Spec => FailedVerifyRestores
    BY <1>2, HistoryInvariant, PTL DEF Spec, FailedVerifyRestores
  <1>. QED
    BY <1>3, <1>4 DEF VerifyOutcome

-----------------------------------------------------------------------------
\* A valid v4 request that loads is usable: its rows are its positions plus one.
LEMMA Usable4 ==
    ASSUME NEW r \in Requests, r.version = 4, backend.version = 4,
           Valid4(r, backend), Loads4(r, backend)
    PROVE  Usable(r)
  <1>1. /\ r.input \in Seq(Range(r.input)) /\ r.retained \in Seq(Range(r.retained))
        /\ r.eval \in Seq(Range(r.eval)) /\ Range(r.retained) \subseteq Nat
    BY BackendAssumption
  <1>2. Range(r.input) \subseteq Tokens /\ Range(r.eval) \subseteq Tokens
    BY DEF Loads4, InVocabulary
  <1>3. /\ r.input \in Seq(Tokens) /\ r.eval \in Seq(Tokens)
        /\ Len(r.input) > 0 /\ Len(r.eval) >= 2
    <2>1. r.input \in Seq(Tokens) /\ r.eval \in Seq(Tokens)
      BY <1>1, <1>2
    <2>2. Len(r.input) # 0 /\ Len(r.eval) >= 2
      BY <1>1, <2>1, EmptySeq DEF Valid4
    <2>. QED
      BY <2>1, <2>2
  <1>. DEFINE at == Rows4(r)
  <1>4. /\ RetainedRows(r) = at /\ DOMAIN at = DOMAIN r.retained
        /\ \A i \in DOMAIN at : at[i] = r.retained[i] + 1
    BY DEF RetainedRows, Rows4
  <1>5. DOMAIN r.input = 1..Len(r.input) /\ DOMAIN r.retained = 1..Len(r.retained)
        /\ Len(r.input) \in Nat /\ Len(r.retained) \in Nat
    BY <1>1
  <1>6. \A i \in DOMAIN at : r.retained[i] \in Nat /\ r.retained[i] < Len(r.input)
    BY <1>1, <1>4, <1>5 DEF Valid4, PositionsValid, Range
  <1>7. \A i \in DOMAIN at : at[i] \in DOMAIN r.input
    BY <1>4, <1>5, <1>6
  <1>8. at \in Seq(DOMAIN r.input)
    <2>1. at = [i \in 1..Len(r.retained) |-> r.retained[i] + 1]
      BY <1>5 DEF Rows4
    <2>2. at \in [1..Len(r.retained) -> DOMAIN r.input]
      BY <2>1, <1>4, <1>5, <1>7
    <2>. HIDE DEF at
    <2>. QED
      BY <2>2, <1>5
  <1>9. \A i, j \in DOMAIN at : i < j => at[i] < at[j]
    BY <1>4, <1>6 DEF Valid4, PositionsValid
  <1>10. Range(at) = KeptPositions(r)
    <2>1. ASSUME NEW p \in Range(at) PROVE p \in KeptPositions(r)
      <3>1. PICK i \in DOMAIN at : p = at[i]
        BY DEF Range
      <3>2. p \in DOMAIN r.input /\ p - 1 = r.retained[i]
        BY <3>1, <1>4, <1>6, <1>7
      <3>3. r.retained[i] \in Range(r.retained)
        BY <3>1, <1>4 DEF Range
      <3>. QED
        BY <3>2, <3>3 DEF KeptPositions
    <2>2. ASSUME NEW p \in KeptPositions(r) PROVE p \in Range(at)
      <3>1. p \in DOMAIN r.input /\ p - 1 \in Range(r.retained)
        BY DEF KeptPositions
      <3>2. PICK i \in DOMAIN r.retained : p - 1 = r.retained[i]
        BY <3>1 DEF Range
      <3>3. at[i] = p
        BY <3>1, <3>2, <1>4, <1>5, <1>6
      <3>. QED
        BY <3>2, <3>3, <1>4 DEF Range
    <2>. QED
      BY <2>1, <2>2
  <1>11. r.mode \in {"baseline", "candidate"} /\ (r.mode # "candidate" => r.retained = Positions(r))
    BY DEF Valid4, ModeValid
  <1>12. ASSUME r.retained = Positions(r) PROVE KeptPositions(r) = DOMAIN r.input
    <2>1. ASSUME NEW p \in DOMAIN r.input PROVE p - 1 \in Range(r.retained)
      BY <1>12 DEF Positions, Range
    <2>. QED
      BY <2>1 DEF KeptPositions
  <1>13. r.bytes = KvBytesPerToken
    BY DEF Loads4
  <1>. QED
    BY <1>3, <1>4, <1>8, <1>9, <1>10, <1>11, <1>12, <1>13 DEF Usable

\* A valid v3 request that loads is usable: unique ids stand at one place each.
LEMMA Usable3 ==
    ASSUME NEW r \in Requests, r.version # 4, backend.version # 4,
           Valid3(r), Loads3(r, backend)
    PROVE  Usable(r)
  <1>1. /\ r.input \in Seq(Range(r.input)) /\ r.retained \in Seq(Range(r.retained))
        /\ r.eval \in Seq(Range(r.eval)) /\ r.logical \in Seq(Range(r.logical))
    BY BackendAssumption
  <1>2. Range(r.input) \subseteq Tokens /\ Range(r.eval) \subseteq Tokens
    BY DEF Loads3, InVocabulary
  <1>3. /\ r.input \in Seq(Tokens) /\ r.eval \in Seq(Tokens)
        /\ Len(r.input) > 0 /\ Len(r.eval) >= 2
    <2>1. r.input \in Seq(Tokens) /\ r.eval \in Seq(Tokens)
      BY <1>1, <1>2
    <2>2. Len(r.input) # 0 /\ Len(r.eval) >= 2
      BY <1>1, <2>1, EmptySeq DEF Valid3
    <2>. QED
      BY <2>1, <2>2
  <1>. DEFINE at == Rows3(r)
  <1>4. RetainedRows(r) = at /\ at \in Placements(r)
    BY DEF RetainedRows, Rows3, Valid3
  <1>5. /\ DOMAIN r.logical = DOMAIN r.input /\ DOMAIN r.retained = 1..Len(r.retained)
        /\ Len(r.retained) \in Nat
    BY <1>1 DEF Valid3
  <1>6. /\ at \in [DOMAIN r.retained -> DOMAIN r.input] /\ DOMAIN at = DOMAIN r.retained
        /\ \A i, j \in DOMAIN at : i < j => at[i] < at[j]
        /\ \A i \in DOMAIN at : at[i] \in DOMAIN r.logical /\ r.logical[at[i]] = r.retained[i]
    BY <1>4, <1>5 DEF Placements
  <1>7. at \in Seq(DOMAIN r.input)
    BY <1>5, <1>6
  <1>8. \A p, q \in DOMAIN r.logical : r.logical[p] = r.logical[q] => p = q
    BY DEF Valid3, Unique, IsInjective
  <1>9. Range(at) = KeptPositions(r)
    <2>1. ASSUME NEW p \in Range(at) PROVE p \in KeptPositions(r)
      <3>1. PICK i \in DOMAIN at : p = at[i]
        BY DEF Range
      <3>2. p \in DOMAIN r.input /\ r.logical[p] = r.retained[i] /\ i \in DOMAIN r.retained
        BY <3>1, <1>5, <1>6
      <3>. QED
        BY <3>2 DEF KeptPositions, Range
    <2>2. ASSUME NEW p \in KeptPositions(r) PROVE p \in Range(at)
      <3>1. p \in DOMAIN r.logical /\ r.logical[p] \in Range(r.retained)
        BY <1>5 DEF KeptPositions
      <3>2. PICK i \in DOMAIN r.retained : r.logical[p] = r.retained[i]
        BY <3>1 DEF Range
      <3>3. at[i] = p
        BY <3>1, <3>2, <1>6, <1>8
      <3>. QED
        BY <3>2, <3>3, <1>6 DEF Range
    <2>. QED
      BY <2>1, <2>2
  <1>10. r.mode \in {"baseline", "candidate"} /\ (r.mode # "candidate" => r.retained = r.logical)
    BY DEF Valid3, ModeValid
  <1>11. ASSUME r.retained = r.logical PROVE KeptPositions(r) = DOMAIN r.input
    <2>1. ASSUME NEW p \in DOMAIN r.input PROVE r.logical[p] \in Range(r.retained)
      BY <1>5, <1>11 DEF Range
    <2>. QED
      BY <2>1 DEF KeptPositions
  <1>. QED
    BY <1>3, <1>4, <1>6, <1>7, <1>9, <1>10, <1>11 DEF Usable

-----------------------------------------------------------------------------
\* What a row holds.
LEMMA RowFields == \A t, p : Row(t, p).tok = t /\ Row(t, p).pos = p
  BY DEF Row

\* Rows that agree with kept rows are kept rows.
LEMMA KeptSame ==
    ASSUME NEW r, NEW over, NEW other, NEW kept \in Nat, KeptRows(r, over, kept),
           \A j \in 1..kept : other[j] = over[j]
    PROVE  KeptRows(r, other, kept)
  <1>1. {other[j].pos + 1 : j \in 1..kept} = {over[j].pos + 1 : j \in 1..kept}
    OBVIOUS
  <1>. QED
    BY <1>1 DEF KeptRows

\* One more evaluated token behind attested rows leaves attested rows.
LEMMA AttestedGrows ==
    ASSUME NEW r, NEW over \in Seq(Rows), NEW n \in Nat, AttestedRows(r, over, n),
           NEW row \in Rows, row = Row(r.eval[n + 1], Len(r.input) + n), Len(r.input) \in Nat
    PROVE  AttestedRows(r, Append(over, row), n + 1)
  <1>. DEFINE grown == Append(over, row)
              kept  == Len(over) - n
  <1>1. /\ Len(over) \in Nat /\ kept \in Nat /\ Len(grown) = Len(over) + 1
        /\ Len(grown) - (n + 1) = kept
        /\ \A i \in 1..Len(over) : grown[i] = over[i]
        /\ grown[Len(over) + 1] = row
    BY DEF AttestedRows
  <1>. HIDE DEF grown
  <1>2. KeptRows(r, grown, kept)
    <2>1. KeptRows(r, over, kept) /\ \A j \in 1..kept : grown[j] = over[j]
      BY <1>1 DEF AttestedRows
    <2>. QED
      BY <2>1, <1>1, KeptSame
  <1>3. \A j \in 1..(n + 1) : grown[kept + j] = Row(r.eval[j], Len(r.input) + j - 1)
    <2>1. ASSUME NEW j \in 1..n PROVE grown[kept + j] = Row(r.eval[j], Len(r.input) + j - 1)
      <3>1. kept + j \in 1..Len(over)
        BY <1>1
      <3>. QED
        BY <1>1, <3>1 DEF AttestedRows
    <2>2. grown[kept + (n + 1)] = row /\ Len(r.input) + (n + 1) - 1 = Len(r.input) + n
      BY <1>1
    <2>3. \A j \in 1..(n + 1) : j \in 1..n \/ j = n + 1
      OBVIOUS
    <2>. QED
      BY <2>1, <2>2, <2>3
  <1>. QED
    BY <1>1, <1>2, <1>3 DEF AttestedRows, grown

\* The rows of the kept positions of a whole input are attested.
LEMMA AttestedKept ==
    ASSUME NEW r, r.input \in Seq(Tokens), NEW over \in Seq(Rows),
           \A i \in 1..Len(r.input) : over[i] = Row(r.input[i], i - 1),
           NEW keep \in Seq(DOMAIN r.input), Range(keep) = KeptPositions(r),
           \A i, j \in DOMAIN keep : i < j => keep[i] < keep[j]
    PROVE  AttestedRows(r, [i \in 1..Len(keep) |-> over[keep[i]]], 0)
  <1>. DEFINE short == [i \in 1..Len(keep) |-> over[keep[i]]]
  <1>1. /\ Len(keep) \in Nat /\ DOMAIN keep = 1..Len(keep) /\ DOMAIN r.input = 1..Len(r.input)
        /\ \A i \in 1..Len(keep) : keep[i] \in 1..Len(r.input) /\ keep[i] \in Nat
    OBVIOUS
  <1>2. Len(short) = Len(keep) /\ Len(short) - 0 = Len(keep)
    BY <1>1
  <1>3. \A j \in 1..Len(keep) : short[j] = Row(r.input[keep[j]], keep[j] - 1)
    BY <1>1
  <1>. HIDE DEF short
  <1>4. \A j \in 1..Len(keep) : short[j].tok = r.input[keep[j]] /\ short[j].pos = keep[j] - 1
    <2>1. ASSUME NEW j \in 1..Len(keep)
          PROVE  short[j].tok = r.input[keep[j]] /\ short[j].pos = keep[j] - 1
      <3>1. short[j] = Row(r.input[keep[j]], keep[j] - 1)
        BY <1>3
      <3>. QED
        BY <3>1, RowFields
    <2>. QED
      BY <2>1
  <1>5. \A j \in 1..Len(keep) : short[j].pos + 1 = keep[j]
    BY <1>1, <1>4
  <1>6. {short[j].pos + 1 : j \in 1..Len(keep)} = KeptPositions(r)
    <2>1. {short[j].pos + 1 : j \in 1..Len(keep)} = {keep[j] : j \in 1..Len(keep)}
      BY <1>5
    <2>2. Range(keep) = {keep[j] : j \in 1..Len(keep)}
      BY <1>1 DEF Range
    <2>. QED
      BY <2>1, <2>2
  <1>7. \A i, j \in 1..Len(keep) : i < j => short[i].pos < short[j].pos
    <2>1. ASSUME NEW i \in 1..Len(keep), NEW j \in 1..Len(keep), i < j
          PROVE  short[i].pos < short[j].pos
      <3>1. keep[i] < keep[j]
        BY <1>1, <2>1
      <3>2. keep[i] \in Nat /\ keep[j] \in Nat /\ short[i].pos = keep[i] - 1 /\ short[j].pos = keep[j] - 1
        BY <1>1, <1>4
      <3>. QED
        BY <3>1, <3>2
    <2>. QED
      BY <2>1
  <1>8. KeptRows(r, short, Len(keep))
    BY <1>4, <1>5, <1>6, <1>7 DEF KeptRows
  <1>. QED
    BY <1>1, <1>2, <1>8 DEF AttestedRows, short

\* So is a whole input of which everything is kept.
LEMMA AttestedWhole ==
    ASSUME NEW r, r.input \in Seq(Tokens), NEW over \in Seq(Rows), Len(over) = Len(r.input),
           \A i \in 1..Len(r.input) : over[i] = Row(r.input[i], i - 1),
           KeptPositions(r) = DOMAIN r.input
    PROVE  AttestedRows(r, over, 0)
  <1>1. /\ Len(r.input) \in Nat /\ DOMAIN r.input = 1..Len(r.input)
        /\ Len(over) - 0 = Len(r.input)
    OBVIOUS
  <1>2. \A j \in 1..Len(r.input) : over[j].tok = r.input[j] /\ over[j].pos = j - 1
    <2>1. ASSUME NEW j \in 1..Len(r.input) PROVE over[j].tok = r.input[j] /\ over[j].pos = j - 1
      <3>1. over[j] = Row(r.input[j], j - 1)
        OBVIOUS
      <3>. QED
        BY <3>1, RowFields
    <2>. QED
      BY <2>1
  <1>3. \A j \in 1..Len(r.input) : over[j].pos + 1 = j
    BY <1>1, <1>2
  <1>4. {over[j].pos + 1 : j \in 1..Len(r.input)} = KeptPositions(r)
    <2>1. {over[j].pos + 1 : j \in 1..Len(r.input)} = {j : j \in 1..Len(r.input)}
      BY <1>3
    <2>. QED
      BY <2>1, <1>1
  <1>5. \A i, j \in 1..Len(r.input) : i < j => over[i].pos < over[j].pos
    BY <1>1, <1>2
  <1>6. KeptRows(r, over, Len(r.input))
    BY <1>2, <1>3, <1>4, <1>5 DEF KeptRows
  <1>. QED
    BY <1>1, <1>6 DEF AttestedRows

\* The next evaluated token extends the history by one.
LEMMA HistoryGrows ==
    ASSUME NEW s \in Seq(Tokens), NEW e \in Seq(Tokens), NEW n \in Nat, n + 1 <= Len(e)
    PROVE  Append(s \o SubSeq(e, 1, n), e[n + 1]) = s \o SubSeq(e, 1, n + 1)
  <1>1. /\ Len(s) \in Nat /\ Len(e) \in Nat /\ e[n + 1] \in Tokens
        /\ SubSeq(e, 1, n) \in Seq(Tokens) /\ Len(SubSeq(e, 1, n)) = n
        /\ SubSeq(e, 1, n + 1) \in Seq(Tokens) /\ Len(SubSeq(e, 1, n + 1)) = n + 1
        /\ \A i \in 1..n : SubSeq(e, 1, n)[i] = e[i] /\ SubSeq(e, 1, n + 1)[i] = e[i]
        /\ SubSeq(e, 1, n + 1)[n + 1] = e[n + 1]
    OBVIOUS
  <1>. DEFINE a == SubSeq(e, 1, n)
              b == SubSeq(e, 1, n + 1)
  <1>. HIDE DEF a, b
  <1>2. Append(a, e[n + 1]) = b
    <2>1. /\ Append(a, e[n + 1]) \in Seq(Tokens) /\ Len(Append(a, e[n + 1])) = n + 1
          /\ \A i \in 1..(n + 1) : Append(a, e[n + 1])[i] = b[i]
      BY <1>1 DEF a, b
    <2>. QED
      BY <2>1, <1>1, SeqEqual DEF a, b
  <1>3. Append(s \o a, e[n + 1]) = s \o Append(a, e[n + 1])
    <2>1. /\ s \o a \in Seq(Tokens) /\ Append(a, e[n + 1]) \in Seq(Tokens)
          /\ Len(s \o a) = Len(s) + n /\ Len(Append(a, e[n + 1])) = n + 1
      BY <1>1 DEF a
    <2>2. /\ Append(s \o a, e[n + 1]) \in Seq(Tokens) /\ Len(Append(s \o a, e[n + 1])) = Len(s) + n + 1
          /\ s \o Append(a, e[n + 1]) \in Seq(Tokens) /\ Len(s \o Append(a, e[n + 1])) = Len(s) + n + 1
      BY <1>1, <2>1 DEF a
    <2>3. \A i \in 1..(Len(s) + n + 1) : Append(s \o a, e[n + 1])[i] = (s \o Append(a, e[n + 1]))[i]
      BY <1>1, <2>1, <2>2 DEF a
    <2>. QED
      BY <2>2, <2>3, SeqEqual
  <1>. QED
    BY <1>2, <1>3 DEF a, b

-----------------------------------------------------------------------------
\* A token that is fed leaves the session typed: every layer has its row, history
\* and logits its token, and the call one token less to do.
LEMMA FeedDriven ==
    ASSUME DrivenTypes, Feed, UNCHANGED steps
    PROVE  /\ DrivenTypes' /\ Head(call.todo) \in Tokens /\ Row(Head(call.todo), position) \in Rows
           /\ call'.op = call.op /\ call'.todo = Tail(call.todo)
           /\ rows' = [l \in Layers |-> Append(rows[l], Row(Head(call.todo), position))]
           /\ history' = Append(history, Head(call.todo)) /\ logits' = history'
           /\ position' = position + 1 /\ position \in Nat
  <1>. DEFINE t == Head(call.todo)
  <1>0. position \in Nat /\ Len(history) \in Nat /\ call \in Calls
    BY DEF DrivenTypes
  <1>1. t \in Tokens /\ Tail(call.todo) \in Seq(Tokens)
    <2>1. call.todo \in Seq(Tokens) /\ call.todo # <<>>
      BY <1>0 DEF Feed, Calls
    <2>. QED
      BY <2>1
  <1>. HIDE DEF t
  <1>2. EnqueueToken(t) /\ Row(t, position) \in Rows
    BY <1>0, <1>1, RowType DEF Feed, t
  <1>3. /\ rows' \in [Layers -> Seq(Rows)] /\ \A l \in Layers : Len(rows'[l]) <= Capacity
        /\ rows' = [l \in Layers |-> Append(rows[l], Row(t, position))]
    <2>1. \A l \in Layers : rows[l] \in Seq(Rows) /\ Len(rows[l]) < Capacity
      BY <1>2 DEF DrivenTypes, EnqueueToken
    <2>2. \A l \in Layers : /\ Append(rows[l], Row(t, position)) \in Seq(Rows)
                           /\ Len(Append(rows[l], Row(t, position))) = Len(rows[l]) + 1
      BY <2>1, <1>2
    <2>. QED
      BY <2>1, <2>2, <1>2, Consts DEF EnqueueToken
  <1>4. /\ history' \in Seq(Tokens) /\ position' = Len(history') /\ position' = position + 1
        /\ history' = Append(history, t) /\ logits' = history'
    BY <1>0, <1>1, <1>2 DEF DrivenTypes, EnqueueToken
  <1>5. call' \in Calls /\ call'.op = call.op /\ call'.todo = Tail(call.todo)
    <2>1. call.judged \in Seq(Seq(Tokens)) /\ call.base \in Nat
      BY <1>0 DEF Calls
    <2>2. Append(call.judged, logits') \in Seq(Seq(Tokens))
      BY <2>1, <1>4
    <2>3. call' = [call EXCEPT
            !.todo = Tail(@),
            !.base = IF call.op \in {"verify", "emit"} THEN position ELSE @,
            !.judged = IF call.op = "verify" THEN Append(@, logits') ELSE @]
      BY DEF Feed
    <2>. QED
      BY <1>0, <1>1, <2>1, <2>2, <2>3 DEF Calls
  <1>. QED
    BY <1>0, <1>1, <1>2, <1>3, <1>4, <1>5 DEF DrivenTypes, t

\* Feeding a prefill fills the next row of every layer.
LEMMA FeedFilling ==
    ASSUME DrivenTypes, request.input \in Seq(Tokens), Filling(request), Feed,
           UNCHANGED <<steps, request>>
    PROVE  Filling(request)'
  <1>. DEFINE t == Head(call.todo)
  <1>1. /\ call.todo \in Seq(Tokens) /\ call.todo # <<>> /\ Len(request.input) \in Nat
        /\ history \in Seq(Tokens) /\ position = Len(history)
    BY DEF Feed, DrivenTypes, Calls
  <1>2. /\ t = call.todo[1] /\ Len(call.todo) \in Nat \ {0} /\ Len(Tail(call.todo)) = Len(call.todo) - 1
        /\ \A i \in 1..Len(Tail(call.todo)) : Tail(call.todo)[i] = call.todo[i + 1]
    <2>1. Len(call.todo) \in Nat /\ Len(call.todo) # 0
      BY <1>1, EmptySeq
    <2>. QED
      BY <1>1, <2>1
  <1>3. /\ t \in Tokens /\ Row(t, position) \in Rows /\ call'.todo = Tail(call.todo)
        /\ rows' = [l \in Layers |-> Append(rows[l], Row(t, position))]
        /\ history' = Append(history, t) /\ logits' = history' /\ position' = position + 1 /\ position \in Nat
        /\ faultAt' = faultAt /\ compacted' = compacted
    BY FeedDriven DEF Feed
  <1>. HIDE DEF t
  <1>9. /\ faultAt = NoFault /\ ~compacted /\ position + Len(call.todo) = Len(request.input)
        /\ \A i \in 1..position : history[i] = request.input[i]
        /\ \A i \in 1..Len(call.todo) : call.todo[i] = request.input[position + i]
    BY DEF Filling
  <1>4. t = request.input[position + 1]
    BY <1>2, <1>9
  <1>5. \A i \in 1..position' : history'[i] = request.input[i]
    <2>1. \A i \in 1..position : history'[i] = history[i]
      BY <1>1, <1>3
    <2>2. history'[position + 1] = t
      BY <1>1, <1>3
    <2>3. \A i \in 1..position' : i \in 1..position \/ i = position + 1
      BY <1>3
    <2>. QED
      BY <2>1, <2>2, <2>3, <1>4, <1>9
  <1>6. /\ position' + Len(call'.todo) = Len(request.input)
        /\ \A i \in 1..Len(call'.todo) : call'.todo[i] = request.input[position' + i]
    <2>1. position' + Len(call'.todo) = Len(request.input)
      <3>1. Len(Tail(call.todo)) = Len(call.todo) - 1 /\ Len(call.todo) \in Nat
        BY <1>2
      <3>2. position' = position + 1 /\ position \in Nat
        BY <1>3
      <3>3. position + Len(call.todo) = Len(request.input) /\ Len(request.input) \in Nat
        BY <1>1, <1>9
      <3>4. position' + Len(Tail(call.todo)) = Len(request.input)
        <4>. DEFINE p == position
                    k == Len(call.todo)
                    m == Len(Tail(call.todo))
                    n == Len(request.input)
        <4>1. p \in Nat /\ k \in Nat /\ n \in Nat /\ m = k - 1 /\ p + k = n /\ position' = p + 1
          BY <3>1, <3>2, <3>3
        <4>. HIDE DEF p, k, m, n
        <4>2. (p + 1) + m = n
          BY <4>1
        <4>3. position' + m = n
          BY <4>1, <4>2
        <4>. QED
          BY <4>3 DEF m, n
      <3>. QED
        BY <3>4, <1>3
    <2>2. ASSUME NEW i \in 1..Len(Tail(call.todo)) PROVE Tail(call.todo)[i] = request.input[position' + i]
      <3>. DEFINE k == Len(call.todo)
                  m == Len(Tail(call.todo))
      <3>1. k \in Nat /\ m = k - 1 /\ i \in 1..m /\ Tail(call.todo)[i] = call.todo[i + 1]
        BY <1>2
      <3>2. position' = position + 1 /\ position \in Nat
        BY <1>3
      <3>. HIDE DEF k, m
      <3>3. i + 1 \in 1..k /\ position + (i + 1) = position' + i
        BY <3>1, <3>2
      <3>4. call.todo[i + 1] = request.input[position + (i + 1)]
        BY <1>9, <3>3 DEF k
      <3>. QED
        BY <3>1, <3>3, <3>4
    <2>. QED
      BY <2>1, <2>2, <1>3
  <1>7. ASSUME NEW l \in Layers
        PROVE  Len(rows'[l]) = position' /\ \A i \in 1..position' : rows'[l][i] = Row(request.input[i], i - 1)
    <2>1. rows[l] \in Seq(Rows) /\ Len(rows[l]) = position
      BY DEF DrivenTypes, Filling
    <2>2. rows'[l] = Append(rows[l], Row(t, position))
      BY <1>3
    <2>3. /\ Len(rows'[l]) = position + 1 /\ rows'[l][position + 1] = Row(t, position)
          /\ \A i \in 1..position : rows'[l][i] = rows[l][i]
      BY <2>1, <2>2, <1>3
    <2>4. \A i \in 1..position : rows'[l][i] = Row(request.input[i], i - 1)
      BY <2>3 DEF Filling
    <2>5. rows'[l][position + 1] = Row(request.input[position + 1], position)
      BY <2>3, <1>4
    <2>6. position \in Nat /\ position' = position + 1
      BY <1>3
    <2>7. ASSUME NEW i \in 1..position' PROVE rows'[l][i] = Row(request.input[i], i - 1)
      <3>1. CASE i \in 1..position
        BY <2>4, <3>1
      <3>2. CASE i = position + 1
        <4>1. i - 1 = position
          BY <2>6, <3>2
        <4>. QED
          BY <2>5, <3>2, <4>1
      <3>. QED
        BY <2>6, <3>1, <3>2
    <2>. QED
      BY <2>3, <2>6, <2>7
  <1>8. faultAt' = NoFault' /\ ~compacted'
    BY <1>3, <1>9 DEF NoFault
  <1>10. call'.op # "idle"
    BY FeedDriven DEF Feed, Busy
  <1>. QED
    BY <1>3, <1>5, <1>6, <1>7, <1>8, <1>10 DEF Filling

\* Feeding a decode puts the next evaluated token behind the attested rows.
LEMMA FeedDecoded ==
    ASSUME DrivenTypes, request.input \in Seq(Tokens), request.eval \in Seq(Tokens),
           NEW n \in Nat, n + 1 <= Len(request.eval), Decoded(request, n),
           call.todo = <<request.eval[n + 1]>>, Feed, UNCHANGED <<steps, request>>
    PROVE  Decoded(request, n + 1)' /\ call'.todo = <<>>
  <1>. DEFINE t == request.eval[n + 1]
              row == Row(t, position)
  <1>1. t \in Tokens /\ Head(call.todo) = t /\ Tail(call.todo) = <<>> /\ Len(request.input) \in Nat
    BY HeadTailProperties
  <1>2. /\ row \in Rows /\ call'.todo = <<>> /\ rows' = [l \in Layers |-> Append(rows[l], row)]
        /\ history' = Append(history, t) /\ logits' = history'
        /\ faultAt' = faultAt /\ compacted' = compacted
    BY <1>1, FeedDriven DEF Feed
  <1>3. position = Len(request.input) + n
    <2>1. /\ SubSeq(request.eval, 1, n) \in Seq(Tokens) /\ Len(SubSeq(request.eval, 1, n)) = n
          /\ position = Len(history) /\ history = request.input \o SubSeq(request.eval, 1, n)
      BY DEF DrivenTypes, Decoded
    <2>2. Len(request.input \o SubSeq(request.eval, 1, n)) = Len(request.input) + Len(SubSeq(request.eval, 1, n))
      BY <2>1
    <2>. QED
      BY <2>1, <2>2
  <1>. HIDE DEF t, row
  <1>4. history' = request.input \o SubSeq(request.eval, 1, n + 1)
    BY <1>2, HistoryGrows DEF Decoded, t
  <1>5. ASSUME NEW l \in Layers
        PROVE  Len(rows'[l]) = Len(rows'[1]) /\ AttestedRows(request, rows'[l], n + 1)
    <2>1. 1 \in Layers
      BY Consts
    <2>2. /\ rows[l] \in Seq(Rows) /\ rows[1] \in Seq(Rows) /\ Len(rows[l]) = Len(rows[1])
          /\ AttestedRows(request, rows[l], n)
      BY <2>1 DEF DrivenTypes, Decoded
    <2>3. rows'[l] = Append(rows[l], row) /\ rows'[1] = Append(rows[1], row)
      BY <1>2, <2>1
    <2>4. row = Row(request.eval[n + 1], Len(request.input) + n)
      BY <1>3 DEF row, t
    <2>. QED
      BY <2>2, <2>3, <2>4, <1>1, <1>2, AttestedGrows
  <1>. QED
    BY <1>2, <1>4, <1>5 DEF Decoded

-----------------------------------------------------------------------------
\* What a request allows does not change with the session.
LEMMA UsableSame ==
    ASSUME Usable(request), UNCHANGED <<request, backend>>
    PROVE  Usable(request)'
  BY DEF Usable, RetainedRows

LEMMA ScoredSame ==
    ASSUME Scored(request), UNCHANGED <<request, steps>>
    PROVE  Scored(request)'
  BY DEF Scored

\* A call record does not change what has been decoded.
LEMMA DecodedSame ==
    ASSUME NEW n, Decoded(request, n), UNCHANGED <<rows, logits, history, faultAt, compacted, request>>
    PROVE  Decoded(request, n)'
  BY DEF Decoded

\* A session that is not touched stays typed.
LEMMA TypesSame ==
    ASSUME DrivenTypes, UNCHANGED <<rows, position, logits, history>>,
           call' \in Calls, UNCHANGED steps
    PROVE  DrivenTypes'
  BY DEF DrivenTypes

\* A request is read, and validated before anything else happens.
LEMMA ReadKeeps ==
    ASSUME BackendInv, NEW r \in Requests, r.version = backend.version, ReadRequest(r)
    PROVE  BackendInv'
  <1>1. UNCHANGED <<rows, position, logits, history, call, steps, answer, backend>> /\ request' = r
    BY DEF ReadRequest, vars
  <1>2. DrivenTypes'
    BY <1>1, TypesSame DEF BackendInv, DrivenTypes
  <1>3. step = "reading" /\ step' \in {"loading", "failed"}
        /\ (step' = "loading" => IF backend.version = 4 THEN Valid4(r, backend) ELSE Valid3(r))
    BY DEF ReadRequest
  <1>4. answer = NoAnswer /\ call.op = "idle" /\ steps = <<>>
    BY <1>3 DEF BackendInv
  <1>. QED
    BY <1>1, <1>2, <1>3, <1>4 DEF BackendInv, Driving, NoAnswer, Valid4, Valid3

\* The model is loaded, or refused: what passes is usable.
LEMMA LoadKeeps ==
    ASSUME BackendInv, LoadBackend
    PROVE  BackendInv'
  <1>1. UNCHANGED <<rows, position, logits, history, call, steps, answer, backend, request>>
    BY DEF LoadBackend, vars
  <1>2. DrivenTypes'
    BY <1>1, TypesSame DEF BackendInv, DrivenTypes
  <1>3. /\ step = "loading" /\ step' \in {"loaded", "failed"}
        /\ step' = "loaded" => IF backend.version = 4 THEN Loads4(request, backend) ELSE Loads3(request, backend)
    BY DEF LoadBackend
  <1>4. /\ answer = NoAnswer /\ call.op = "idle" /\ steps = <<>>
        /\ request \in Requests /\ request.version = backend.version
        /\ IF backend.version = 4 THEN Valid4(request, backend) ELSE Valid3(request)
    BY <1>3 DEF BackendInv
  <1>5. step' = "loaded" => Usable(request)
    BY <1>3, <1>4, Usable4, Usable3
  <1>6. step' = "loaded" => Usable(request)'
    BY <1>1, <1>5, UsableSame
  <1>7. step' = "loaded" => Driven(request)' /\ Scored(request)'
    BY <1>1, <1>4 DEF Driven, Scored
  <1>. QED
    BY <1>1, <1>2, <1>3, <1>4, <1>6, <1>7 DEF BackendInv, Driving, NoAnswer

\* The input is handed to prefill.
LEMMA PrefillKeeps ==
    ASSUME BackendInv, PrefillInput
    PROVE  BackendInv'
  <1>1. /\ step = "loaded" /\ step' = "prefilling" /\ UNCHANGED <<backend, request, steps, answer, logits>>
        /\ rows' = [l \in Layers |-> <<>>] /\ position' = 0 /\ history' = <<>>
        /\ faultAt' = NoFault /\ compacted' = FALSE
        /\ call' = [NoCall EXCEPT !.op = "prefill", !.todo = request.input]
    BY DEF PrefillInput, Prefill, ResetState
  <1>2. /\ Usable(request) /\ Scored(request) /\ answer = NoAnswer /\ steps = <<>> /\ DrivenTypes
    BY <1>1 DEF BackendInv, Driving
  <1>3. request.input \in Seq(Tokens) /\ Len(request.input) \in Nat
    BY <1>2 DEF Usable
  <1>4. call' \in Calls /\ call'.op = "prefill" /\ call'.todo = request.input
    BY <1>1, <1>3, NoCallType DEF Calls, Busy
  <1>5. DrivenTypes'
    <2>1. rows' \in [Layers -> Seq(Rows)] /\ \A l \in Layers : Len(rows'[l]) <= Capacity
      BY <1>1, Consts
    <2>. QED
      BY <1>1, <1>2, <1>4, <2>1 DEF DrivenTypes
  <1>6. Filling(request)'
    BY <1>1, <1>3, <1>4 DEF Filling
  <1>7. Driven(request)'
    BY <1>1, <1>2, <1>4, <1>6 DEF Driven
  <1>8. Usable(request)' /\ Scored(request)'
    BY <1>1, <1>2, UsableSame, ScoredSame
  <1>. QED
    BY <1>1, <1>2, <1>5, <1>7, <1>8 DEF BackendInv, Driving, NoAnswer

\* A token that fails leaves the session typed, and a prefill or decode returns.
LEMMA FailDriven ==
    ASSUME DrivenTypes, FeedError \/ SyncError, call.op \in {"prefill", "decode"}, UNCHANGED steps
    PROVE  DrivenTypes' /\ call'.op = "idle" /\ ret' = "err"
  <1>1. call' = NoCall /\ ret' = "err"
    BY DEF FeedError, SyncError, Abort, Return
  <1>2. call' \in Calls /\ call'.op = "idle"
    BY <1>1, NoCallType
  <1>3. CASE SyncError
    BY <1>2, <1>1, <1>3, TypesSame DEF SyncError
  <1>4. CASE FeedError
    <2>1. PICK k \in 0..NumLayers : EnqueuePart(Head(call.todo), k)
      BY <1>4 DEF FeedError
    <2>2. Head(call.todo) \in Tokens /\ position \in Nat
      <3>1. call.todo \in Seq(Tokens) /\ call.todo # <<>> /\ history \in Seq(Tokens) /\ position = Len(history)
        BY <1>4 DEF FeedError, DrivenTypes, Calls
      <3>. QED
        BY <3>1
    <2>3. Row(Head(call.todo), position) \in Rows
      BY <2>2, RowType
    <2>4. ASSUME NEW l \in Layers
          PROVE  rows'[l] \in Seq(Rows) /\ Len(rows'[l]) <= Capacity
      <3>1. rows[l] \in Seq(Rows) /\ Len(rows[l]) <= Capacity /\ l \in Nat
        BY Consts DEF DrivenTypes
      <3>2. CASE l <= k
        <4>1. Len(rows[l]) < Capacity /\ rows'[l] = Append(rows[l], Row(Head(call.todo), position))
          BY <2>1, <3>1, <3>2, Consts DEF EnqueuePart
        <4>. QED
          BY <4>1, <3>1, <2>3, Consts
      <3>3. CASE ~(l <= k)
        BY <2>1, <3>1, <3>3 DEF EnqueuePart
      <3>. QED
        BY <3>2, <3>3
    <2>5. rows' \in [Layers -> Seq(Rows)]
      BY <2>1, <2>4 DEF EnqueuePart
    <2>6. UNCHANGED <<position, history, logits>>
      BY <2>1 DEF EnqueuePart
    <2>. QED
      BY <1>1, <1>2, <2>4, <2>5, <2>6 DEF DrivenTypes
  <1>. QED
    BY <1>1, <1>2, <1>3, <1>4

\* prefill and decode_one make progress, fail or return.
LEMMA SessionKeeps ==
    ASSUME BackendInv, SessionStep
    PROVE  BackendInv'
  <1>1. /\ step \in {"prefilling", "decoding"} /\ UNCHANGED <<backend, request, step, steps, answer>>
        /\ Usable(request) /\ Scored(request) /\ Driven(request) /\ answer = NoAnswer
        /\ DrivenTypes /\ call \in Calls
    BY DEF SessionStep, backendVars, BackendInv, Driving, DrivenTypes
  <1>2. Usable(request)' /\ Scored(request)'
    BY <1>1, UsableSame, ScoredSame
  <1>3. SUFFICES DrivenTypes' /\ Driven(request)'
    BY <1>1, <1>2 DEF BackendInv, Driving, NoAnswer
  <1>4. request.input \in Seq(Tokens) /\ request.eval \in Seq(Tokens) /\ Len(steps) \in Nat
    BY <1>1 DEF Usable, DrivenTypes
  <1>5. call.op \in {"prefill", "decode", "idle"}
    BY <1>1 DEF Driven
  <1>6. CASE FeedError \/ SyncError
    <2>1. call.op \in {"prefill", "decode"}
      BY <1>5, <1>6 DEF FeedError, SyncError, Busy
    <2>2. DrivenTypes' /\ call'.op = "idle" /\ ret' = "err"
      BY <1>1, <1>6, <2>1, FailDriven
    <2>. QED
      BY <1>1, <2>2 DEF Driven
  <1>7. CASE Feed
    <2>1. call.op \in {"prefill", "decode"} /\ call.todo # <<>>
      BY <1>5, <1>7 DEF Feed, Busy
    <2>2. DrivenTypes' /\ call'.op = call.op
      BY <1>1, <1>7, FeedDriven
    <2>3. CASE step = "prefilling"
      <3>1. Filling(request) /\ call.op = "prefill" /\ steps = <<>>
        BY <1>1, <2>1, <2>3 DEF Driven
      <3>2. Filling(request)'
        BY <1>1, <1>4, <1>7, <3>1, FeedFilling
      <3>. QED
        BY <1>1, <2>2, <2>3, <3>1, <3>2 DEF Driven
    <2>4. CASE step = "decoding"
      <3>1. /\ Len(steps) + 2 <= Len(request.eval) /\ call.op = "decode"
            /\ call.todo = <<request.eval[Len(steps) + 1]>> /\ Decoded(request, Len(steps))
        BY <1>1, <2>1, <2>4 DEF Driven
      <3>2. PICK n \in Nat : n = Len(steps)
        BY <1>4
      <3>3. Decoded(request, n + 1)' /\ call'.todo = <<>>
        <4>1. n + 1 <= Len(request.eval) /\ Decoded(request, n) /\ call.todo = <<request.eval[n + 1]>>
          BY <1>4, <3>1, <3>2
        <4>. QED
          BY <1>1, <1>4, <1>7, <4>1, FeedDecoded
      <3>4. Len(steps') = n /\ Len(steps)' = n
        BY <1>1, <3>2
      <3>5. Decoded(request, Len(steps) + 1)'
        BY <3>3, <3>4
      <3>. QED
        BY <1>1, <2>2, <2>4, <3>1, <3>3, <3>5 DEF Driven
    <2>. QED
      BY <1>1, <2>2, <2>3, <2>4
  <1>8. CASE Done
    <2>1. /\ call.todo = <<>> /\ call' = NoCall /\ ret' = "ok" /\ call.op \in {"prefill", "decode"}
          /\ UNCHANGED <<rows, position, logits, history, faultAt, compacted>>
      BY <1>8 DEF Done, Return, ghosts
    <2>2. call' \in Calls /\ call'.op = "idle" /\ call'.todo = <<>>
      BY <2>1, NoCallType DEF NoCall
    <2>3. DrivenTypes'
      BY <1>1, <2>1, <2>2, TypesSame
    <2>4. CASE step = "prefilling"
      <3>1. Filling(request) /\ steps = <<>>
        BY <1>1, <2>1, <2>4 DEF Driven
      <3>2. Filling(request)'
        BY <1>1, <2>1, <2>2, <3>1 DEF Filling, NoFault
      <3>. QED
        BY <1>1, <2>2, <2>3, <2>4, <3>1, <3>2 DEF Driven
    <2>5. CASE step = "decoding"
      <3>1. /\ Len(steps) + 2 <= Len(request.eval) /\ Decoded(request, Len(steps) + 1)
        BY <1>1, <2>1, <2>5 DEF Driven
      <3>2. Decoded(request, Len(steps) + 1)'
        BY <1>1, <2>1, <3>1 DEF Decoded, NoFault
      <3>. QED
        BY <1>1, <2>2, <2>3, <2>5, <3>1, <3>2 DEF Driven
    <2>. QED
      BY <1>1, <2>3, <2>4, <2>5
  <1>. QED
    BY <1>6, <1>7, <1>8 DEF SessionStep

\* Strictly increasing places of the input are no more than the input has.
LEMMA KeptFits ==
    ASSUME NEW n \in Nat, NEW keep \in Seq(1..n),
           \A i, j \in DOMAIN keep : i < j => keep[i] < keep[j]
    PROVE  Len(keep) <= n
  <1>1. /\ Len(keep) \in Nat /\ DOMAIN keep = 1..Len(keep) /\ keep \in [1..Len(keep) -> 1..n]
        /\ \A i \in 1..Len(keep) : keep[i] \in Nat
    OBVIOUS
  <1>2. \A i, j \in 1..Len(keep) : i # j => keep[i] # keep[j]
    <2>1. ASSUME NEW i \in 1..Len(keep), NEW j \in 1..Len(keep), i # j, keep[i] = keep[j]
          PROVE  FALSE
      <3>1. i < j \/ j < i
        BY <1>1, <2>1
      <3>2. keep[i] < keep[j] \/ keep[j] < keep[i]
        BY <1>1, <3>1
      <3>. QED
        BY <1>1, <2>1, <3>2
    <2>. QED
      BY <2>1
  <1>3. /\ IsFiniteSet(1..Len(keep)) /\ Cardinality(1..Len(keep)) = Len(keep)
        /\ IsFiniteSet(1..n) /\ Cardinality(1..n) = n
    <2>1. 1 \in Int /\ n \in Int /\ Len(keep) \in Int
      BY <1>1
    <2>2. IsFiniteSet(1..n) /\ Cardinality(1..n) = IF 1 > n THEN 0 ELSE n - 1 + 1
      BY <2>1, FS_Interval
    <2>3. /\ IsFiniteSet(1..Len(keep))
          /\ Cardinality(1..Len(keep)) = IF 1 > Len(keep) THEN 0 ELSE Len(keep) - 1 + 1
      BY <2>1, FS_Interval
    <2>. QED
      BY <1>1, <2>2, <2>3
  <1>4. ~(n < Len(keep))
    <2>1. ASSUME n < Len(keep) PROVE FALSE
      <3>1. \E i, j \in 1..Len(keep) : i # j /\ keep[i] = keep[j]
        BY <1>1, <1>3, <2>1, FS_PigeonHole
      <3>. QED
        BY <1>2, <3>1
    <2>. QED
      BY <2>1
  <1>. QED
    BY <1>1, <1>4

\* The whole input has been fed: a row per token on every layer, and its logits.
LEMMA Filled ==
    ASSUME DrivenTypes, Usable(request), Filling(request), call.op = "idle"
    PROVE  /\ faultAt = NoFault /\ ~compacted /\ logits = history
           /\ history = request.input \o SubSeq(request.eval, 1, 0)
           /\ \A l \in Layers : /\ Len(rows[l]) = Len(request.input) /\ rows[l] \in Seq(Rows)
                                /\ \A i \in 1..Len(request.input) : rows[l][i] = Row(request.input[i], i - 1)
  <1>1. /\ request.input \in Seq(Tokens) /\ request.eval \in Seq(Tokens) /\ Len(request.input) \in Nat
        /\ Len(request.input) > 0
    BY DEF Usable
  <1>2. call.todo = <<>> /\ Len(call.todo) = 0 /\ position \in Nat
    BY DEF Filling, DrivenTypes
  <1>3. position + 0 = Len(request.input)
    BY <1>2 DEF Filling
  <1>4. position = Len(request.input) /\ position > 0
    BY <1>1, <1>2, <1>3
  <1>5. history = request.input \o SubSeq(request.eval, 1, 0)
    <2>1. history \in Seq(Tokens) /\ Len(history) = Len(request.input)
      BY <1>4 DEF DrivenTypes
    <2>2. \A i \in 1..Len(history) : history[i] = request.input[i]
      BY <1>4, <2>1 DEF Filling
    <2>3. history = request.input
      BY <1>1, <2>1, <2>2, SeqEqual
    <2>4. SubSeq(request.eval, 1, 0) = <<>>
      BY <1>1
    <2>. QED
      BY <1>1, <2>3, <2>4
  <1>. QED
    BY <1>4, <1>5 DEF Filling, DrivenTypes

\* The retained rows are selected, or the whole cache stays.
LEMMA SelectKeeps ==
    ASSUME BackendInv, ApplySelection
    PROVE  BackendInv'
  <1>1. /\ step = "prefilling" /\ call.op = "idle" /\ ret = "ok" /\ step' = "selected"
        /\ UNCHANGED <<backend, request, steps, answer>>
    BY DEF ApplySelection, Returned
  <1>2. /\ Usable(request) /\ Scored(request) /\ Driven(request) /\ answer = NoAnswer
        /\ DrivenTypes /\ call \in Calls
    BY <1>1 DEF BackendInv, Driving, DrivenTypes
  <1>3. Filling(request) /\ steps = <<>>
    BY <1>1, <1>2 DEF Driven
  <1>4. /\ request.input \in Seq(Tokens) /\ Len(request.input) \in Nat
        /\ RetainedRows(request) \in Seq(DOMAIN request.input)
        /\ DOMAIN request.input = 1..Len(request.input)
    BY <1>2 DEF Usable
  <1>5. 1 \in Layers
    BY SessionAssumption DEF Layers
  <1>6. /\ faultAt = NoFault /\ ~compacted /\ logits = history
        /\ history = request.input \o SubSeq(request.eval, 1, 0)
        /\ \A l \in Layers : /\ Len(rows[l]) = Len(request.input) /\ rows[l] \in Seq(Rows)
                             /\ \A i \in 1..Len(request.input) : rows[l][i] = Row(request.input[i], i - 1)
    BY <1>1, <1>2, <1>3, Filled
  <1>7. SUFFICES DrivenTypes' /\ call'.op = "idle" /\ Decoded(request, 0)'
    <2>1. Usable(request)' /\ Scored(request)'
      BY <1>1, <1>2, UsableSame, ScoredSame
    <2>2. Driven(request)'
      BY <1>1, <1>3, <1>7 DEF Driven
    <2>. QED
      BY <1>1, <1>2, <1>7, <2>1, <2>2 DEF BackendInv, Driving, NoAnswer
  <1>8. CASE request.mode = "candidate"
    <2>. DEFINE keep == RetainedRows(request)
    <2>1. /\ rows' = [l \in Layers |-> [i \in 1..Len(keep) |-> rows[l][keep[i]]]]
          /\ UNCHANGED <<position, history, logits>> /\ call' = NoCall /\ faultAt' = NoFault
      BY <1>6, <1>8 DEF ApplySelection, Compact, KeepRows, Return
    <2>2. /\ \A i, j \in DOMAIN keep : i < j => keep[i] < keep[j]
          /\ Range(keep) = KeptPositions(request) /\ keep \in Seq(1..Len(request.input))
          /\ keep \in Seq(DOMAIN request.input)
      BY <1>2, <1>4 DEF Usable
    <2>. HIDE DEF keep
    <2>3. /\ Len(keep) \in Nat /\ Len(keep) <= Len(request.input)
          /\ \A i \in 1..Len(keep) : keep[i] \in 1..Len(request.input)
      BY <1>4, <2>2, KeptFits
    <2>4. Len(request.input) <= Capacity
      BY <1>5, <1>2, <1>6 DEF DrivenTypes
    <2>5. ASSUME NEW l \in Layers
          PROVE  /\ rows'[l] \in Seq(Rows) /\ Len(rows'[l]) = Len(keep)
                 /\ AttestedRows(request, rows'[l], 0)
      <3>1. rows'[l] = [i \in 1..Len(keep) |-> rows[l][keep[i]]]
        BY <2>1
      <3>2. \A i \in 1..Len(keep) : rows[l][keep[i]] \in Rows
        BY <1>6, <2>3
      <3>3. rows'[l] \in Seq(Rows) /\ Len(rows'[l]) = Len(keep)
        BY <2>3, <3>1, <3>2
      <3>4. AttestedRows(request, [i \in 1..Len(keep) |-> rows[l][keep[i]]], 0)
        <4>1. rows[l] \in Seq(Rows) /\ \A i \in 1..Len(request.input) : rows[l][i] = Row(request.input[i], i - 1)
          BY <1>6
        <4>. QED
          BY <1>4, <2>2, <4>1, AttestedKept
      <3>. QED
        BY <3>1, <3>3, <3>4
    <2>6. rows' \in [Layers -> Seq(Rows)] /\ \A l \in Layers : Len(rows'[l]) <= Capacity
      <3>1. rows' \in [Layers -> Seq(Rows)]
        BY <2>1, <2>5
      <3>2. Len(keep) <= Capacity
        BY <1>4, <2>3, <2>4, Consts
      <3>. QED
        BY <3>1, <3>2, <2>5
    <2>7. DrivenTypes' /\ call'.op = "idle"
      BY <1>1, <1>2, <2>1, <2>6, NoCallType DEF DrivenTypes
    <2>8. Decoded(request, 0)'
      BY <1>1, <1>5, <1>6, <1>8, <2>1, <2>5 DEF Decoded, NoFault
    <2>. QED
      BY <2>7, <2>8
  <1>9. CASE request.mode # "candidate"
    <2>1. UNCHANGED <<rows, position, logits, history, call, faultAt, compacted>>
      BY <1>9 DEF ApplySelection, vars, ghosts
    <2>2. ASSUME NEW l \in Layers PROVE Len(rows[l]) = Len(rows[1]) /\ AttestedRows(request, rows[l], 0)
      <3>1. KeptPositions(request) = DOMAIN request.input
        BY <1>2, <1>9 DEF Usable
      <3>. QED
        BY <1>4, <1>5, <1>6, <3>1, AttestedWhole
    <2>3. Decoded(request, 0)
      BY <1>6, <2>2 DEF Decoded
    <2>. QED
      BY <1>1, <1>2, <2>1, <2>3, TypesSame, DecodedSame
  <1>. QED
    BY <1>8, <1>9

\* The bridge token is handed to decode_one.
LEMMA BridgeKeeps ==
    ASSUME BackendInv, Bridge
    PROVE  BackendInv'
  <1>1. /\ step = "selected" /\ step' = "decoding" /\ UNCHANGED <<backend, request, steps, answer>>
        /\ UNCHANGED <<rows, position, logits, history, faultAt, compacted>>
        /\ call' = [NoCall EXCEPT !.op = "decode", !.todo = <<request.eval[1]>>, !.base = position]
    BY DEF Bridge, Returned, Decode, ghosts
  <1>2. /\ Usable(request) /\ Scored(request) /\ Driven(request) /\ answer = NoAnswer /\ DrivenTypes
    BY <1>1 DEF BackendInv, Driving
  <1>3. steps = <<>> /\ Decoded(request, 0) /\ request.eval \in Seq(Tokens) /\ Len(request.eval) >= 2
    BY <1>1, <1>2 DEF Driven, Usable
  <1>4. call' \in Calls /\ call'.op = "decode" /\ call'.todo = <<request.eval[1]>>
    <2>1. request.eval[1] \in Tokens /\ position \in Nat
      BY <1>2, <1>3 DEF DrivenTypes
    <2>2. <<request.eval[1]>> \in Seq(Tokens)
      BY <2>1
    <2>. QED
      BY <1>1, <2>1, <2>2, NoCallType DEF Calls, Busy
  <1>5. DrivenTypes' /\ Decoded(request, 0)'
    BY <1>1, <1>2, <1>3, <1>4, TypesSame, DecodedSame
  <1>6. Driven(request)'
    <2>1. steps' = <<>> /\ Len(steps') = 0 /\ request' = request
      BY <1>1, <1>3
    <2>2. Decoded(request, Len(steps))'
      BY <1>5, <2>1
    <2>3. Len(steps') + 2 <= Len(request.eval) /\ call'.todo = <<request.eval[Len(steps') + 1]>>
      BY <1>3, <1>4, <2>1
    <2>. QED
      BY <1>1, <1>4, <2>1, <2>2, <2>3 DEF Driven
  <1>7. Usable(request)' /\ Scored(request)'
    BY <1>1, <1>2, UsableSame, ScoredSame
  <1>. QED
    BY <1>1, <1>2, <1>5, <1>6, <1>7 DEF BackendInv, Driving, NoAnswer

\* A target is scored, and decoded unless it is the last one.
LEMMA ScoreKeeps ==
    ASSUME BackendInv, NEW t \in Tokens, Score(t)
    PROVE  BackendInv'
  <1>. DEFINE n == Len(steps) + 1
              new == [target |-> request.eval[n + 1], top1 |-> t, seen |-> logits, over |-> rows]
  <1>1. /\ step = "decoding" /\ call.op = "idle" /\ ret = "ok" /\ steps' = Append(steps, new)
        /\ UNCHANGED <<backend, request, answer>>
    BY DEF Score, Returned
  <1>2. /\ Usable(request) /\ Scored(request) /\ Driven(request) /\ answer = NoAnswer /\ DrivenTypes
    BY <1>1 DEF BackendInv, Driving
  <1>3. /\ Decoded(request, n) /\ n + 1 <= Len(request.eval) /\ request.eval \in Seq(Tokens)
        /\ Len(steps) \in Nat /\ Len(request.eval) \in Nat /\ n \in Nat /\ n + 1 \in 1..Len(request.eval)
    <2>1. /\ Decoded(request, Len(steps) + 1) /\ Len(steps) + 2 <= Len(request.eval)
      BY <1>1, <1>2 DEF Driven
    <2>2. request.eval \in Seq(Tokens) /\ Len(steps) \in Nat /\ Len(request.eval) \in Nat
      BY <1>2 DEF Usable, DrivenTypes
    <2>. QED
      BY <2>1, <2>2
  <1>4. new \in [target : Tokens, top1 : Tokens, seen : Seq(Tokens), over : [Layers -> Seq(Rows)]]
    <2>1. request.eval[n + 1] \in Tokens
      BY <1>3
    <2>. QED
      BY <1>2, <2>1 DEF DrivenTypes
  <1>5. /\ steps' \in Seq([target : Tokens, top1 : Tokens, seen : Seq(Tokens), over : [Layers -> Seq(Rows)]])
        /\ Len(steps') = n /\ \A i \in 1..Len(steps) : steps'[i] = steps[i]
        /\ steps'[n] = new /\ DOMAIN steps' = 1..n /\ DOMAIN steps = 1..Len(steps)
    <2>1. steps \in Seq([target : Tokens, top1 : Tokens, seen : Seq(Tokens), over : [Layers -> Seq(Rows)]])
      BY <1>2 DEF DrivenTypes
    <2>. HIDE DEF new
    <2>. QED
      BY <1>1, <1>3, <1>4, <2>1
  <1>6. Scored(request)'
    <2>1. /\ new.target = request.eval[n + 1] /\ new.seen = request.input \o SubSeq(request.eval, 1, n)
          /\ \A l \in Layers : AttestedRows(request, new.over[l], n)
      BY <1>3 DEF Decoded
    <2>. HIDE DEF new
    <2>2. \A i \in 1..n : i \in 1..Len(steps) \/ i = n
      BY <1>3
    <2>. HIDE DEF n
    <2>3. ASSUME NEW i \in 1..n
          PROVE  /\ steps'[i].target = request.eval[i + 1]
                 /\ steps'[i].seen = request.input \o SubSeq(request.eval, 1, i)
                 /\ \A l \in Layers : AttestedRows(request, steps'[i].over[l], i)
      <3>1. CASE i = n
        BY <1>5, <2>1, <3>1
      <3>2. CASE i \in 1..Len(steps)
        BY <1>2, <1>5, <3>2 DEF Scored
      <3>. QED
        BY <2>2, <3>1, <3>2
    <2>. QED
      BY <1>1, <1>5, <2>3 DEF Scored
  <1>7. Usable(request)'
    BY <1>1, <1>2, UsableSame
  <1>. HIDE DEF new
  <1>8. SUFFICES DrivenTypes' /\ step' \in {"decoding", "scored"} /\ Driven(request)'
    BY <1>1, <1>2, <1>6, <1>7 DEF BackendInv, Driving, NoAnswer
  <1>9. PICK m \in Nat : m = n /\ Decoded(request, m)
    BY <1>3
  <1>10. CASE n + 1 < Len(request.eval)
    <2>1. Decode(request.eval[n + 1]) /\ step' = "decoding"
      BY <1>1, <1>10 DEF Score
    <2>2. /\ UNCHANGED <<rows, position, logits, history, faultAt, compacted>>
          /\ call' = [NoCall EXCEPT !.op = "decode", !.todo = <<request.eval[n + 1]>>, !.base = position]
      BY <2>1 DEF Decode, ghosts
    <2>3. call' \in Calls /\ call'.op = "decode" /\ call'.todo = <<request.eval[n + 1]>>
      <3>1. request.eval[n + 1] \in Tokens /\ position \in Nat
        BY <1>2, <1>3 DEF DrivenTypes
      <3>2. <<request.eval[n + 1]>> \in Seq(Tokens)
        BY <3>1
      <3>. QED
        BY <2>2, <3>1, <3>2, NoCallType DEF Calls, Busy
    <2>4. DrivenTypes'
      BY <1>2, <1>5, <2>2, <2>3 DEF DrivenTypes
    <2>5. Decoded(request, m)'
      BY <1>1, <1>9, <2>2, DecodedSame
    <2>6. Decoded(request, Len(steps))' /\ Len(steps') + 2 <= Len(request.eval)
          /\ call'.todo = <<request.eval[Len(steps') + 1]>>
      <3>1. Len(steps)' = m
        BY <1>5, <1>9
      <3>2. Decoded(request, Len(steps))'
        BY <2>5, <3>1
      <3>. QED
        BY <1>1, <1>3, <1>5, <1>10, <2>3, <3>2
    <2>. QED
      BY <1>1, <2>1, <2>3, <2>4, <2>6 DEF Driven
  <1>11. CASE ~(n + 1 < Len(request.eval))
    <2>1. step' = "scored" /\ UNCHANGED <<rows, position, logits, history, faultAt, compacted, call>>
      BY <1>1, <1>11 DEF Score, vars, ghosts
    <2>2. DrivenTypes'
      BY <1>2, <1>5, <2>1 DEF DrivenTypes
    <2>3. Decoded(request, m)'
      BY <1>1, <1>9, <2>1, DecodedSame
    <2>4. Decoded(request, Len(steps))' /\ Len(steps') + 1 = Len(request.eval)
      <3>1. Len(steps)' = m
        BY <1>5, <1>9
      <3>2. Decoded(request, Len(steps))'
        BY <2>3, <3>1
      <3>. QED
        BY <1>3, <1>5, <1>11, <3>2
    <2>. QED
      BY <1>1, <2>1, <2>2, <2>4 DEF Driven
  <1>. QED
    BY <1>10, <1>11

\* The response counts scored steps.
LEMMA RespondKeeps ==
    ASSUME BackendInv, Respond
    PROVE  BackendInv'
  <1>1. /\ step = "scored" /\ step' = "answered" /\ UNCHANGED <<backend, request, steps>>
        /\ UNCHANGED <<rows, position, logits, history, faultAt, compacted, call>>
        /\ answer'.hits = Cardinality({i \in DOMAIN steps : steps[i].target = steps[i].top1})
        /\ answer'.scored = Len(steps)
    BY DEF Respond, vars
  <1>2. /\ Usable(request) /\ Scored(request) /\ Driven(request) /\ DrivenTypes
    BY <1>1 DEF BackendInv, Driving
  <1>3. answer'.hits <= answer'.scored
    <2>1. Len(steps) \in Nat /\ DOMAIN steps = 1..Len(steps)
      BY <1>2 DEF DrivenTypes
    <2>2. IsFiniteSet(1..Len(steps)) /\ Cardinality(1..Len(steps)) = Len(steps)
      <3>1. 1 \in Int /\ Len(steps) \in Int
        BY <2>1
      <3>2. /\ IsFiniteSet(1..Len(steps))
            /\ Cardinality(1..Len(steps)) = IF 1 > Len(steps) THEN 0 ELSE Len(steps) - 1 + 1
        BY <3>1, FS_Interval
      <3>. QED
        BY <2>1, <3>2
    <2>3. {i \in DOMAIN steps : steps[i].target = steps[i].top1} \in SUBSET (1..Len(steps))
      BY <2>1
    <2>4. Cardinality({i \in DOMAIN steps : steps[i].target = steps[i].top1}) <= Cardinality(1..Len(steps))
      BY <2>2, <2>3, FS_Subset
    <2>. QED
      BY <1>1, <2>2, <2>4
  <1>4. DrivenTypes' /\ Usable(request)' /\ Scored(request)'
    BY <1>1, <1>2, TypesSame, UsableSame, ScoredSame DEF DrivenTypes
  <1>5. Driven(request)'
    BY <1>1, <1>2 DEF Driven, Decoded, NoFault
  <1>. QED
    BY <1>1, <1>3, <1>4, <1>5 DEF BackendInv, Driving

\* A process that fails leaves no answer.
LEMMA FailKeeps ==
    ASSUME BackendInv, BackendFails
    PROVE  BackendInv'
  <1>1. /\ step # "answered" /\ step' = "failed" /\ UNCHANGED <<steps, answer>>
        /\ UNCHANGED <<rows, position, logits, history, call>>
    BY DEF BackendFails, vars
  <1>2. answer = NoAnswer /\ DrivenTypes /\ call \in Calls
    BY <1>1 DEF BackendInv, DrivenTypes
  <1>3. DrivenTypes'
    BY <1>1, <1>2, TypesSame
  <1>. QED
    BY <1>1, <1>2, <1>3 DEF BackendInv, Driving, NoAnswer

LEMMA BackendStep == BackendInv /\ [BackendNext]_<<vars, backendVars>> => BackendInv'
  <1>1. SUFFICES ASSUME BackendInv, [BackendNext]_<<vars, backendVars>>
                 PROVE  BackendInv'
    OBVIOUS
  <1>2. CASE UNCHANGED <<vars, backendVars>>
    <2>1. UNCHANGED <<rows, position, logits, history, faultAt, compacted, call, ret,
                      backend, request, step, steps, answer>>
      BY <1>2 DEF vars, backendVars
    <2>2. DrivenTypes'
      BY <1>1, <2>1, TypesSame DEF BackendInv, DrivenTypes
    <2>3. step \in Driving => Usable(request)' /\ Scored(request)'
      BY <1>1, <2>1, UsableSame, ScoredSame DEF BackendInv
    <2>4. step \in Driving => Driven(request)'
      BY <1>1, <2>1 DEF BackendInv, Driven, Filling, Decoded, NoFault
    <2>. QED
      BY <1>1, <2>1, <2>2, <2>3, <2>4 DEF BackendInv, Driving, NoAnswer
  <1>3. CASE BackendNext
    BY <1>1, <1>3, ReadKeeps, LoadKeeps, PrefillKeeps, SessionKeeps, SelectKeeps, BridgeKeeps,
       ScoreKeeps, RespondKeeps, FailKeeps DEF BackendNext
  <1>. QED
    BY <1>1, <1>2, <1>3

LEMMA BackendStart == Init /\ BackendInit => BackendInv
  <1>1. SUFFICES ASSUME Init, BackendInit PROVE BackendInv
    OBVIOUS
  <1>2. DrivenTypes /\ call.op = "idle"
    <2>1. rows \in [Layers -> Seq(Rows)] /\ \A l \in Layers : Len(rows[l]) <= Capacity
      BY <1>1, Consts DEF Init
    <2>2. call \in Calls /\ call.op = "idle" /\ history = <<>> /\ logits = <<>> /\ position = 0 /\ steps = <<>>
      BY <1>1, NoCallType DEF Init, BackendInit
    <2>. QED
      BY <2>1, <2>2 DEF DrivenTypes
  <1>. QED
    BY <1>1, <1>2 DEF BackendInit, BackendInv, Driving, NoAnswer

\* As many rows are cached as layers times rows of one layer.
LEMMA CachedRows ==
    ASSUME DrivenTypes, \A l \in Layers : Len(rows[l]) = Len(rows[1])
    PROVE  /\ Cardinality({c \in Layers \X (1..Capacity) : c[2] \in DOMAIN rows[c[1]]}) = NumLayers * Len(rows[1])
           /\ Len(rows[1]) \in Nat
  <1>. DEFINE cached == {c \in Layers \X (1..Capacity) : c[2] \in DOMAIN rows[c[1]]}
              n == Len(rows[1])
  <1>1. 1 \in Layers /\ Layers = 1..NumLayers /\ NumLayers \in Nat /\ Capacity \in Nat
    BY SessionAssumption DEF Layers
  <1>2. \A l \in Layers : rows[l] \in Seq(Rows) /\ Len(rows[l]) = n /\ DOMAIN rows[l] = 1..n
    BY DEF DrivenTypes
  <1>3. n \in Nat /\ n <= Capacity
    BY <1>1, <1>2 DEF DrivenTypes
  <1>. HIDE DEF n
  <1>4. 1..n \subseteq 1..Capacity
    BY <1>1, <1>3
  <1>5. cached = Layers \X (1..n)
    <2>1. ASSUME NEW c \in Layers \X (1..Capacity)
          PROVE  c[2] \in DOMAIN rows[c[1]] <=> c[2] \in 1..n
      BY <1>2
    <2>2. cached = {c \in Layers \X (1..Capacity) : c[2] \in 1..n}
      BY <2>1
    <2>. QED
      BY <1>4, <2>2
  <1>6. /\ IsFiniteSet(Layers) /\ Cardinality(Layers) = NumLayers
        /\ IsFiniteSet(1..n) /\ Cardinality(1..n) = n
    <2>1. 1 \in Int /\ n \in Int /\ NumLayers \in Int
      BY <1>1, <1>3
    <2>2. IsFiniteSet(1..n) /\ Cardinality(1..n) = IF 1 > n THEN 0 ELSE n - 1 + 1
      BY <2>1, FS_Interval
    <2>3. IsFiniteSet(1..NumLayers) /\ Cardinality(1..NumLayers) = IF 1 > NumLayers THEN 0 ELSE NumLayers - 1 + 1
      BY <2>1, FS_Interval
    <2>. QED
      BY <1>1, <1>3, <2>2, <2>3
  <1>7. Cardinality(Layers \X (1..n)) = NumLayers * n
    BY <1>6, FS_Product
  <1>. QED
    BY <1>3, <1>5, <1>7 DEF n

\* Whatever requests a caller writes and wherever a session fails: a response is
\* only given for targets judged by logits of the attested rows.
THEOREM AttestedHolds == BackendSpec => []ScoresAttested
  <1>1. BackendInv => ScoresAttested
    <2>1. SUFFICES ASSUME BackendInv, answer # NoAnswer
                   PROVE  ScoresAttested
      BY DEF ScoresAttested
    <2>2. /\ step = "answered" /\ answer.hits <= answer.scored /\ DrivenTypes
          /\ Usable(request) /\ Driven(request) /\ Scored(request)
      BY <2>1 DEF BackendInv, Driving
    <2>3. /\ Decoded(request, Len(steps)) /\ Len(steps) + 1 = Len(request.eval)
      BY <2>2 DEF Driven
    <2>4. faultAt = NoFault /\ (request.mode = "baseline" => ~compacted)
          /\ \A l \in Layers : Len(rows[l]) = Len(rows[1])
      BY <2>3 DEF Decoded
    <2>5. Len(steps) = Len(request.eval) - 1
      <3>1. Len(steps) \in Nat
        BY <2>2 DEF DrivenTypes
      <3>. QED
        BY <2>3, <3>1
    <2>6. ASSUME request.version = 4
          PROVE  request.bytes * Len(rows[1])
                   = 2 * HeadBytes * Cardinality({c \in Layers \X (1..Capacity) : c[2] \in DOMAIN rows[c[1]]})
      <3>1. request.bytes = 2 * NumLayers * HeadBytes
        BY <2>2, <2>6 DEF Usable, KvBytesPerToken
      <3>. DEFINE n == Len(rows[1])
      <3>2. /\ Cardinality({c \in Layers \X (1..Capacity) : c[2] \in DOMAIN rows[c[1]]}) = NumLayers * n
            /\ n \in Nat
        BY <2>2, <2>4, CachedRows
      <3>3. NumLayers \in Nat /\ HeadBytes \in Nat
        BY SessionAssumption, BackendAssumption
      <3>. HIDE DEF n
      <3>4. (2 * NumLayers * HeadBytes) * n = 2 * HeadBytes * (NumLayers * n)
        BY <3>2, <3>3
      <3>. QED
        BY <3>1, <3>2, <3>4 DEF n
    <2>. QED
      BY <2>2, <2>4, <2>5, <2>6 DEF ScoresAttested
  <1>. QED
    BY <1>1, BackendStart, BackendStep, PTL DEF BackendSpec
=============================================================================
