------------------------------- MODULE KvCache --------------------------------
(***************************************************************************)
(* The device-resident KV cache of nnis-rt (kv_cache.rs) with the          *)
(* ownership guard of its asynchronous appends (async_work.rs).            *)
(*                                                                         *)
(* The host submits work to ONE in-order CUDA stream and goes on; the      *)
(* device executes the stream later.  append_layer_async submits, head by  *)
(* head, one copy into the key plane and one into the value plane, records *)
(* a completion event behind them, and only then advances the layer's      *)
(* length.  Source and cache allocations are Arc-shared: an allocation is  *)
(* freed when its last owner lets go, and every append owns its four       *)
(* allocations until its event is known to have completed.  When the       *)
(* driver cannot establish that, the owner is leaked (mem::forget).        *)
(*                                                                         *)
(* Data abstraction: a row of a source tensor is <<payload, head, row>>,   *)
(* one cell of the cache stands for the head_dim elements of one position. *)
(***************************************************************************)
EXTENDS KvLayout, Sequences

CONSTANTS
    Sources,       \* source tensors the caller may append from
    SrcTokens,     \* SrcTokens[b]: tokens packed in source b (its length)
    Payloads,      \* contents the caller's kernels may produce
    MaxAppends,    \* bound: calls of append_layer_async that pass validation
    MaxWrites      \* bound: kernels of the caller that write a source

ASSUME KvCacheAssumption ==
    /\ SrcTokens \in [Sources -> Nat]
    /\ Sources # {}
    /\ MaxAppends \in Nat
    /\ MaxWrites \in Nat

VARIABLES
    lengths,     \* KvCache.lengths: valid positions of each layer
    stream,      \* operations submitted to the stream and not yet executed
    planes,      \* device memory of the two cache allocations
    srcmem,      \* device memory of the sources: the payload they hold
    status,      \* status[a]: what became of append a's ownership record
    res,         \* res[a]: the two sources append a retains
    host,        \* the append_layer_async call the host is in, or idle
    held,        \* sources the caller still owns an Arc of
    cacheHeld,   \* the KvCache value itself is alive
    writes,      \* kernels the caller has submitted so far
    issued,      \* ghost: payload of a source once the stream has drained
    want         \* ghost: per layer, the rows the caller appended

vars == <<lengths, stream, planes, srcmem, status, res, host, held,
          cacheHeld, writes, issued, want>>

-----------------------------------------------------------------------------
Planes  == {"key", "value"}
Appends == 1..MaxAppends

Junk == "junk"                 \* a source nobody has written yet
JunkCell == <<Junk, 0, 0>>     \* a cache cell nobody has written yet

Copies == [kind : {"copy"}, id : Appends, plane : Planes, src : Sources,
           head : Heads, n : Nat, dst : Nat]
Events == [kind : {"event"}, id : Appends]
Writes == [kind : {"write"}, src : Sources, pay : Payloads]

\* Mutant: the value copy is addressed with the next head.
CopyHeadOff(i) == i \div 2

\* The copies of one append: for each head the key copy, then the value copy.
CopyCount == 2 * NumHeads
CopyHead(i)  == (i - 1) \div 2
CopyPlane(i) == IF i % 2 = 1 THEN "key" ELSE "value"

NoAppend == [pc |-> "idle", id |-> 0, layer |-> 0, start |-> 0, n |-> 0,
             next |-> 1]

HostStates ==
    [pc : {"idle", "submitting", "draining"}, id : Appends \cup {0},
     layer : Nat, start : Nat, n : Nat, next : Nat]

TypeOK ==
    /\ lengths \in [Layers -> 0..Capacity]
    /\ stream \in Seq(Copies \cup Events \cup Writes)
    /\ status \in [Appends -> {"unused", "inflight", "pending", "released", "leaked"}]
    /\ res \in [Appends -> [key : Sources, value : Sources]]
    /\ host \in HostStates
    /\ held \subseteq Sources
    /\ cacheHeld \in BOOLEAN
    /\ writes \in 0..MaxWrites
    /\ host.pc # "idle" => /\ host.id \in Appends
                           /\ host.layer \in Layers
                           /\ host.start + host.n <= Capacity
                           /\ host.next \in 1..(CopyCount + 1)

Init ==
    /\ lengths = [l \in Layers |-> 0]
    /\ stream = <<>>
    /\ planes = [p \in Planes |-> [c \in Cells |-> JunkCell]]
    /\ srcmem = [b \in Sources |-> Junk]
    /\ status = [a \in Appends |-> "unused"]
    /\ res = [a \in Appends |-> [key   |-> CHOOSE b \in Sources : TRUE,
                                 value |-> CHOOSE b \in Sources : TRUE]]
    /\ host = NoAppend
    /\ held = Sources
    /\ cacheHeld = TRUE
    /\ writes = 0
    /\ issued = [b \in Sources |-> Junk]
    /\ want = [l \in Layers |-> <<>>]

-----------------------------------------------------------------------------
\* Ownership.  An append owns its allocations from the moment its call has
\* cloned the Arcs until the record is released; a leaked record owns forever.
Retains(a) == status[a] \in {"inflight", "pending", "leaked"}

SourceLive(b) ==
    b \in held \/ \E a \in Appends : Retains(a) /\ b \in {res[a].key, res[a].value}

CacheLive == cacheHeld \/ \E a \in Appends : Retains(a)

\* Event::query and Event::synchronize: the stream has passed a's event.
EventPassed(a) ==
    \A i \in DOMAIN stream : ~(stream[i].kind = "event" /\ stream[i].id = a)

-----------------------------------------------------------------------------
\* The caller's decoder kernels fill a source on the same stream (the session
\* reuses its workspace tensors for every token).
WriteSource(b, p) ==
    /\ host.pc = "idle"
    /\ b \in held
    /\ writes < MaxWrites
    /\ writes' = writes + 1
    /\ stream' = Append(stream, [kind |-> "write", src |-> b, pay |-> p])
    /\ issued' = [issued EXCEPT ![b] = p]
    /\ UNCHANGED <<lengths, planes, srcmem, status, res, host, held, cacheHeld, want>>

\* The caller lets go of a source; its own kernels must be done with it.
DropSource(b) ==
    /\ b \in held
    /\ \A i \in DOMAIN stream : ~(stream[i].kind = "write" /\ stream[i].src = b)
    /\ held' = held \ {b}
    /\ UNCHANGED <<lengths, stream, planes, srcmem, status, res, host, cacheHeld,
                   writes, issued, want>>

\* The KvCache value is dropped; outstanding appends keep their Arcs.
DropCache ==
    /\ host.pc = "idle"
    /\ cacheHeld
    /\ cacheHeld' = FALSE
    /\ UNCHANGED <<lengths, stream, planes, srcmem, status, res, host, held,
                   writes, issued, want>>

\* Mutant: the capacity check is missing.
BeginAppendUnchecked(layer, ks, vs, n) ==
    /\ host.pc = "idle" /\ cacheHeld
    /\ {ks, vs} \subseteq held
    /\ SrcTokens[ks] = n /\ SrcTokens[vs] = n
    /\ \E a \in Appends :
         /\ status[a] = "unused"
         /\ \A b \in Appends : b < a => status[b] # "unused"
         /\ status' = [status EXCEPT ![a] = "inflight"]
         /\ res' = [res EXCEPT ![a] = [key |-> ks, value |-> vs]]
         /\ host' = [pc |-> "submitting", id |-> a, layer |-> layer,
                     start |-> lengths[layer], n |-> n,
                     next |-> IF n = 0 THEN CopyCount + 1 ELSE 1]
    /\ UNCHANGED <<lengths, stream, planes, srcmem, held, cacheHeld, writes,
                   issued, want>>

\* append_layer_async up to the first submission: length, capacity and shape
\* checks, then the ownership record.  A call that fails a check changes nothing.
BeginAppend(layer, ks, vs, n) ==
    /\ host.pc = "idle" /\ cacheHeld
    /\ {ks, vs} \subseteq held
    /\ lengths[layer] + n <= Capacity
    /\ SrcTokens[ks] = n /\ SrcTokens[vs] = n
    /\ \E a \in Appends :
         /\ status[a] = "unused"
         /\ \A b \in Appends : b < a => status[b] # "unused"
         /\ status' = [status EXCEPT ![a] = "inflight"]
         /\ res' = [res EXCEPT ![a] = [key |-> ks, value |-> vs]]
         /\ host' = [pc |-> "submitting", id |-> a, layer |-> layer,
                     start |-> lengths[layer], n |-> n,
                     next |-> IF n = 0 THEN CopyCount + 1 ELSE 1]
    /\ UNCHANGED <<lengths, stream, planes, srcmem, held, cacheHeld, writes,
                   issued, want>>

\* Context::set_current or driver::api fails before the first submission: the
\* record is dropped, nothing refers to it.
EnterFail ==
    /\ host.pc = "submitting" /\ host.next = 1
    /\ status' = [status EXCEPT ![host.id] = "released"]
    /\ host' = NoAppend
    /\ UNCHANGED <<lengths, stream, planes, srcmem, res, held, cacheHeld, writes,
                   issued, want>>

\* One cuMemcpyAsync of the plan is accepted by the driver.
SubmitCopy ==
    /\ host.pc = "submitting" /\ host.next <= CopyCount
    /\ LET h == CopyHead(host.next)
           p == CopyPlane(host.next)
       IN stream' = Append(stream,
            [kind |-> "copy", id |-> host.id, plane |-> p, src |-> res[host.id][p],
             head |-> h, n |-> host.n, dst |-> CellOf(host.layer, h, host.start)])
    /\ host' = [host EXCEPT !.next = @ + 1]
    /\ UNCHANGED <<lengths, planes, srcmem, status, res, held, cacheHeld, writes,
                   issued, want>>

\* cuMemcpyAsync, Event::new or Event::record fails: append_error, respectively
\* drain_or_leak, synchronizes the stream before the error is returned.
SubmitFail ==
    /\ host.pc = "submitting"
    /\ host' = [host EXCEPT !.pc = "draining"]
    /\ UNCHANGED <<lengths, stream, planes, srcmem, status, res, held, cacheHeld,
                   writes, issued, want>>

\* Mutant: the error path returns without the synchronize, the record drops.
DrainSkipped ==
    /\ host.pc = "draining"
    /\ status' = [status EXCEPT ![host.id] = "released"]
    /\ host' = NoAppend
    /\ UNCHANGED <<lengths, stream, planes, srcmem, res, held, cacheHeld, writes,
                   issued, want>>

\* Stream::synchronize succeeds: everything submitted has executed.
DrainOk ==
    /\ host.pc = "draining"
    /\ stream = <<>>
    /\ status' = [status EXCEPT ![host.id] = "released"]
    /\ host' = NoAppend
    /\ UNCHANGED <<lengths, stream, planes, srcmem, res, held, cacheHeld, writes,
                   issued, want>>

\* Stream::synchronize reports an error: mem::forget(resources).
DrainFail ==
    /\ host.pc = "draining"
    /\ status' = [status EXCEPT ![host.id] = "leaked"]
    /\ host' = NoAppend
    /\ UNCHANGED <<lengths, stream, planes, srcmem, res, held, cacheHeld, writes,
                   issued, want>>

\* The rows a finished call has appended, as the ghost records them.
NewRows == [j \in 1..host.n |-> [key   |-> <<issued[res[host.id].key], j>>,
                                 value |-> <<issued[res[host.id].value], j>>]]

\* All copies are in: from_enqueued records the event behind them, then the
\* layer's length is advanced and the handle returned.
Commit ==
    /\ host.pc = "submitting" /\ host.next = CopyCount + 1
    /\ stream' = Append(stream, [kind |-> "event", id |-> host.id])
    /\ status' = [status EXCEPT ![host.id] = "pending"]
    /\ lengths' = [lengths EXCEPT ![host.layer] = host.start + host.n]
    /\ want' = [want EXCEPT ![host.layer] = SubSeq(@, 1, host.start) \o NewRows]
    /\ host' = NoAppend
    /\ UNCHANGED <<planes, srcmem, res, held, cacheHeld, writes, issued>>

\* Mutant: the handle lets go without waiting for its event.
RetireEarly(a) ==
    /\ status[a] = "pending"
    /\ status' = [status EXCEPT ![a] = "released"]
    /\ UNCHANGED <<lengths, stream, planes, srcmem, res, host, held, cacheHeld,
                   writes, issued, want>>

\* KvAppend::wait, or the drop of the handle: the event has completed.
Retire(a) ==
    /\ status[a] = "pending"
    /\ EventPassed(a)
    /\ status' = [status EXCEPT ![a] = "released"]
    /\ UNCHANGED <<lengths, stream, planes, srcmem, res, host, held, cacheHeld,
                   writes, issued, want>>

\* Event::synchronize keeps failing when the handle is dropped: leak.
Leak(a) ==
    /\ status[a] = "pending"
    /\ status' = [status EXCEPT ![a] = "leaked"]
    /\ UNCHANGED <<lengths, stream, planes, srcmem, res, host, held, cacheHeld,
                   writes, issued, want>>

\* truncate: refused unless every layer holds that many positions.
Truncate(length) ==
    /\ host.pc = "idle" /\ cacheHeld
    /\ \A l \in Layers : lengths[l] >= length
    /\ lengths' = [l \in Layers |-> length]
    /\ want' = [l \in Layers |-> SubSeq(want[l], 1, length)]
    /\ UNCHANGED <<stream, planes, srcmem, status, res, host, held, cacheHeld,
                   writes, issued>>

\* reset_layer; reset is Truncate(0).
ResetLayer(l) ==
    /\ host.pc = "idle" /\ cacheHeld
    /\ lengths' = [lengths EXCEPT ![l] = 0]
    /\ want' = [want EXCEPT ![l] = <<>>]
    /\ UNCHANGED <<stream, planes, srcmem, status, res, host, held, cacheHeld,
                   writes, issued>>

\* The cells a queued copy writes.
Target(op) == op.dst..(op.dst + op.n - 1)

\* The device executes the operation at the head of the stream.
DeviceStep ==
    /\ stream # <<>>
    /\ stream' = Tail(stream)
    /\ LET op == Head(stream) IN
       \/ /\ op.kind = "copy"
          /\ planes' = [planes EXCEPT ![op.plane] =
                [c \in Cells |-> IF c \in Target(op)
                                 THEN <<srcmem[op.src], op.head, c - op.dst + 1>>
                                 ELSE @[c]]]
          /\ UNCHANGED srcmem
       \/ /\ op.kind = "write"
          /\ srcmem' = [srcmem EXCEPT ![op.src] = op.pay]
          /\ UNCHANGED planes
       \/ /\ op.kind = "event"
          /\ UNCHANGED <<planes, srcmem>>
    /\ UNCHANGED <<lengths, status, res, host, held, cacheHeld, writes, issued, want>>

-----------------------------------------------------------------------------
Host ==
    \/ \E b \in Sources, p \in Payloads : WriteSource(b, p)
    \/ \E b \in Sources : DropSource(b)
    \/ DropCache
    \/ \E l \in Layers, ks, vs \in Sources : BeginAppend(l, ks, vs, SrcTokens[ks])
    \/ EnterFail \/ SubmitCopy \/ SubmitFail \/ DrainOk \/ DrainFail \/ Commit
    \/ \E a \in Appends : Retire(a) \/ Leak(a)
    \/ \E n \in 0..Capacity : Truncate(n)
    \/ \E l \in Layers : ResetLayer(l)

Next == Host \/ DeviceStep

Spec == Init /\ [][Next]_vars

-----------------------------------------------------------------------------
\* async_work.rs:12-18 and kv_cache.rs:207-211: whatever fails and whoever lets
\* go first, no operation still in the stream refers to freed memory.
NoUseAfterFree ==
    \A i \in DOMAIN stream :
        /\ stream[i].kind \in {"copy", "write"} => SourceLive(stream[i].src)
        /\ stream[i].kind = "copy" => CacheLive

\* kv_cache.rs:95-96: lengths are the authority for what may be consumed.  A
\* position below its layer's length holds, in every head and both planes, the
\* row the caller appended there, unless a copy for it is still in the stream;
\* failed appends, truncation and appends to other layers do not disturb it.
CommittedRows ==
    \A l \in Layers, h \in Heads, p \in Planes :
        \A pos \in 1..lengths[l] :
            LET c == CellOf(l, h, pos - 1)
                w == want[l][pos][p]
            IN \/ planes[p][c] = <<w[1], h, w[2]>>
               \/ \E i \in DOMAIN stream :
                    /\ stream[i].kind = "copy" /\ stream[i].plane = p
                    /\ c \in Target(stream[i])

\* async_work.rs:65-72: a handle whose wait returned has nothing of its append
\* left in the stream, so the caller may reuse or free the sources.
ReleasedIsDone ==
    \A a \in Appends : status[a] = "released" =>
        \A i \in DOMAIN stream :
            ~(stream[i].kind \in {"copy", "event"} /\ stream[i].id = a)

-----------------------------------------------------------------------------
\* The inductive strengthening of NoUseAfterFree and ReleasedIsDone.

\* op belongs to append a.
OpOf(op, a) == op.kind \in {"copy", "event"} /\ op.id = a

\* An append the host has not begun has nothing in the stream.
UnusedIsAbsent ==
    \A a \in Appends : status[a] = "unused" =>
        \A i \in DOMAIN stream : ~OpOf(stream[i], a)

\* A copy reads a source its append retains.
CopySources ==
    \A i \in DOMAIN stream : stream[i].kind = "copy" =>
        stream[i].src \in {res[stream[i].id].key, res[stream[i].id].value}

\* The caller keeps the sources its own kernels write.
WritesHeld ==
    \A i \in DOMAIN stream : stream[i].kind = "write" => stream[i].src \in held

\* The event of an append stands behind all its copies, and there is one only.
EventIsLast ==
    \A i, j \in DOMAIN stream :
        i < j /\ stream[i].kind = "event" => ~OpOf(stream[j], stream[i].id)

\* While copies of a returned handle are queued, so is its event.
PendingHasEvent ==
    \A a \in Appends : status[a] = "pending" /\ EventPassed(a) =>
        \A i \in DOMAIN stream : ~OpOf(stream[i], a)

\* The call the host is in owns the one record in flight: it has no event yet,
\* and no copy before the first submission.
HostOwns ==
    /\ \A a \in Appends : status[a] = "inflight" =>
            host.pc # "idle" /\ host.id = a /\ EventPassed(a)
    /\ host.pc # "idle" => status[host.id] = "inflight"
    /\ host.pc = "submitting" /\ host.next = 1 =>
            \A i \in DOMAIN stream : ~OpOf(stream[i], host.id)

IInv ==
    /\ TypeOK /\ ReleasedIsDone /\ UnusedIsAbsent /\ CopySources /\ WritesHeld
    /\ EventIsLast /\ PendingHasEvent /\ HostOwns

-----------------------------------------------------------------------------
\* The inductive strengthening of CommittedRows: what the cache will hold once
\* the stream has drained, whatever is queued by now.

\* Operation i of the stream, or its end, finds payload x in source b.
FindsPayload(i, b, x) ==
    LET WritesB(j) == stream[j].kind = "write" /\ stream[j].src = b
    IN \/ /\ srcmem[b] = x
          /\ \A j \in 1..(i - 1) : ~WritesB(j)
       \/ \E j \in 1..(i - 1) :
            /\ WritesB(j) /\ stream[j].pay = x
            /\ \A k \in (j + 1)..(i - 1) : ~WritesB(k)

\* op copies into cell c of plane p.
CopiesInto(op, p, c) == op.kind = "copy" /\ op.plane = p /\ c \in Target(op)

\* Cell c of plane p ends up with row j of head h of a source that held x.
EndsUpAs(p, c, x, h, j) ==
    \/ /\ planes[p][c] = <<x, h, j>>
       /\ \A i \in DOMAIN stream : ~CopiesInto(stream[i], p, c)
    \/ \E i \in DOMAIN stream :
         /\ CopiesInto(stream[i], p, c)
         /\ \A k \in DOMAIN stream : k > i => ~CopiesInto(stream[k], p, c)
         /\ stream[i].head = h /\ c - stream[i].dst + 1 = j
         /\ FindsPayload(i, stream[i].src, x)

Contents == Payloads \cup {Junk}

DataOK ==
    /\ planes \in [Planes -> [Cells -> Contents \X Heads \X Nat]]
    /\ srcmem \in [Sources -> Contents]
    /\ issued \in [Sources -> Contents]
    /\ want \in [Layers -> Seq([key : Contents \X Nat, value : Contents \X Nat])]
    /\ \A l \in Layers : Len(want[l]) = lengths[l]
    /\ host.pc = "submitting" => host.start = lengths[host.layer]

\* The end of the stream finds in every source what the caller issued last.
IssuedIsFound == \A b \in Sources : FindsPayload(Len(stream) + 1, b, issued[b])

\* Every committed position ends up as the row the caller appended there.
RowsEndUp ==
    \A l \in Layers, h \in Heads, p \in Planes :
        \A pos \in 1..lengths[l] :
            EndsUpAs(p, CellOf(l, h, pos - 1), want[l][pos][p][1], h, want[l][pos][p][2])

\* So does what the call in progress has submitted so far.
SubmittedEndsUp ==
    host.pc = "submitting" =>
        \A k \in 1..(host.next - 1), j \in 1..host.n :
            EndsUpAs(CopyPlane(k), CellOf(host.layer, CopyHead(k), host.start + j - 1),
                     issued[res[host.id][CopyPlane(k)]], CopyHead(k), j)

Data == DataOK /\ IssuedIsFound /\ RowsEndUp /\ SubmittedEndsUp
=============================================================================
