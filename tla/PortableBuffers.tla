---------------------------- MODULE PortableBuffers ----------------------------
(***************************************************************************)
(* Buffers of the portable contract on the two backends: bytes in host     *)
(* memory (nnis-cpu lib.rs) and a padded device buffer whose transfers     *)
(* move whole ALIGN units (nnis-wgpu memory.rs).  Every call is made on    *)
(* both.  A WGPU call is a program of device steps; a step may raise a     *)
(* device error, which the innermost open error scope of its kind keeps    *)
(* until the scope is popped.                                              *)
(*                                                                         *)
(* The device finishes its work in submission order, so a step takes       *)
(* effect when it is submitted; the fence says when the host has heard.    *)
(***************************************************************************)
EXTENDS Naturals, Sequences, SequencesExt

CONSTANTS
  Align,          \* COPY_BUFFER_ALIGNMENT
  MaxBufferBytes, \* capability max_buffer_bytes and limit max_buffer_size
  BufferSizes,    \* sizes asked for
  Bytes,          \* byte values written; a new buffer holds 0
  MaxTransfers,   \* bound: calls on existing buffers
  MaxLeaks        \* bound: scopes left open before calls stop

ASSUME BufferAssumption ==
  Align \in Nat \ {0} /\ MaxBufferBytes \in Nat /\ MaxLeaks \in Nat /\ BufferSizes \subseteq Nat

VARIABLES
  host,      \* CpuBuffer.bytes of every buffer; <<>> before it is created
  device,    \* the padded WGPU bytes
  usages,    \* usages of every buffer
  scopes,    \* error scopes of the device, innermost last
  unit,      \* the WGPU call in progress
  answer,    \* how the last call returned on both
  fence,     \* the fence of the last WGPU write
  transfers  \* calls so far

bufferVars == <<host, device, usages, scopes, unit, answer, fence, transfers>>

Buffers == {"a", "b"}
Resting == [op |-> "none", to |-> "a", at |-> 0, todo |-> <<>>, payload |-> <<>>, span |-> <<>>,
            raised |-> FALSE, open |-> 0]
BufferInit ==
  /\ host = [b \in Buffers |-> <<>>] /\ device = host /\ usages = [b \in Buffers |-> {}]
  /\ scopes = <<>> /\ unit = Resting /\ fence = "none" /\ transfers = 0
  /\ answer = [ret |-> "ok", raised |-> FALSE, cpu |-> <<>>, wgpu |-> <<>>, leaked |-> 0]

\* --- Descriptors ---------------------------------------------------------
DescValid(d) == d.size # 0 /\ d.usages # {}
CpuCreates(d) == DescValid(d) /\ d.size <= MaxBufferBytes /\ d.memory # "local"
Up(n) == ((n + Align - 1) \div Align) * Align
Down(n) == n - (n % Align)
WgpuCreates(d) ==
  DescValid(d) /\ d.size <= MaxBufferBytes /\ d.memory # "host" /\ Up(d.size) <= MaxBufferBytes

\* create_buffer on both: a buffer that one of them refuses is not used here.
CreateBuffer(b, d) ==
  /\ unit.op = "none" /\ host[b] = <<>>
  /\ CpuCreates(d) /\ WgpuCreates(d)
  /\ host' = [host EXCEPT ![b] = [i \in 1..d.size |-> 0]]
  /\ device' = [device EXCEPT ![b] = [i \in 1..Up(d.size) |-> 0]]
  /\ usages' = [usages EXCEPT ![b] = d.usages]
  /\ UNCHANGED <<scopes, unit, answer, fence, transfers>>

\* --- Programs of device steps --------------------------------------------
Push(kind) == [op |-> "push", kind |-> kind]
Pop(n) == [op |-> "pop", n |-> n]
\* Mutant: only the validation scope is asked.
PopOuterForgotten == Pop(1)
PopScopes == Pop(2)

\* read_wgpu: the aligned span is copied to a staging buffer and mapped.
ReadSteps(b, at, n) ==
  IF n = 0 THEN <<>>
  ELSE <<Push("oom"), Push("validation"),
         [op |-> "stage", from |-> b, at |-> Down(at), n |-> Up(at + n) - Down(at)], PopScopes,
         [op |-> "map", at |-> at % Align, n |-> n]>>

\* Mutant: the bytes around an unaligned write are not read back.
WriteBlind(b, at, n) ==
  IF n = 0 THEN <<>>
  ELSE <<Push("validation"), [op |-> "overlay", at |-> at % Align],
         [op |-> "store", to |-> b, at |-> Down(at)], Pop(1)>>
\* write_raw: the payload is in hand; unaligned, the span around it is read and
\* stored back inside the write's own scope.
WriteSteps(b, at, n) ==
  IF n = 0 THEN <<>>
  ELSE IF at % Align = 0 /\ n % Align = 0
  THEN <<Push("validation"), [op |-> "load"], [op |-> "store", to |-> b, at |-> at], Pop(1)>>
  ELSE <<Push("validation")>> \o ReadSteps(b, Down(at), Up(at + n) - Down(at))
       \o <<[op |-> "overlay", at |-> at % Align], [op |-> "store", to |-> b, at |-> Down(at)], Pop(1)>>

CopySteps(b, from, c, at, n) ==
  IF n = 0 THEN <<>>
  ELSE IF from % Align = 0 /\ at % Align = 0 /\ n % Align = 0
  THEN <<Push("validation"), [op |-> "copy", from |-> b, start |-> from, to |-> c, at |-> at, n |-> n], Pop(1)>>
  ELSE ReadSteps(b, from, n) \o <<[op |-> "take"]>> \o WriteSteps(c, at, n)

\* --- Calls ---------------------------------------------------------------
InRange(b, at, n) == at + n <= Len(host[b])
Part(s, at, n) == SubSeq(s, at + 1, at + n)
Patch(s, at, part) ==
  [i \in 1..Len(s) |-> IF i > at /\ i <= at + Len(part) THEN part[i - at] ELSE s[i]]

Call(op, b, at, payload, steps) ==
  /\ unit.op = "none" /\ transfers < MaxTransfers /\ Len(scopes) <= MaxLeaks
  /\ unit' = [op |-> op, to |-> b, at |-> at, todo |-> steps, payload |-> payload, span |-> <<>>,
              raised |-> FALSE, open |-> Len(scopes)]
  /\ transfers' = transfers + 1
  /\ UNCHANGED <<host, device, usages, scopes, answer, fence>>

\* A missing usage and a range past the end are refused by both.
WriteBuffer(b, at, bytes) ==
  /\ "dst" \in usages[b] /\ InRange(b, at, Len(bytes))
  /\ Call("write", b, at, bytes, WriteSteps(b, at, Len(bytes)))
ReadBuffer(b, at, n) ==
  /\ "src" \in usages[b] /\ InRange(b, at, n)
  /\ Call("read", b, at, <<>>, ReadSteps(b, at, n))
CopyBuffer(b, from, c, at, n) ==
  /\ b # c /\ "src" \in usages[b] /\ "dst" \in usages[c]
  /\ InRange(b, from, n) /\ InRange(c, at, n)
  /\ Call("copy", c, at, Part(host[b], from, n), CopySteps(b, from, c, at, n))

\* --- Device steps --------------------------------------------------------
\* An error goes to the innermost open scope of its kind.
Raise(kind) ==
  LET at == CHOOSE i \in DOMAIN scopes :
              scopes[i].kind = kind /\ \A j \in i + 1..Len(scopes) : scopes[j].kind # kind
  IN scopes' = [scopes EXCEPT ![at].hit = TRUE]

\* The call returns to its caller; the CPU does the same, and never fails.
Finish(ret) ==
  /\ answer' = [ret |-> ret, raised |-> unit.raised, leaked |-> Len(scopes') - unit.open,
                cpu |-> IF ret = "ok" /\ unit.op = "read" THEN Part(host[unit.to], unit.at, Len(unit.span)) ELSE <<>>,
                wgpu |-> IF ret = "ok" /\ unit.op = "read" THEN unit.span ELSE <<>>]
  /\ host' = IF ret = "ok" /\ unit.op # "read"
             THEN [host EXCEPT ![unit.to] = Patch(@, unit.at, unit.payload)] ELSE host
  /\ fence' = IF ret = "ok" /\ unit.op # "read" THEN "pending" ELSE fence
  /\ unit' = Resting
  /\ UNCHANGED <<device, usages, transfers>>

Then(step) == unit' = [step EXCEPT !.todo = Tail(@)]

StepOk ==
  /\ unit.todo # <<>>
  /\ LET s == Head(unit.todo)
     IN \/ /\ s.op = "push"
           /\ scopes' = Append(scopes, [kind |-> s.kind, hit |-> FALSE])
           /\ Then(unit) /\ UNCHANGED device
        \/ /\ s.op = "pop" /\ \A i \in Len(scopes) - s.n + 1..Len(scopes) : ~scopes[i].hit
           /\ scopes' = SubSeq(scopes, 1, Len(scopes) - s.n)
           /\ Then(unit) /\ UNCHANGED device
        \/ /\ s.op = "stage"
           /\ Then([unit EXCEPT !.span = Part(device[s.from], s.at, s.n)])
           /\ UNCHANGED <<scopes, device>>
        \/ /\ s.op = "map"
           /\ Then([unit EXCEPT !.span = Part(@, s.at, s.n)])
           /\ UNCHANGED <<scopes, device>>
        \/ /\ s.op = "take" /\ Then([unit EXCEPT !.payload = unit.span]) /\ UNCHANGED <<scopes, device>>
        \/ /\ s.op = "load" /\ Then([unit EXCEPT !.span = unit.payload]) /\ UNCHANGED <<scopes, device>>
        \/ /\ s.op = "overlay"
           /\ Then([unit EXCEPT !.span =
                      Patch(IF unit.span = <<>> THEN [i \in 1..Up(s.at + Len(unit.payload)) |-> 0] ELSE unit.span,
                            s.at, unit.payload)])
           /\ UNCHANGED <<scopes, device>>
        \/ /\ s.op = "store"
           /\ device' = [device EXCEPT ![s.to] = Patch(@, s.at, unit.span)]
           /\ Then(unit) /\ UNCHANGED scopes
        \/ /\ s.op = "copy"
           /\ device' = [device EXCEPT ![s.to] = Patch(@, s.at, Part(device[s.from], s.start, s.n))]
           /\ Then(unit) /\ UNCHANGED scopes
  /\ UNCHANGED <<host, usages, answer, fence, transfers>>

\* An allocation or a submission is refused by the device: it has no effect.
StepRaises(kind) ==
  /\ unit.todo # <<>> /\ ~unit.raised
  /\ \/ Head(unit.todo).op = "stage"
     \/ Head(unit.todo).op \in {"store", "copy"} /\ kind = "validation"
  /\ Raise(kind)
  /\ Then([unit EXCEPT !.raised = TRUE])
  /\ UNCHANGED <<host, device, usages, answer, fence, transfers>>

\* A popped scope holds an error: the call fails.
PopFails ==
  /\ unit.todo # <<>> /\ Head(unit.todo).op = "pop"
  /\ \E i \in Len(scopes) - Head(unit.todo).n + 1..Len(scopes) : scopes[i].hit
  /\ scopes' = SubSeq(scopes, 1, Len(scopes) - Head(unit.todo).n)
  /\ Finish("err")

\* Mapping the staging buffer fails: reported by its callback, not by a scope.
MapFails ==
  /\ unit.todo # <<>> /\ Head(unit.todo).op = "map"
  /\ UNCHANGED scopes /\ Finish("err")

CallReturns ==
  /\ unit.op # "none" /\ unit.todo = <<>>
  /\ UNCHANGED scopes /\ Finish("ok")

\* WgpuFence: a poll may find the work done, a wait always does.
FenceDone ==
  /\ fence = "pending" /\ fence' = "complete"
  /\ UNCHANGED <<host, device, usages, scopes, unit, answer, transfers>>

Descriptors == [size : BufferSizes, usages : {{}, {"dst"}, {"src", "dst"}},
                memory : {"host", "shared", "local"}]
Payloads == UNION {[1..n -> Bytes] : n \in 0..3}
Offsets == 0..MaxBufferBytes

BufferNext ==
  \/ \E b \in Buffers, d \in Descriptors : CreateBuffer(b, d)
  \/ \E b \in Buffers, at \in Offsets, bytes \in Payloads : WriteBuffer(b, at, bytes)
  \/ \E b \in Buffers, at, n \in Offsets : ReadBuffer(b, at, n)
  \/ \E b, c \in Buffers, from, at, n \in Offsets : CopyBuffer(b, from, c, at, n)
  \/ StepOk \/ \E kind \in {"oom", "validation"} : StepRaises(kind)
  \/ PopFails \/ MapFails \/ CallReturns \/ FenceDone

BufferSpec == BufferInit /\ [][BufferNext]_bufferVars

-----------------------------------------------------------------------------
\* memory.rs:150-186, 300-328 against nnis-cpu lib.rs:147-207: between calls both
\* backends hold the same bytes (a failed call has changed none), reads returned
\* the same ones, and the padding of a device buffer was never written.
MemoryAgrees ==
  unit.op = "none" =>
    /\ answer.cpu = answer.wgpu
    /\ \A b \in Buffers :
         /\ SubSeq(device[b], 1, Len(host[b])) = host[b]
         /\ \A i \in Len(host[b]) + 1..Len(device[b]) : device[b][i] = 0

\* memory.rs:230-239, 265-297, 313-330, 441-450: a device error raised in a call
\* fails that very call, whichever scopes are open, and a call leaves no scope of
\* its own behind; the exception is a write or copy that fails with no error left
\* in a scope of the readback of its span.
ErrorsReported ==
  unit.op = "none" => (answer.raised => answer.ret = "err") /\ answer.leaked \in 0..1
                      /\ (answer.leaked = 1 => answer.ret = "err")
================================================================================
