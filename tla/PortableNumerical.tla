--------------------------- MODULE PortableNumerical ---------------------------
(***************************************************************************)
(* The F32 kernels of the portable backends: the ordered CPU loops          *)
(* (nnis-cpu numerical.rs) and the WGSL kernels with their host call        *)
(* (nnis-wgpu numerical.rs).  Both promise that an operation over finite    *)
(* values either replaces its output whole or leaves it as it was.          *)
(*                                                                          *)
(* A value is an integer; outside -Largest..Largest it is NonFinite, which  *)
(* absorbs what it is combined with.  A buffer is the sequence of its       *)
(* values and may hold NonFinite.  The integers stand for zero and the      *)
(* normal range, where + and * round alike on both backends; subnormals,    *)
(* which a device may flush in arithmetic, are outside the contract of the  *)
(* WGSL kernels and have no counterpart here.  A projection is different:   *)
(* the CPU fuses each step, a device fuses it or rounds twice.              *)
(***************************************************************************)
EXTENDS Integers, Sequences, FiniteSets, SequencesExt

CONSTANTS
  Largest,       \* greatest finite value
  Slip,          \* how far rounding a product before the sum may move a step of a projection
  Values,        \* finite values of the operands
  MaxLength,     \* bound: values of a buffer
  MaxOperand,    \* bound: values and indices of a projection, gather or scatter
  MaxScratch,    \* CpuF32KernelsV1.max_scratch_bytes, in values
  MaxGroups      \* max_compute_workgroups_per_dimension
WorkGroup == 2   \* WORKGROUP, scaled from 64

ASSUME NumericalAssumption ==
  Largest \in Nat /\ Slip \in Nat /\ Values \subseteq -Largest..Largest /\ MaxLength \in Nat \ {0} /\ MaxOperand \in Nat

VARIABLES
  work,       \* the operation in progress: op, inputs, indices
  before,     \* what the output held when it was called
  output,     \* output buffer of the CPU
  deviceOut,  \* output buffer of the WGPU backend
  scratchOut, \* the WGPU scratch
  status,     \* the status word
  phase,      \* where the WGPU call stands
  verdicts    \* how the operation ended on both

numericalVars == <<work, before, output, deviceOut, scratchOut, status, phase, verdicts>>

NonFinite == Largest + 1
Finite(v) == v # NonFinite
Round(v) == IF v > Largest \/ v < -Largest THEN NonFinite ELSE v
Plus(a, b) == IF Finite(a) /\ Finite(b) THEN Round(a + b) ELSE NonFinite
Times(a, b) == IF Finite(a) /\ Finite(b) THEN Round(a * b) ELSE NonFinite
Fma(a, b, c) == IF Finite(a) /\ Finite(b) /\ Finite(c) THEN Round(a * b + c) ELSE NonFinite
\* WGSL fma has the accuracy of a * b + c: one rounding, or the product rounded
\* by itself, to a neighbour or beyond the finite values.
Slips(product) == IF product = 0 THEN {0} ELSE -Slip..Slip
DeviceFmas(a, b, c) ==
  {Fma(a, b, c)} \cup {Plus(Plus(Times(a, b), slip), c) : slip \in Slips(Times(a, b))}
AllFinite(s) == \A i \in DOMAIN s : Finite(s[i])

\* --- Shapes --------------------------------------------------------------
\* w: op, left, right, idx (from 0), n (columns of a projection).
Outputs(w) ==
  CASE w.op \in {"add", "multiply", "relu"} -> Len(w.left)
    [] w.op = "sum" -> 1
    [] w.op = "project" -> w.n
    [] w.op = "gather" -> Len(w.idx)
Shaped(w, length) ==
  /\ w.op \in {"add", "multiply"} => Len(w.left) = Len(w.right)
  /\ w.op = "project" => w.n # 0 /\ Len(w.left) # 0 /\ Len(w.right) = Len(w.left) * w.n
  /\ w.op \in {"gather", "scatter"} =>
       w.idx # <<>> /\ \A i \in DOMAIN w.idx : w.idx[i] < IF w.op = "gather" THEN Len(w.left) ELSE length
  /\ w.op = "scatter" => Len(w.left) = Len(w.idx)
  /\ w.op # "scatter" => length = Outputs(w)
CpuAccepts(w, length) == Shaped(w, length) /\ length <= MaxScratch
Lanes(w, length) == IF w.op \in {"sum", "scatter"} THEN 1 ELSE length
Groups(lanes) == (lanes + WorkGroup - 1) \div WorkGroup
WgpuAccepts(w, length) ==
  Shaped(w, length) /\ Groups(Lanes(w, length)) <= MaxGroups /\ Groups(Len(w.left)) <= MaxGroups

\* --- What one output element is ------------------------------------------
Binary(w, i) == IF w.op = "add" THEN Plus(w.left[i], w.right[i]) ELSE Times(w.left[i], w.right[i])
Relu(w, i) == IF w.left[i] > 0 THEN w.left[i] ELSE 0
SumInOrder(w) == FoldLeft(Plus, 0, w.left)
\* Column i of a projection, down the rows: the CPU's sums, and any a device may have.
\* Both stop at a sum that is not finite; here it absorbs the rest.
Weight(w, row, i) == w.right[(row - 1) * w.n + i]
ColumnSums(w, i) ==
  LET sums[row \in 0..Len(w.left)] ==
        IF row = 0 THEN 0 ELSE Fma(w.left[row], Weight(w, row, i), sums[row - 1])
  IN sums
Projected(w, i) == ColumnSums(w, i)[Len(w.left)]
DeviceColumns(w, i) ==
  {sums \in [0..Len(w.left) -> -Largest..NonFinite] :
     sums[0] = 0 /\ \A row \in 1..Len(w.left) :
       sums[row] \in DeviceFmas(w.left[row], Weight(w, row, i), sums[row - 1])}
Gathered(w, i) == w.left[w.idx[i] + 1]
Element(w, i) ==
  CASE w.op \in {"add", "multiply"} -> Binary(w, i)
    [] w.op = "relu" -> Relu(w, i)
    [] w.op = "sum" -> SumInOrder(w)
    [] w.op = "project" -> Projected(w, i)
    [] w.op = "gather" -> Gathered(w, i)

\* Duplicate destinations add up in order; the first sum that overflows stops it.
ScatterAdd(w, acc, i) ==
  LET place == w.idx[i] + 1
      total == Plus(acc.out[place], w.left[i])
  IN IF acc.bad THEN acc
     ELSE IF Finite(total) THEN [out |-> [acc.out EXCEPT ![place] = total], bad |-> FALSE]
     ELSE [out |-> acc.out, bad |-> TRUE]
ScatterLoop(w, old) ==
  LET added[i \in 0..Len(w.idx)] ==
        IF i = 0 THEN [out |-> old, bad |-> FALSE] ELSE ScatterAdd(w, added[i - 1], i)
  IN added
Scattered(w, old) == ScatterLoop(w, old)[Len(w.idx)]

\* --- CPU -----------------------------------------------------------------
CpuInputsFinite(w, old) ==
  AllFinite(w.left) /\ AllFinite(w.right) /\ (w.op = "scatter" => AllFinite(old))
CpuScratch(w, old) ==
  IF w.op = "scatter" THEN Scattered(w, old)
  ELSE LET out == [i \in 1..Len(old) |-> Element(w, i)] IN [out |-> out, bad |-> ~AllFinite(out)]
\* Scratch is committed only when every value that was computed is finite.
CpuRuns(w, old) ==
  IF CpuInputsFinite(w, old) /\ ~CpuScratch(w, old).bad
  THEN [ret |-> "ok", out |-> CpuScratch(w, old).out] ELSE [ret |-> "err", out |-> old]

\* --- WGPU ----------------------------------------------------------------
NoWork == [op |-> "none", left |-> <<>>, right |-> <<>>, idx |-> <<>>, n |-> 0]
NumericalIdle ==
  /\ work = NoWork /\ before = <<>> /\ output = <<>> /\ deviceOut = <<>> /\ scratchOut = <<>> /\ status = 0
  /\ phase = "idle" /\ verdicts = [cpu |-> "none", wgpu |-> "none"]

Operands(length) == UNION {[1..n -> Values \cup {NonFinite}] : n \in 1..length}
Indices == UNION {[1..n -> 0..MaxLength - 1] : n \in 0..MaxOperand}
Works ==
  [op : {"relu", "sum"}, left : Operands(MaxLength), right : {<<>>}, idx : {<<>>}, n : {0}]
    \cup [op : {"add", "multiply"}, left : Operands(MaxLength), right : Operands(MaxLength), idx : {<<>>}, n : {0}]
    \cup [op : {"project"}, left : Operands(MaxOperand), right : Operands(MaxOperand), idx : {<<>>},
          n : 0..MaxOperand]
    \cup [op : {"gather", "scatter"}, left : Operands(MaxOperand), right : {<<>>}, idx : Indices, n : {0}]

NumericalInit ==
  /\ work \in Works
  /\ \E n \in 1..MaxLength : output \in
       (IF work.op = "scatter" THEN [1..n -> Values \cup {NonFinite}] ELSE {[i \in 1..n |-> Largest]})
  /\ CpuAccepts(work, Len(output)) /\ WgpuAccepts(work, Len(output))
  /\ before = output /\ deviceOut = output /\ scratchOut = <<>> /\ status = 0
  /\ phase = "allocate" /\ verdicts = [cpu |-> CpuRuns(work, output).ret, wgpu |-> "none"]

\* Scratch and status are allocated; a scatter seeds the scratch from its output.
Allocate ==
  /\ phase = "allocate"
  /\ scratchOut' = IF work.op = "scatter" THEN deviceOut ELSE [i \in DOMAIN deviceOut |-> 0]
  /\ phase' = "validate"
  /\ UNCHANGED <<work, before, output, deviceOut, status, verdicts>>

\* One validator for every input, and for an output that is read.
Validated == AllFinite(work.left) /\ AllFinite(work.right) /\ (work.op = "scatter" => AllFinite(deviceOut))
Validate ==
  /\ phase = "validate"
  /\ status' = IF Validated THEN status ELSE 1
  /\ phase' = "dispatch"
  /\ UNCHANGED <<work, before, output, deviceOut, scratchOut, verdicts>>

\* Relu and gather have no status binding: what they write is one of their inputs.
KernelFlags(w, out) == w.op \notin {"relu", "gather", "scatter"} /\ ~AllFinite(out)
\* What the kernel may compute: a projection as the device rounds, the others as the CPU.
DeviceOutputs(w, length) ==
  IF w.op = "project"
  THEN {out \in [1..length -> -Largest..NonFinite] :
          \A i \in 1..length : \E sums \in DeviceColumns(w, i) : out[i] = sums[Len(w.left)]}
  ELSE {[i \in 1..length |-> Element(w, i)]}
DeviceRuns(w, old) ==
  IF w.op = "scatter" THEN {Scattered(w, old)}
  ELSE {[out |-> out, bad |-> KernelFlags(w, out)] : out \in DeviceOutputs(w, Len(old))}
Dispatch ==
  /\ phase = "dispatch"
  /\ \E run \in DeviceRuns(work, scratchOut) :
       scratchOut' = run.out /\ status' = IF run.bad THEN 1 ELSE status
  /\ phase' = "flag"
  /\ UNCHANGED <<work, before, output, deviceOut, verdicts>>

NumericalReturns(ret) ==
  /\ phase' = "done" /\ verdicts' = [verdicts EXCEPT !.wgpu = ret]
  /\ output' = CpuRuns(work, output).out
  /\ UNCHANGED <<work, before, scratchOut, status>>

\* Mutant: the scratch is committed before the status word is read.
CommitUnread ==
  /\ phase = "flag" /\ deviceOut' = scratchOut
  /\ NumericalReturns(IF status = 0 THEN "ok" ELSE "err")
\* The status word is read back, and only then is the scratch copied over.
FlagAndCommit ==
  /\ phase = "flag"
  /\ deviceOut' = IF status = 0 THEN scratchOut ELSE deviceOut
  /\ NumericalReturns(IF status = 0 THEN "ok" ELSE "err")

\* An allocation, a submission or a readback fails.
NumericalDeviceFails ==
  /\ phase \in {"allocate", "validate", "dispatch", "flag"}
  /\ UNCHANGED deviceOut /\ NumericalReturns("device")

NumericalNext == Allocate \/ Validate \/ Dispatch \/ FlagAndCommit \/ NumericalDeviceFails
NumericalSpec == NumericalInit /\ [][NumericalNext]_numericalVars

-----------------------------------------------------------------------------
\* Products so small that no sum of a column comes near the limits.
Ample(w) ==
  \E most \in 0..Largest :
    /\ Len(w.left) * most <= Largest
    /\ \A i \in 1..w.n, row \in 1..Len(w.left) :
         w.left[row] * Weight(w, row, i) \in -(most - Slip)..most - Slip
Within(bound) == \A i \in DOMAIN output : deviceOut[i] - output[i] \in -bound..bound
\* Both refuse an operand that is not finite and accept an ample projection; near
\* the limits either may accept alone, and what both accept is within the bound.
ProjectionsAgree ==
  /\ ~CpuInputsFinite(work, before) => verdicts.cpu = "err" /\ verdicts.wgpu \in {"err", "device"}
  /\ CpuInputsFinite(work, before) /\ Ample(work) => verdicts.cpu = "ok" /\ verdicts.wgpu \in {"ok", "device"}
  /\ verdicts.cpu = "ok" /\ verdicts.wgpu = "ok" => Within(Len(work.left) * Slip)

\* numerical.rs (wgpu) 10-30 and 487-602, (cpu) 198-221: what either backend accepts
\* is finite, what it refuses leaves the output as it was.  Every operation but a
\* projection is accepted by both or by neither and then has the same result, for
\* values in the normal range; a projection is within the declared bound.
KernelsAgree ==
  phase = "done" =>
    /\ \A call \in {<<verdicts.cpu, output>>, <<verdicts.wgpu, deviceOut>>} :
         IF call[1] = "ok" THEN AllFinite(call[2]) ELSE call[2] = before
    /\ work.op # "project" /\ verdicts.wgpu # "device" =>
         verdicts.wgpu = verdicts.cpu /\ deviceOut = output
    /\ work.op = "project" => ProjectionsAgree
================================================================================
