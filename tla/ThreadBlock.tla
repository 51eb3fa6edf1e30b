---- MODULE ThreadBlock ----
(***************************************************************************)
(* One CUDA thread block: the lanes run the same kernel text, each at its  *)
(* own pace, and meet only at __syncthreads.  A kernel is a sequence of    *)
(* instructions; a lane executes one at a time.  What a kernel computes is *)
(* left to the modules that extend this one; here are the program counters,*)
(* the barrier, and the log of shared-memory accesses made since the last  *)
(* barrier, which is what makes two accesses unordered.                    *)
(***************************************************************************)
EXTENDS Naturals, Sequences, FiniteSets

VARIABLES
  lanes,    \* threadIdx.x ranges over 0 .. blockDim.x - 1
  kernel,   \* the name of the kernel that was launched
  program,  \* the instructions of that kernel
  at,       \* at[l]: index of the next instruction of lane l
  log       \* shared accesses since the last barrier: lane, cell, write?

launchVars == <<lanes, kernel, program>>

Ended == Len(program) + 1
Instr(l) == program[at[l]]
Running(l) == at[l] < Ended
AtSync(l) == Running(l) /\ Instr(l).op = "sync"

Accesses(l, reads, writes) ==
  {[lane |-> l, cell |-> c, write |-> FALSE] : c \in reads} \cup
  {[lane |-> l, cell |-> c, write |-> TRUE] : c \in writes}

\* Lane l executes the instruction it is at, touching these shared cells.
Execute(l, reads, writes) ==
  /\ at' = [at EXCEPT ![l] = @ + 1]
  /\ log' = log \cup Accesses(l, reads, writes)

\* A lane that left the kernel no longer takes part in barriers.
Leave(l) == at' = [at EXCEPT ![l] = Ended] /\ UNCHANGED log

\* __syncthreads: every lane still in the kernel has arrived.
Synchronize ==
  /\ \E l \in lanes : AtSync(l)
  /\ \A l \in lanes : Running(l) => AtSync(l)
  /\ at' = [l \in lanes |-> IF AtSync(l) THEN at[l] + 1 ELSE at[l]]
  /\ log' = {}

Finished == \A l \in lanes : ~Running(l)

BlockInit(name, size, text) ==
  /\ lanes = 0 .. size - 1
  /\ kernel = name
  /\ program = text
  /\ at = [l \in 0 .. size - 1 |-> 1]
  /\ log = {}

\* The cells two lanes touch, one of them writing, with no barrier between.
Contended ==
  {a.cell : a \in {x \in log : \E y \in log :
     x.lane # y.lane /\ x.cell = y.cell /\ (x.write \/ y.write)}}

====
