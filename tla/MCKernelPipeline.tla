--------------------------- MODULE MCKernelPipeline ---------------------------
(***************************************************************************)
(* The three layers a kernel passes through: the compile cache shared by   *)
(* the threads of the process, the host call that validates and enqueues   *)
(* launches, and the lanes of the block that executes one launch.  The     *)
(* layers meet in values only (a compiled object, a launch record), so a   *)
(* behaviour works in one of them while the other two stand still.  Their   *)
(* instance for TLC, with the .cfg files.                                  *)
(***************************************************************************)
EXTENDS JitCache, KernelHost, DeviceKernels

MCHeadShapes == {<<2, 1>>, <<4, 2>>}
MCDecoder == [heads |-> 2, kv |-> 1, dim |-> 2, inter |-> 3, vocab |-> 3, cap |-> 3, layers |-> 2]
MCGemmShapes == {<<2, 3, 3>>, <<1, 2, 2>>}

Symm == Permutations(Threads)

VARIABLE layer    \* the layer this behaviour works in

pipeVars == <<layer, vars, hostVars, kernelVars>>

PipeInit ==
  /\ Init
  /\ \/ layer = "jit" /\ HostIdle /\ KernelIdle
     \/ layer = "host" /\ HostInit /\ KernelIdle
     \/ layer = "device" /\ HostIdle /\ KernelInit

PipeNext ==
  \/ layer = "jit" /\ Next /\ UNCHANGED <<layer, hostVars, kernelVars>>
  \/ layer = "host" /\ HostNext /\ UNCHANGED <<layer, vars, kernelVars>>
  \/ layer = "device" /\ KernelNext /\ UNCHANGED <<layer, vars, hostVars>>

PipeSpec == PipeInit /\ [][PipeNext]_pipeVars
===============================================================================
