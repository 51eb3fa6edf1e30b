---- MODULE DeviceKernels ----
(***************************************************************************)
(* The block-cooperative kernels of the project, one launch at a time: the *)
(* row kernels, the fused and the decode attention kernels and the tiled   *)
(* matrix products.  The lanes of the block interleave freely between      *)
(* barriers.                                                               *)
(***************************************************************************)
EXTENDS RowKernels, FusedAttention, DecodeAttention, TiledGemm

kernelVars == <<launchVars, at, log, rowVars, attnVars, decodeVars, gemmVars>>

KernelInit ==
  \/ RowInit /\ AttnIdle /\ DecodeIdle /\ GemmIdle
  \/ RowIdle /\ AttnInit /\ DecodeIdle /\ GemmIdle
  \/ RowIdle /\ AttnIdle /\ DecodeInit /\ GemmIdle
  \/ RowIdle /\ AttnIdle /\ DecodeIdle /\ GemmInit

\* No kernel is running.
KernelIdle == BlockInit("none", 0, <<>>) /\ RowIdle /\ AttnIdle /\ DecodeIdle /\ GemmIdle

Barrier == Synchronize /\ UNCHANGED <<launchVars, rowVars, attnVars, decodeVars, gemmVars>>

\* The kernel has ended.
Done == Finished /\ UNCHANGED kernelVars

KernelNext ==
  \/ RowNext /\ UNCHANGED <<attnVars, decodeVars, gemmVars>>
  \/ AttnNext /\ UNCHANGED <<rowVars, decodeVars, gemmVars>>
  \/ DecodeNext /\ UNCHANGED <<rowVars, attnVars, gemmVars>>
  \/ GemmNext /\ UNCHANGED <<rowVars, attnVars, decodeVars>>
  \/ Barrier
  \/ Done

\* Two lanes never touch one shared cell, one of them writing, without a barrier
\* between them: the value would depend on the schedule.  The one cell left out,
\* scratch[0] of the fused attention kernels, is the subject of OutputIsAttention.
OrderedAccess ==
  Contended \subseteq IF kernel \in FusedKernels THEN {<<"scratch", 0>>} ELSE {}

\* Every kernel but the fused attention ones ends with its formula's value; those
\* accumulate nothing but the keys their formula attends to.
FormulaComplete == RowComplete /\ DecodeComplete /\ GemmComplete /\ OnlyAttended

====
