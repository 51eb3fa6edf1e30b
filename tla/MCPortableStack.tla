---------------------------- MODULE MCPortableStack ----------------------------
(***************************************************************************)
(* The portable engine: the session of nnis-core with the layers its       *)
(* backends stand on.  The layers meet in values only (a buffer's bytes,   *)
(* an operation's result, a plan, a bound artifact), so a behaviour works  *)
(* in one of them while the others stand still.  The instance that TLC     *)
(* checks is at the end: see MCPortableStack.cfg.                          *)
(***************************************************************************)
EXTENDS PortableSession, PortableBuffers, PortableGraph, PortableReplay, PortableFp4,
        PortableSpeculative, PortablePvp, PortableArtifact, PortableEvidence

VARIABLE layer    \* the layer this behaviour works in

stackVars == <<layer, vars, bufferVars, numericalVars, graphVars, replayVars, fp4Vars, speculativeVars,
               pvpVars, artifactVars, evidenceVars>>

\* Layers with one initial state stand still in it.
StillLayers == BufferInit /\ SpeculativeInit /\ PvpInit /\ ArtifactInit /\ EvidenceInit

StackInit ==
  /\ StillLayers
  /\ \/ /\ layer \in {"session", "buffers", "speculative", "pvp", "artifact", "evidence"}
        /\ Init /\ NumericalIdle /\ GraphIdle /\ ReplayIdle /\ Fp4Idle
     \/ layer = "numerical" /\ NumericalInit /\ Init /\ GraphIdle /\ ReplayIdle /\ Fp4Idle
     \/ layer = "graph" /\ GraphInit /\ Init /\ NumericalIdle /\ ReplayIdle /\ Fp4Idle
     \/ layer = "replay" /\ ReplayInit /\ Init /\ NumericalIdle /\ GraphIdle /\ Fp4Idle
     \/ layer = "fp4" /\ Fp4Init /\ Init /\ NumericalIdle /\ GraphIdle /\ ReplayIdle

\* Session and memory; the F32 kernels and their graph.
Still(below) == UNCHANGED <<layer, below>>
SessionNext ==
  layer = "session" /\ Next
  /\ Still(<<bufferVars, numericalVars, graphVars, replayVars, fp4Vars, speculativeVars, pvpVars,
           artifactVars, evidenceVars>>)
MemoryNext ==
  layer = "buffers" /\ BufferNext
  /\ Still(<<vars, numericalVars, graphVars, replayVars, fp4Vars, speculativeVars, pvpVars,
           artifactVars, evidenceVars>>)
KernelsNext ==
  \/ layer = "numerical" /\ NumericalNext
     /\ Still(<<vars, bufferVars, graphVars, replayVars, fp4Vars, speculativeVars, pvpVars,
           artifactVars, evidenceVars>>)
  \/ layer = "graph" /\ GraphNext
     /\ Still(<<vars, bufferVars, numericalVars, replayVars, fp4Vars, speculativeVars, pvpVars,
           artifactVars, evidenceVars>>)
\* The rows of a cache: their replay and their FP4 shadow.
RowsNext ==
  \/ layer = "replay" /\ ReplayNext
     /\ Still(<<vars, bufferVars, numericalVars, graphVars, fp4Vars, speculativeVars, pvpVars,
           artifactVars, evidenceVars>>)
  \/ layer = "fp4" /\ Fp4Next
     /\ Still(<<vars, bufferVars, numericalVars, graphVars, replayVars, speculativeVars, pvpVars,
           artifactVars, evidenceVars>>)
\* Verification of drafts, PVP banks, bound artifacts, evidence of all of it.
CallersNext ==
  \/ layer = "speculative" /\ SpeculativeNext
     /\ Still(<<vars, bufferVars, numericalVars, graphVars, replayVars, fp4Vars, pvpVars,
           artifactVars, evidenceVars>>)
  \/ layer = "pvp" /\ PvpNext
     /\ Still(<<vars, bufferVars, numericalVars, graphVars, replayVars, fp4Vars, speculativeVars,
           artifactVars, evidenceVars>>)
  \/ layer = "artifact" /\ ArtifactNext
     /\ Still(<<vars, bufferVars, numericalVars, graphVars, replayVars, fp4Vars, speculativeVars, pvpVars,
           evidenceVars>>)
  \/ layer = "evidence" /\ EvidenceNext
     /\ Still(<<vars, bufferVars, numericalVars, graphVars, replayVars, fp4Vars, speculativeVars,
           pvpVars, artifactVars>>)

StackNext == SessionNext \/ MemoryNext \/ KernelsNext \/ RowsNext \/ CallersNext
StackSpec == StackInit /\ [][StackNext]_stackVars
--------------------------------------------------------------------------------
\* Sums and products beyond 4; (-2)(-2) beyond it when rounded before the sum with 1(-2).
MCValues == {-2, 1, 3}
MCShapes == {<<Vector(2)>>, <<Vector(2), Vector(1)>>, <<Vector(2), Matrix(2, 1)>>, <<Vector(0)>>}
\* FP4 rows: <<sign, magnitude>>, with ties, a value far above the others, zeroes.
MCCells == {<<0, 0>>, <<0, 1>>, <<1, 6>>, <<0, 5>>, <<0, 15>>}
MCRows == {<<a, b, a>> : a, b \in MCCells}
\* Drafts of every length up to one too many, confidences in and out of range.
MCDrafts ==
  {[tokens |-> t, confidences |-> c] : t \in {<<>>, <<0>>, <<1>>}, c \in {<<>>, <<0>>, <<2>>, <<3>>}}
    \cup {[tokens |-> t, confidences |-> c] : t \in {<<0, 1>>, <<1, 2>>, <<1, 1>>}, c \in {<<2, 1>>, <<2, 2>>}}
    \cup {[tokens |-> <<1, 1, 1>>, confidences |-> <<2, 2, 2>>]}
MCSchedules == [least : {0, 2}, cap : 0..2]
\* Patterns 0 and 4 are the zeroes, 3 and 7 the infinities, 5 and 6 negative.
MCLogits ==
  LET one == {<<0, 4>>, <<4, 0>>, <<1, 2>>, <<6, 5>>, <<2, 3>>, <<7, 1>>}
  IN {<<r>> : r \in one}
       \cup {<<r, q>> : r \in one \ {<<7, 1>>}, q \in {<<0, 4>>, <<2, 3>>}}
       \cup {<<<<6, 5>>, <<1, 2>>, <<2, 1>>>>, <<<<1, 2>>, <<2, 5>>, <<4, 0>>>>, <<<<1, 2>>, <<3, 0>>, <<7, 0>>>>}
MCLayouts ==
  {[addresses |-> a, gates |-> g] : <<a, g>> \in {<<4, 3>>, <<2, 5>>, <<1, 2>>, <<3, 1>>, <<2, 0>>}}
MCSlots ==
  [group : 0..1, slot : 0..1, kind : {"read", "write", "uniform"}, element : {"F32"}, size : {0, 2, 6}]
MCHalf == [group |-> 0, slot |-> 1, kind |-> "write", element |-> "F16", size |-> 1]
MCOdd == [group |-> 0, slot |-> 0, kind |-> "write", element |-> "U32", size |-> 3]
MCArtifacts ==
  {[id |-> "a", revision |-> 1, bindings |-> b, workgroup |-> <<1, 1>>, source |-> "wgsl"] :
     b \in {<<s>> : s \in MCSlots}
           \cup {<<s, t>> : s \in {x \in MCSlots : x.kind # "write" /\ x.size # 0},
                            t \in {x \in MCSlots : x.kind # "read" /\ x.size = 2}}
           \cup {<<MCHalf>>, <<MCOdd>>, <<>>}}
    \cup {[id |-> i, revision |-> v, bindings |-> <<MCHalf>>, workgroup |-> g, source |-> f] :
            i \in {"", "a"}, v \in {0, 1}, g \in {<<0, 1>>, <<2, 1>>, <<1, 2>>, <<2, 2>>},
            f \in {"ir", "builtin"}}
MCLimits ==
  {d \in [groups : 1..2, perGroup : {1, 3}, buffer : {4, 6}, storage : {2, 6}, uniform : {2, 6},
          storages : {1, 3}, uniforms : 0..1, half : BOOLEAN, workgroup : {<<2, 1>>},
          invocations : {2}, dispatch : 1..2] : d.half = (d.dispatch = 1)}
\* nnis evidence: one argument wrong at a time; adapters of each class, software
\* by type, name or driver, without a name, none and a failed discovery.
MCLines ==
  LET line == [commit |-> "sha", clean |-> "true", toolchain |-> "padded", target |-> "absent", model |-> "absent",
               out |-> "file"]
  IN {line, [line EXCEPT !.clean = "false"], [line EXCEPT !.commit = "other"], [line EXCEPT !.toolchain = "blank"],
      [line EXCEPT !.target = "foreign"], [line EXCEPT !.model = "control"], [line EXCEPT !.out = "bad"],
      [line EXCEPT !.commit = "absent"]}
MCReports ==
  {[device |-> d, name |-> "text", driver |-> "empty"] : d \in {"DiscreteGpu", "Cpu", "Other"}}
    \cup {[device |-> "VirtualGpu", name |-> n, driver |-> d] :
             <<n, d>> \in {<<"marker", "text">>, <<"padded", "marker">>, <<"blank", "control">>}}
    \cup {[device |-> d] : d \in {"none", "error"}}
\* Preregistrations: campaigns of four to eight cells, and one field wrong.
MCRegistrations ==
  LET baseline == [id |-> "dense", primitives |-> <<>>]
      replay == [id |-> "replay", primitives |-> <<1>>]
      both == [id |-> "both", primitives |-> <<1, 3>>]
      f == [texts |-> TRUE, campaign |-> "campaign", prompts |-> 1, contexts |-> <<1, 2>>, decodes |-> <<1>>,
            repetitions |-> 2, budget |-> 0, backend |-> "wgpu", metric |-> "rss", arms |-> <<baseline, replay>>]
  IN {f, [f EXCEPT !.decodes = <<1, 3>>], [f EXCEPT !.arms = <<both, baseline, replay>>], [f EXCEPT !.texts = FALSE],
      [f EXCEPT !.prompts = 0], [f EXCEPT !.repetitions = 1]}
     \cup {[f EXCEPT !.contexts = c] : c \in {<<>>, <<0, 1>>, <<1, 1>>, <<2, 1>>}}
     \cup {[f EXCEPT !.budget = b] : b \in {-1, 50}}
     \cup {[f EXCEPT !.arms = a] : a \in {<<baseline>>, <<replay, both>>, <<baseline, baseline>>, <<baseline, replay, replay>>,
                                          <<baseline, [id |-> "odd", primitives |-> <<2, 2>>]>>}}
MCLowestExponent == -4
================================================================================
