----------------------------- MODULE PortableGraph -----------------------------
(***************************************************************************)
(* The portable F32 graph: admission of a plan (nnis-core graph.rs) and    *)
(* its execution node by node on the CPU kernels of PortableNumerical      *)
(* (nnis-cpu graph.rs; nnis-wgpu graph.rs has the same control over its    *)
(* own kernels, whose projections are only within a bound of the CPU's).   *)
(* Values are numbered from 1: the inputs first, then the nodes.           *)
(*                                                                         *)
(* Sizes are counted in elements.  The checked u64 sums and products of    *)
(* the admission are of natural numbers and are compared with u64 limits,  *)
(* so an overflow refuses exactly what the limit would.                    *)
(***************************************************************************)
EXTENDS PortableNumerical, FiniteSetsExt

CONSTANTS
  InputShapes,   \* input lists that plans are built from
  MaxNodes, MaxTensor, MaxLive, MaxNodeScratch, MaxWorkItems  \* F32GraphLimitsV1

VARIABLES
  graph,       \* the plan: inputs (shapes) and nodes
  given,       \* values of the inputs
  computed,    \* nodes executed so far
  kernelLimit, \* scratch limit the kernels were made with
  graphStage   \* where the plan stands

graphVars == <<graph, given, computed, kernelLimit, graphStage>>

Vector(n) == [rows |-> 0, cols |-> n]
Matrix(r, c) == [rows |-> r, cols |-> c]
IsVector(s) == s.rows = 0
Elements(s) == IF IsVector(s) THEN s.cols ELSE s.rows * s.cols

\* --- Admission -----------------------------------------------------------
\* Mutant: a node may be its own operand.
BeforeOrSelf(g, k) == 1..Len(g.inputs) + k
\* An operand is an input or the output of an EARLIER node.
Before(g, k) == 1..Len(g.inputs) + k - 1
ShapeOf(g, id) == IF id <= Len(g.inputs) THEN g.inputs[id] ELSE g.nodes[id - Len(g.inputs)].shape
Shapes(g) == [id \in 1..Len(g.inputs) + Len(g.nodes) |-> ShapeOf(g, id)]

\* infer: the shape a node must have, its work, and what its indices stay below.
Infer(g, node) ==
  LET a == ShapeOf(g, node.args[1])
      b == ShapeOf(g, node.args[Len(node.args)])
      sel == Len(node.idx)
  IN CASE node.op \in {"add", "multiply"} ->
            [ok |-> IsVector(a) /\ b = a, shape |-> a, work |-> 4 * a.cols, limit |-> 0]
       [] node.op = "relu" -> [ok |-> IsVector(a), shape |-> a, work |-> 3 * a.cols, limit |-> 0]
       [] node.op = "sum" -> [ok |-> IsVector(a), shape |-> Vector(1), work |-> 2 * a.cols + 1, limit |-> 0]
       [] node.op = "project" ->
            [ok |-> IsVector(a) /\ ~IsVector(b) /\ b.rows = a.cols, shape |-> Vector(b.cols),
             work |-> a.cols + 2 * Elements(b) + b.cols, limit |-> 0]
       [] node.op = "gather" ->
            [ok |-> IsVector(a) /\ sel # 0, shape |-> Vector(sel), work |-> a.cols + 3 * sel, limit |-> a.cols]
       [] node.op = "scatter" ->
            [ok |-> IsVector(a) /\ IsVector(b) /\ sel = b.cols, shape |-> a,
             work |-> 3 * a.cols + 3 * sel, limit |-> a.cols]

NodeAdmitted(g, k) ==
  LET node == g.nodes[k]
  IN /\ \A i \in DOMAIN node.args : node.args[i] \in Before(g, k)
     /\ Infer(g, node).ok /\ Infer(g, node).shape = node.shape
     /\ \A i \in DOMAIN node.idx : node.idx[i] < Infer(g, node).limit
     /\ Elements(node.shape) <= MaxNodeScratch

\* Mutant: the scratch of the last node stands for the largest.
LastScratch(g) == Elements(g.nodes[Len(g.nodes)].shape)
MaxScratchPayload(g) == Max({Elements(g.nodes[k].shape) : k \in DOMAIN g.nodes})
Budget(g) ==
  LET in == MapThenSumSet(LAMBDA i : Elements(g.inputs[i]), DOMAIN g.inputs)
      out == MapThenSumSet(LAMBDA k : Elements(g.nodes[k].shape), DOMAIN g.nodes)
  IN [live |-> in + out + MaxScratchPayload(g),
      work |-> in + MapThenSumSet(LAMBDA k : Infer(g, g.nodes[k]).work, DOMAIN g.nodes)]

Admitted(g) ==
  /\ g.inputs # <<>> /\ g.nodes # <<>> /\ Len(g.nodes) <= MaxNodes
  /\ \A id \in DOMAIN Shapes(g) : Elements(ShapeOf(g, id)) \in 1..MaxTensor
  /\ \A k \in DOMAIN g.nodes : NodeAdmitted(g, k)
  /\ Budget(g).work <= MaxWorkItems /\ Budget(g).live <= MaxLive

\* --- Building ------------------------------------------------------------
GraphIdle ==
  /\ graph = [inputs |-> <<>>, nodes |-> <<>>] /\ given = <<>> /\ computed = <<>>
  /\ kernelLimit = 0 /\ graphStage = "idle"
GraphInit ==
  /\ \E shapes \in InputShapes : graph = [inputs |-> shapes, nodes |-> <<>>]
  /\ given = <<>> /\ computed = <<>> /\ kernelLimit = 0 /\ graphStage = "build"

Args(g, n) == [1..n -> 1..Len(g.inputs) + Len(g.nodes) + 1]
IndexLists == {<<>>, <<0>>, <<1, 1>>, <<2>>}
NodesFor(g) ==
  LET made == {Vector(1), Vector(2), Matrix(2, 1)}
  IN [op : {"add", "multiply", "project"}, args : Args(g, 2), idx : {<<>>}, shape : made]
       \cup [op : {"relu", "sum"}, args : Args(g, 1), idx : {<<>>}, shape : made]
       \cup [op : {"gather"}, args : Args(g, 1), idx : IndexLists, shape : made]
       \cup [op : {"scatter"}, args : Args(g, 2), idx : IndexLists, shape : made]

AddNode(node) ==
  /\ graphStage = "build"
  /\ graph' = [graph EXCEPT !.nodes = Append(@, node)]
  /\ UNCHANGED <<given, computed, kernelLimit, graphStage>>

\* validate.
Admit ==
  /\ graphStage = "build" /\ graph.nodes # <<>>
  /\ graphStage' = IF Admitted(graph) THEN "bind" ELSE "refused"
  /\ UNCHANGED <<graph, given, computed, kernelLimit>>

\* --- Execution -----------------------------------------------------------
\* Shapes and the finiteness of the bound inputs are checked first.
Bind(values) ==
  /\ graphStage = "bind"
  /\ Len(values) = Len(graph.inputs)
  /\ \A i \in DOMAIN values : Len(values[i]) = Elements(graph.inputs[i]) /\ AllFinite(values[i])
  /\ given' = values
  /\ kernelLimit' = MaxScratchPayload(graph)
  /\ graphStage' = "run"
  /\ UNCHANGED <<graph, computed>>

Ready(id) == id <= Len(given) + Len(computed)
Operand(id) == IF id <= Len(given) THEN given[id] ELSE computed[id - Len(given)]
\* The kernel call of a node; old is what its fresh output holds.
KernelWork(node) ==
  CASE node.op = "scatter" ->
         [op |-> "scatter", left |-> Operand(node.args[2]), right |-> <<>>, idx |-> node.idx, n |-> 0]
    [] node.op \in {"add", "multiply", "project"} ->
         [op |-> node.op, left |-> Operand(node.args[1]), right |-> Operand(node.args[2]), idx |-> <<>>,
          n |-> node.shape.cols]
    [] OTHER -> [op |-> node.op, left |-> Operand(node.args[1]), right |-> <<>>, idx |-> node.idx, n |-> 0]
Fresh(node) ==
  IF node.op = "scatter" THEN Operand(node.args[1]) ELSE [i \in 1..Elements(node.shape) |-> 0]

Current == graph.nodes[Len(computed) + 1]
OperandsReady == \A i \in DOMAIN Current.args : Ready(Current.args[i])

\* A node: its output is made, a scatter's is filled from its base, the kernel
\* runs; its error ends the graph.
ExecuteNode ==
  /\ graphStage = "run" /\ Len(computed) < Len(graph.nodes)
  /\ IF ~OperandsReady THEN graphStage' = "missing operand" /\ UNCHANGED computed
     ELSE LET w == KernelWork(Current)
              old == Fresh(Current)
          IN IF ~Shaped(w, Len(old)) \/ Len(old) > kernelLimit
             THEN graphStage' = "shape" /\ UNCHANGED computed
             ELSE IF CpuRuns(w, old).ret = "err" THEN graphStage' = "nonfinite" /\ UNCHANGED computed
             ELSE computed' = Append(computed, CpuRuns(w, old).out) /\ UNCHANGED graphStage
  /\ UNCHANGED <<graph, given, kernelLimit>>

\* The last node is the output.
GraphReturns ==
  /\ graphStage = "run" /\ Len(computed) = Len(graph.nodes)
  /\ graphStage' = "ok"
  /\ UNCHANGED <<graph, given, computed, kernelLimit>>

Bindings(g) ==
  {[i \in 1..Len(g.inputs) |-> [j \in 1..Elements(g.inputs[i]) |-> f[(i + j) % 2]]]
     : f \in [0..1 -> {1, 2}]}

GraphNext ==
  \/ /\ graphStage = "build" /\ Len(graph.nodes) < MaxNodes
     /\ graph.nodes # <<>> => Admitted(graph)
     /\ \E node \in NodesFor(graph) : AddNode(node)
  \/ Admit
  \/ graphStage = "bind" /\ \E values \in Bindings(graph) : Bind(values)
  \/ ExecuteNode \/ GraphReturns

-----------------------------------------------------------------------------
\* What a value of the plan is, by its operation alone; NonFinite if any step is.
Denoted ==
  LET total == Len(given) + Len(computed)
      val[id \in 1..total] ==
        IF id <= Len(given) THEN given[id]
        ELSE LET node == graph.nodes[id - Len(given)]
                 a == val[node.args[1]]
                 b == val[node.args[Len(node.args)]]
             IN CASE node.op = "add" -> [i \in DOMAIN a |-> a[i] + b[i]]
                  [] node.op = "multiply" -> [i \in DOMAIN a |-> a[i] * b[i]]
                  [] node.op = "relu" -> a
                  [] node.op = "sum" -> <<MapThenSumSet(LAMBDA i : a[i], DOMAIN a)>>
                  [] node.op = "project" ->
                       [c \in 1..node.shape.cols |->
                          MapThenSumSet(LAMBDA r : a[r] * b[(r - 1) * node.shape.cols + c], DOMAIN a)]
                  [] node.op = "gather" -> [i \in DOMAIN node.idx |-> a[node.idx[i] + 1]]
                  [] node.op = "scatter" ->
                       [i \in DOMAIN a |-> a[i] + MapThenSumSet(LAMBDA j : b[j], {j \in DOMAIN node.idx : node.idx[j] = i - 1})]
  IN val

\* graph.rs (core) 141-287 and (cpu) 43-155: a plan that was admitted meets no
\* missing operand, no shape its kernels refuse and no scratch limit, stays within
\* its payload bound, and computes what its operations denote; it fails only where
\* a value leaves the finite range.
GraphExecutes ==
  /\ graphStage \notin {"missing operand", "shape"}
  /\ graphStage \in {"run", "ok"} =>
       /\ \A k \in DOMAIN computed : computed[k] = Denoted[Len(given) + k]
       /\ LET held == MapThenSumSet(LAMBDA i : Len(given[i]), DOMAIN given)
                        + MapThenSumSet(LAMBDA k : Len(computed[k]), DOMAIN computed)
              next == IF Len(computed) < Len(graph.nodes) THEN Elements(Current.shape) ELSE 0
          IN held + 2 * next <= Budget(graph).live
================================================================================
