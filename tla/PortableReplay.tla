---------------------------- MODULE PortableReplay -----------------------------
(***************************************************************************)
(* Replay of KV rows by logical position: source identities, window        *)
(* requests (nnis-core replay_state.rs), the sources of both backends      *)
(* (nnis-cpu and nnis-wgpu replay.rs: the same arithmetic, a device copy   *)
(* in place of a slice), and the plan that lets a layer reuse the rows of  *)
(* an earlier one (kv_reuse_plan.rs, kv_reuse.rs).                         *)
(*                                                                         *)
(* Positions are u64, narrowed to 0..LastPosition.  A value of a row is    *)
(* named by whose it is: component, layer, generation, position, column.   *)
(* Requests outlive the sources they were made from.                       *)
(***************************************************************************)
EXTENDS Naturals, Sequences, FiniteSets, SequencesExt, TLC

CONSTANTS
  LastPosition,   \* greatest u64
  RowWidth,
  Layers,         \* number of layers of the plans
  MaxGeneration   \* bound: times the sources are made

ASSUME ReplayAssumption == LastPosition \in Nat /\ RowWidth \in Nat \ {0} /\ Layers \in Nat \ {0}

VARIABLES
  reusePlan,    \* component -> layer -> "own" or the layer reused
  bound,        \* component -> layer -> source, or NoSource
  request,      \* a window request, or NoRequest
  played,       \* the last replay
  generation    \* source_generation of the sources in place

replayVars == <<reusePlan, bound, request, played, generation>>

Components == {"key", "value"}
LayerIds == 0..Layers - 1
Own == Layers                \* KvLayerSourceV1::Own; below it ReuseFrom(layer)
NoSource == [rows |-> <<>>]
NoRequest == [from |-> "nobody"]
Refused == [ok |-> FALSE]

\* --- Plans ---------------------------------------------------------------
\* Mutant: the layer reused may itself reuse another.
PlanCausal(p) ==
  \A c \in Components, l \in LayerIds : p[c][l] # Own => p[c][l] < l
\* CrossLayerKvReusePlanV1::new: reuse is of an earlier layer that owns its rows.
PlanValid(p) ==
  \A c \in Components, l \in LayerIds : p[c][l] # Own => p[c][l] < l /\ p[c][p[c][l]] = Own
Owner(p, c, l) == IF p[c][l] = Own THEN l ELSE p[c][l]
Owners(p, c) == {l \in LayerIds : p[c][l] = Own}

\* --- Identities and sources ----------------------------------------------
\* logical_items of an inclusive range; 0 stands for PositionOverflow.
LogicalItems(start, end) == IF end - start = LastPosition THEN 0 ELSE end - start + 1
Identity(c, l, gen, start, end) == [from |-> <<c, l>>, gen |-> gen, start |-> start, end |-> end]
Cells(id, n) ==
  [i \in 1..n * RowWidth |-> <<id.from, id.gen, id.start + (i - 1) \div RowWidth, (i - 1) % RowWidth>>]
\* A source of a range that has no item count cannot be made; the others hold
\* one finite row per position.
MadeSource(id) == [id |-> id, rows |-> Cells(id, LogicalItems(id.start, id.end))]
Makeable(start, end) == start <= end /\ LogicalItems(start, end) # 0

\* --- Requests ------------------------------------------------------------
Window(id, start, end) ==
  IF start <= end /\ start >= id.start /\ end <= id.end
  THEN [ok |-> TRUE, from |-> id, start |-> start, end |-> end] ELSE Refused
\* Mutant: the window starts a full window before the last position.
RecentOneMore(id, items) ==
  IF items = 0 \/ items > id.end - id.start THEN Refused ELSE Window(id, id.end - items, id.end)
\* recent: items - 1 positions before the last; the item count of the source is
\* only asked for to word the error.
Recent(id, items) ==
  IF items = 0 \/ items - 1 > id.end - id.start THEN Refused
  ELSE Window(id, id.end - (items - 1), id.end)

\* Where the rows of a request lie among the values of a source.
RowExtent(source, r) ==
  [start |-> (r.start - source.id.start) * RowWidth, len |-> LogicalItems(r.start, r.end) * RowWidth]
\* Mutant: the rows are those of the range, whoever they belong to.
ReplayUnidentified(source, r) ==
  LET e == RowExtent(source, r)
  IN IF e.start + e.len > Len(source.rows) THEN Refused
     ELSE [ok |-> TRUE, cells |-> SubSeq(source.rows, e.start + 1, e.start + e.len)]
\* replay_window.
ReplayWindow(source, r) ==
  LET e == RowExtent(source, r)
  IN IF source.id # r.from \/ e.start + e.len > Len(source.rows) THEN Refused
     ELSE [ok |-> TRUE, cells |-> SubSeq(source.rows, e.start + 1, e.start + e.len)]

\* --- Behaviour -----------------------------------------------------------
\* Two records with different fields as one.
Joined(r, s) == [x \in DOMAIN r \cup DOMAIN s |-> IF x \in DOMAIN r THEN r[x] ELSE s[x]]
Unbound == [c \in Components |-> [l \in LayerIds |-> NoSource]]
OwnPlan == [c \in Components |-> [l \in LayerIds |-> Own]]
ReplayIdle ==
  /\ reusePlan = OwnPlan /\ bound = Unbound /\ request = NoRequest
  /\ played = Refused /\ generation = 0
Sources == [LayerIds -> LayerIds \cup {Own}]
ReplayInit ==
  /\ \E keys, values \in Sources :
       /\ keys = values \/ \A l \in LayerIds : values[l] = Own
       /\ reusePlan = [c \in Components |-> IF c = "key" THEN keys ELSE values]
       /\ PlanValid(reusePlan)
  /\ bound = Unbound /\ request = NoRequest /\ played = Refused /\ generation = 0

\* bind_component: the layers given sources are exactly the owners, once each.
BindComponent(p, c, given) ==
  /\ \A i \in DOMAIN given : p[c][given[i]] = Own
  /\ \A i, j \in DOMAIN given : i # j => given[i] # given[j]
  /\ ToSet(given) = Owners(p, c)

\* The order of the list does not matter: it is taken ascending.
LayerLists ==
  {given \in UNION {[1..n -> LayerIds] : n \in 1..Layers} : \A i \in 2..Len(given) : given[i - 1] <= given[i]}
Bindable(c) == {given \in LayerLists : BindComponent(reusePlan, c, given)}

\* The sources of a new generation are bound; all of them cover one range.
BindSources(keys, values, start, end) ==
  /\ generation < MaxGeneration /\ Makeable(start, end)
  /\ generation' = generation + 1
  /\ bound' = [c \in Components |-> [l \in LayerIds |->
                 IF l \in ToSet(IF c = "key" THEN keys ELSE values)
                 THEN MadeSource(Identity(c, l, generation + 1, start, end)) ELSE NoSource]]
  /\ played' = Refused
  /\ UNCHANGED <<reusePlan, request>>

BoundIds == {bound[x[1]][x[2]].id : x \in {y \in Components \X LayerIds : bound[y[1]][y[2]] # NoSource}}
\* items: how many positions the caller means.
MakeRequest(r, items) ==
  /\ r.ok
  /\ request' = Joined(r, [items |-> items])
  /\ played' = Refused
  /\ UNCHANGED <<reusePlan, bound, generation>>

\* source: that of the layer that owns the rows.
SourceOf(c, l) == bound[c][Owner(reusePlan, c, l)]
\* replay_window of the binding.
Replay(c, l) ==
  /\ bound # Unbound /\ request # NoRequest
  /\ LET source == SourceOf(c, l)
         result == IF source = NoSource THEN [ok |-> FALSE, missing |-> TRUE] ELSE ReplayWindow(source, request)
     IN played' = Joined(result, [component |-> c, layer |-> l, asked |-> request, gen |-> generation])
  /\ UNCHANGED <<reusePlan, bound, request, generation>>

ReplayNext ==
  \/ \E keys \in Bindable("key"), values \in Bindable("value"), start \in 0..1, end \in 0..LastPosition :
       BindSources(keys, values, start, end)
  \/ \E id \in BoundIds, start, end \in 0..LastPosition :
       MakeRequest(Window(id, start, end), IF start <= end THEN end - start + 1 ELSE 0)
  \/ \E id \in BoundIds, items \in 0..LastPosition : MakeRequest(Recent(id, items), items)
  \/ \E c \in Components, l \in LayerIds : Replay(c, l)

ReplaySpec == ReplayInit /\ [][ReplayNext]_replayVars

-----------------------------------------------------------------------------
\* replay_state.rs:131-248, replay.rs (cpu) 78-100, (wgpu) 148-178 and
\* kv_reuse.rs:72-99: rows that come back are all the columns of exactly the
\* positions asked for, of the layer that owns them, in the generation that is
\* bound; a request of an earlier generation, or for another layer's source,
\* brings none back, and a layer of a valid plan always has a source.
ReplayExact ==
  /\ "missing" \notin DOMAIN played
  /\ played.ok =>
       LET r == played.asked
           p == reusePlan[played.component]
           owner == IF p[played.layer] = Own THEN played.layer ELSE p[played.layer]
       IN /\ p[owner] = Own
          /\ r.from.from = <<played.component, owner>> /\ r.from.gen = played.gen
          /\ Len(played.cells) = r.items * RowWidth
          /\ \A i \in DOMAIN played.cells :
               played.cells[i] = <<<<played.component, owner>>, played.gen, r.start + (i - 1) \div RowWidth,
                                   (i - 1) % RowWidth>>
================================================================================
