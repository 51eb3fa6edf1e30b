-------------------------------- MODULE KvRows --------------------------------
(***************************************************************************)
(* What a KV cache promises its user: per layer, a sequence of rows that   *)
(* grows at its end, is cut back, or is reduced to the rows a caller asked *)
(* for.  A compaction is answered in one indivisible step for all layers,  *)
(* or refused with no effect.  InferenceSession is written against this    *)
(* view; KvCompaction implements it on a plane of cells.                   *)
(***************************************************************************)
EXTENDS Naturals, Sequences

CONSTANTS Layers, Rows, Capacity

VARIABLES
    rows,      \* rows[l]: the valid rows of layer l
    asked      \* the compaction asked for: a selection per layer, or Nothing

Nothing == <<>>

\* The rows of s at the positions of sel, which count from zero.
Select(s, sel) == [i \in 1..Len(sel) |-> s[sel[i] + 1]]

\* sel is strictly increasing and within n active rows.
Selection(n, sel) ==
    /\ \A i \in DOMAIN sel : sel[i] < n
    /\ \A i, j \in DOMAIN sel : i < j => sel[i] < sel[j]

Selections == UNION {[1..n -> 0..(Capacity - 1)] : n \in 0..Capacity}

Init == rows = [l \in Layers |-> <<>>] /\ asked = Nothing

\* append_layer of one token.
AppendRow(l, r) ==
    /\ asked = Nothing
    /\ Len(rows[l]) < Capacity
    /\ rows' = [rows EXCEPT ![l] = Append(@, r)]
    /\ UNCHANGED asked

\* truncate and reset: every layer is cut back to n rows.
Truncate(n) ==
    /\ asked = Nothing
    /\ \A l \in Layers : Len(rows[l]) >= n
    /\ rows' = [l \in Layers |-> SubSeq(rows[l], 1, n)]
    /\ UNCHANGED asked

\* reset_layer: the compaction of a layer to no rows.
Clear(l) ==
    /\ asked = Nothing
    /\ rows' = [rows EXCEPT ![l] = <<>>]
    /\ UNCHANGED asked

\* compact_kv_cache: one selection for all layers, which have one length.
AskAll(sel) ==
    /\ asked = Nothing
    /\ \A l, m \in Layers : Len(rows[l]) = Len(rows[m])
    /\ \A l \in Layers : Selection(Len(rows[l]), sel)
    /\ asked' = [l \in Layers |-> sel]
    /\ UNCHANGED rows

\* compact_kv_cache_layer: the other layers are to keep all their rows.
AskLayer(k, sel) ==
    /\ asked = Nothing
    /\ Selection(Len(rows[k]), sel)
    /\ asked' = [l \in Layers |-> IF l = k THEN sel
                                  ELSE [i \in 1..Len(rows[l]) |-> i - 1]]
    /\ UNCHANGED rows

\* The compaction happens, in all layers at once.
Keep ==
    /\ asked # Nothing
    /\ rows' = [l \in Layers |-> Select(rows[l], asked[l])]
    /\ asked' = Nothing

\* The compaction fails and nothing has happened.
Refuse ==
    /\ asked # Nothing
    /\ asked' = Nothing
    /\ UNCHANGED rows

Next ==
    \/ \E l \in Layers, r \in Rows : AppendRow(l, r)
    \/ \E n \in 0..Capacity : Truncate(n)
    \/ \E l \in Layers : Clear(l)
    \/ \E sel \in Selections : AskAll(sel) \/ \E l \in Layers : AskLayer(l, sel)
    \/ Keep \/ Refuse

Spec == Init /\ [][Next]_<<rows, asked>>
=============================================================================
