-------------------------- MODULE MCInferenceSession --------------------------
(***************************************************************************)
(* Model-checking instances of a decoder session: one that a caller uses   *)
(* through every public call (InferenceSession), and one that a KVLab      *)
(* backend drives (KvlabBackend).                                          *)
(***************************************************************************)
EXTENDS KvlabBackend, TLC
Symm == Permutations(Tokens)

\* Logical ids of a v3 request are other numbers than its positions.
Ids == <<7, 5>>
Four(input, keep, eval, mode) ==
    [version |-> 4, wellFormed |-> TRUE, bytes |-> KvBytesPerToken, provenance |-> TRUE, mode |-> mode,
     policy |-> mode = "candidate", logical |-> <<>>, input |-> input, retained |-> keep, eval |-> eval,
     trace |-> <<input, eval>>]
Three(input, keep, eval, mode) ==
    LET logical == SubSeq(Ids, 1, Len(input))
    IN [Four(input, keep, eval, mode) EXCEPT !.version = 3, !.logical = logical, !.trace = <<logical, input, eval>>]
Evals == UNION {[1..n -> Tokens] : n \in 1..3}
Modes == {"baseline", "candidate"}
\* Fields that make a request one the backend refuses, or must not trust.
Odd(r) ==
    {[r EXCEPT !.wellFormed = FALSE], [r EXCEPT !.bytes = 0], [r EXCEPT !.bytes = @ + 1],
     [r EXCEPT !.provenance = FALSE], [r EXCEPT !.policy = ~@], [r EXCEPT !.trace = <<>>],
     [r EXCEPT !.input = <<>>], [r EXCEPT !.eval = Append(@, "outside"), !.trace = <<r.input, @>>]}
MCRequests ==
    {Four(i, k, e, m) : i \in Prompts, k \in {<<>>, <<0>>, <<1>>, <<0, 1>>, <<1, 0>>}, e \in Evals, m \in Modes}
    \cup {Three(i, k, e, m) : i \in Prompts, k \in {<<>>, <<7>>, <<5>>, <<7, 5>>, <<5, 7>>}, e \in Evals, m \in Modes}
    \cup UNION {Odd(Four(<<t, t>>, <<1>>, <<t, t>>, "candidate")) \cup Odd(Three(<<t>>, <<7>>, <<t, t>>, "baseline"))
                : t \in Tokens}
    \cup UNION {{[Three(<<t, t>>, <<7>>, <<t, t>>, "candidate") EXCEPT !.logical = l] : l \in {<<7>>, <<7, 7>>}}
                : t \in Tokens}
MCBackends ==
    LET four == [version |-> 4, spec |-> "exact", file |-> "exact", config |-> "exact", source |-> "BF16"]
    IN {four, [four EXCEPT !.spec = "none"], [four EXCEPT !.file = "other"], [four EXCEPT !.config = "other"],
        [four EXCEPT !.version = 3, !.source = "F32"], [four EXCEPT !.version = 3]}

MCInit == Init /\ (BackendOff \/ BackendInit)
MCNext == (step = "off" /\ Next /\ UNCHANGED backendVars) \/ BackendNext
MCSpec == MCInit /\ [][MCNext]_<<vars, backendVars>>
=============================================================================
