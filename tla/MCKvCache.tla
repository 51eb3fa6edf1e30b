------------------------------ MODULE MCKvCache -------------------------------
(* Model-checking instance of KvCache: two layers, two source tensors. *)
EXTENDS KvCache, TLC
CONSTANTS s1, s2, p1, p2

MCSources == {s1, s2}
MCPayloads == {p1, p2}
\* s1 packs one token, s2 packs two.
MCSrcTokens == (s1 :> 1) @@ (s2 :> 2)
Symm == Permutations(MCPayloads)
=============================================================================
