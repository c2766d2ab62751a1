----------------------------- MODULE MCBareclaw -----------------------------
(* Instances of Bareclaw for TLC. *)
EXTENDS Bareclaw, TLC

CONSTANTS k1, k2, c1, c2, c3

MCOneKey  == {k1}
MCKeys    == {k1, k2}
MCCalls2  == {c1, c2}
MCCalls3  == {c1, c2, c3}

\* Two plain keys, "a" and "b".
PlainTexts == [k \in Key |-> IF k = k1 THEN <<97>> ELSE <<98>>]

Sym == Permutations({k1, k2}) \cup Permutations(Call)
=============================================================================
