----------------------------- MODULE MCSessions -----------------------------
(* A small instance of Sessions. *)
EXTENDS Sessions, TLC

CONSTANTS t1, t2, t3, c1, r1, r2

ThreeTokens == {t1, t2, t3}
OneCode == {c1}
TwoRequests == {r1, r2}

Symmetry == Permutations(ThreeTokens) \union Permutations(TwoRequests)
=============================================================================
