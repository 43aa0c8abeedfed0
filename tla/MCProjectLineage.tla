--------------------------- MODULE MCProjectLineage ---------------------------
(* Small instances of ProjectLineage for TLC.                              *)
EXTENDS ProjectLineage, TLC

CONSTANTS c1, r1, p1, p2, k1, k2

OneRoot == c1 :> r1
Symmetry == Permutations({k1, k2}) \cup Permutations({p1, p2})
===============================================================================
