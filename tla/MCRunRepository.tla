---------------------------- MODULE MCRunRepository ----------------------------
(* Small instances of RunRepository for TLC.                               *)
EXTENDS RunRepository, TLC

Symmetry == Permutations(Steppers) \cup Permutations(Applies) \cup Permutations(Readers)
=============================================================================
