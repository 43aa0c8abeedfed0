----------------------------- MODULE MCRunBudget -----------------------------
(* Small instances of RunBudget for TLC.                                    *)
EXTENDS RunBudget, TLC

TwoEach == [o \in Operations |-> 2]

Symmetry == Permutations(Callers) \cup Permutations(Operations)
==============================================================================
