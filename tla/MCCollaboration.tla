---------------------------- MODULE MCCollaboration ----------------------------
(* Small instances of Collaboration for TLC.                               *)
EXTENDS Collaboration, TLC

(* POSTs differ only in their lease owner, valid payloads only in what     *)
(* they propose.                                                           *)
Symmetry == Permutations(Callers) \cup Permutations(ValidPayloads)
=============================================================================
