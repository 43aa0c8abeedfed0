----------------------------- MODULE MCWriteback -----------------------------
(* Small instances of Writeback for TLC.                                   *)
EXTENDS Writeback
==============================================================================
