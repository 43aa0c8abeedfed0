------------------------- MODULE MCProviderOperation -------------------------
(* Small instances of ProviderOperation for TLC.                           *)
EXTENDS ProviderOperation, TLC
=============================================================================
