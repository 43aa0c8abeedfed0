---------------------------- MODULE UnitWriteback ----------------------------
(***************************************************************************)
(* What the writeback of one accepted unit promises: one set of facts goes *)
(* into the Canon at most once and is never changed, the Wiki shows        *)
(* nothing else, a committed writeback has done both, and only the author  *)
(* cancels.  Writeback implements it.                                      *)
(***************************************************************************)
CONSTANT Facts

VARIABLES
  status,     \* open, committed or cancelled
  canon,      \* what the unit put into the Canon
  wiki,       \* what the Wiki shows of it
  withdrawn   \* whether the author cancelled

writebackVars == <<status, canon, wiki, withdrawn>>

Init ==
  /\ status = "open"
  /\ canon = {} /\ wiki = {}
  /\ withdrawn = FALSE

CommitFacts(facts) ==
  /\ status = "open"
  /\ canon = {}
  /\ canon' = {facts}
  /\ UNCHANGED <<status, wiki, withdrawn>>

Project ==
  /\ status = "open"
  /\ wiki' = canon
  /\ UNCHANGED <<status, canon, withdrawn>>

Complete ==
  /\ status = "open"
  /\ canon # {} /\ wiki = canon
  /\ status' = "committed"
  /\ UNCHANGED <<canon, wiki, withdrawn>>

Withdraw ==
  /\ withdrawn' = TRUE
  /\ UNCHANGED <<status, canon, wiki>>

Cancel ==
  /\ status = "open" /\ withdrawn
  /\ status' = "cancelled"
  /\ UNCHANGED <<canon, wiki, withdrawn>>

Next == (\E facts \in Facts : CommitFacts(facts)) \/ Project \/ Complete \/ Withdraw \/ Cancel

Spec == Init /\ [][Next]_writebackVars
==============================================================================
