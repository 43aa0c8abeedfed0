\* No crash and no technical failure: one failed contract, a recovery and a redraft.
SPECIFICATION Spec
CONSTANTS
  Route <- MCRoute
  Mandatory <- MCMandatory
  Editable = {"text"}
  RedraftLimit <- MCRedraftLimit
  Directions = {d1, d2}
  NoDirection = NoDirection
  NoDraft = NoDraft
  Edits = {e1}
  NoEdit = NoEdit
  RepairIds = {rp1}
  MaxFaults = 0
SYMMETRY Symmetry
INVARIANT PendingIsAnswerable
\* A Run ends.
CHECK_DEADLOCK FALSE
