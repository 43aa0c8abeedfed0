\* One crash between the checkpoint and the record; the client submits its command again.
SPECIFICATION Spec
CONSTANTS
  Route <- MCRoute
  Mandatory <- MCMandatory
  Editable = {"text"}
  RedraftLimit <- MCRedraftLimit
  Directions = {d1, d2}
  NoDirection = NoDirection
  NoDraft = NoDraft
  Edits = {e1}
  NoEdit = NoEdit
  RepairIds = {rp1}
  MaxFaults = 1
SYMMETRY Symmetry
INVARIANT CommandMeetsItsDecision
\* A Run ends.
CHECK_DEADLOCK FALSE
