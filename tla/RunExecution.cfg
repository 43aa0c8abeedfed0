\* A route with a decided, an automatic and a sequential stage, one redraft a unit
\* decision, two directions, an edit, a repair, and two crashes or failures.
SPECIFICATION Spec
CONSTANTS
  Route <- MCRoute
  Mandatory <- MCMandatory
  Editable = {"text"}
  RedraftLimit <- MCRedraftLimit
  Directions = {d1, d2}
  NoDirection = NoDirection
  NoDraft = NoDraft
  Edits = {e1}
  NoEdit = NoEdit
  RepairIds = {rp1}
  MaxFaults = 2
SYMMETRY Symmetry
INVARIANTS TypeOK OnlyTheAuthorDecides CheckpointLeads PendingIsCurrent DraftsAreBounded CommittedHasOrigin
PROPERTIES ImplementsRoute RepairKeepsRedrafts
\* A Run ends.
CHECK_DEADLOCK FALSE
