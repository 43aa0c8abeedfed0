\* A branch that died behind the line, taken up after its target was started.
SPECIFICATION Spec
CONSTANTS
  c1 = c1
  r1 = r1
  p1 = p1
  p2 = p2
  k1 = k1
  k2 = k2
  Creates = {c1}
  RootOf <- OneRoot
  NumStages = 3
  PlanningStages = {1}
  Original = Original
  Payloads = {p1, p2}
  Keys = {k1, k2}
  Times = {1, 2}
  MaxSuccessors = 2
  MaxAmendments = 2
  None = None
SYMMETRY Symmetry
INVARIANTS ReplayRecovers
CHECK_DEADLOCK FALSE
