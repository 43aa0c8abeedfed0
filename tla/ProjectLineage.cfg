\* A project posted under one key, two successors, two amendments in any order
\* and one replay key more than an honest client needs.
SPECIFICATION Spec
CONSTANTS
  c1 = c1
  r1 = r1
  p1 = p1
  p2 = p2
  k1 = k1
  k2 = k2
  Creates = {c1}
  RootOf <- OneRoot
  NumStages = 3
  PlanningStages = {1}
  Original = Original
  Payloads = {p1, p2}
  Keys = {k1, k2}
  Times = {1, 2}
  MaxSuccessors = 2
  MaxAmendments = 2
  None = None
SYMMETRY Symmetry
INVARIANTS TypeOK ReceiptsAreBacked StaleCoversMaterial
PROPERTY ImplementsSuccession
CHECK_DEADLOCK FALSE
