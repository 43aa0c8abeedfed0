\* One server process: two executor steps, an amendment applied twice, its
\* branch and a monitoring request, with crashes, disk errors and torn appends.
SPECIFICATION Spec
CONSTANTS
  Steppers = {s1, s2}
  Applies = {a1, a2}
  Branches = {b1}
  Readers = {r1}
  Nothing = Nothing
  GraphEvents = {1}
  OneProcess = TRUE
  TornAppends = TRUE
SYMMETRY Symmetry
INVARIANTS TypeOK RecordIsPaired RecoveryNeverBlocked AmendmentIsKept
PROPERTY ImplementsRunLog
\* Every request ends.
CHECK_DEADLOCK FALSE
