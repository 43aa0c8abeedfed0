\* Three POSTs of one revise turn, two transport attempts, one process restart.
SPECIFICATION Spec
CONSTANTS
  Callers = {c1, c2, c3}
  NoCaller = NoCaller
  Payloads = {p1, p2, bad}
  ValidPayloads = {p1, p2}
  NoPayload = NoPayload
  MaxAttempts = 2
  MaxRestarts = 1
SYMMETRY Symmetry
INVARIANTS TypeOK CompletedHasResult AnswerIsRecorded FlagCoversPatch
PROPERTY ImplementsProviderCall
\* Every POST ends.
CHECK_DEADLOCK FALSE
