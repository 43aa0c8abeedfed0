\* One POST against one cancel request.
SPECIFICATION Spec
CONSTANTS
  Callers = {c1}
  NoCaller = NoCaller
  Payloads = {p1, p2, bad}
  ValidPayloads = {p1, p2}
  NoPayload = NoPayload
  MaxAttempts = 1
  MaxRestarts = 0
SYMMETRY Symmetry
INVARIANT CancelledBeforeDispatch
\* Every POST ends.
CHECK_DEADLOCK FALSE
