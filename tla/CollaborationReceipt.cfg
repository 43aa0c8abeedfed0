\* Three POSTs whose leases run out while their calls are in flight.
SPECIFICATION Spec
CONSTANTS
  Callers = {c1, c2, c3}
  NoCaller = NoCaller
  Payloads = {p1, p2, bad}
  ValidPayloads = {p1, p2}
  NoPayload = NoPayload
  MaxAttempts = 2
  MaxRestarts = 0
SYMMETRY Symmetry
INVARIANT ReceiptReadable
\* Every POST ends.
CHECK_DEADLOCK FALSE
