\* Up to two recovery rounds of two contract attempts with two transport
\* attempts each, two crashes or disk errors, every kind of proposal.
SPECIFICATION Spec
CONSTANTS
  Payloads = {malformed, unbound, p1, p2}
  WellFormed = {unbound, p1, p2}
  Bindable = {p1, p2}
  NoPayload = NoPayload
  MaxCalls = 2
  MaxRounds = 2
  MaxFaults = 2
INVARIANTS TypeOK EachRoundIsGranted QueuedIsProposed
PROPERTIES AttachedIsFinal ImplementsUnitWriteback
\* A writeback ends.
CHECK_DEADLOCK FALSE
