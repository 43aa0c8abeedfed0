\* Four racing invocations, three transport attempts, one payload that
\* satisfies the contract and one that does not. No symmetry: a run with a
\* liveness property admits none.
SPECIFICATION FairSpec
CONSTANTS
  Callers = {c1, c2, c3, c4}
  NoCaller = NoCaller
  Payloads = {good, bad}
  ValidPayloads = {good}
  NoPayload = NoPayload
  MaxAttempts = 3
INVARIANTS TypeOK ReceiptReadable CallsAreCharged SingleFlight ReturnIsClaimants ResultsAgree
PROPERTIES LeaseIsExclusive ImplementsProviderCall EveryCallerIsAnswered
\* Every invocation ends.
CHECK_DEADLOCK FALSE
