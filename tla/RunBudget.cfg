\* Four callers on three operations of which two are allowed, two attempts each, and a token
\* limit that three reserved attempts exceed and cheaper ones do not.
SPECIFICATION Spec
CONSTANTS
  Callers = {c1, c2, c3, c4}
  NoCaller = NoCaller
  Payloads = {p}
  NoPayload = NoPayload
  MaxAttempts = 2
  Operations = {o1, o2, o3}
  Reserve <- TwoEach
  MaxTokens = 6
  MaxOperations = 2
SYMMETRY Symmetry
INVARIANTS TypeOK BudgetHolds EachCallIsAdmitted BooksAgree
\* Every caller ends.
CHECK_DEADLOCK FALSE
