------------------------------ MODULE RunBudget ------------------------------
(***************************************************************************)
(* The budget of one Run: Phase32RunBudgetAdmissionService.admit, the      *)
(* claim that needs its admission, and the Provider calls it pays for.     *)
(* Several invocations work on the Run's operations; each begins its       *)
(* receipt, is admitted under the Run's flock, claims the attempt it was   *)
(* admitted for, and calls.  The receipts that an admission adds up are    *)
(* read one file after the other and outside their own locks, so that      *)
(* claims, returns and expiring leases come in between.                    *)
(*                                                                         *)
(* Cost in USD is added up as tokens are and is left out.  A reservation   *)
(* is an upper bound on what one attempt can cost, as _text_reservation    *)
(* computes it from the frozen request.                                    *)
(***************************************************************************)
EXTENDS ProviderReceipt, Sequences, FiniteSets, Functions

CONSTANTS
  Operations,     \* operation keys of the Run
  Reserve,        \* reserved_total_tokens of one attempt of an operation
  MaxTokens,      \* max_total_tokens
  MaxOperations   \* max_operations

(* A Run has a frozen route, and one receipt file for each operation of it. *)
ASSUME OperationsAssumption == IsFiniteSet(Operations)
ASSUME ReserveAssumption == Reserve \in [Operations -> Nat \ {0}]
ASSUME LimitsAssumption == MaxTokens \in Nat /\ MaxOperations \in Nat

VARIABLES
  receipts,   \* the receipt of each operation
  refs,       \* its transport_admission_refs, by the attempt they admit
  usage,      \* the usage it was returned with
  grants,     \* the attempts of each operation that were admitted
  charges,    \* what each attempt really cost
  holder,     \* who holds the Run's flock
  view,       \* the receipts its holder has read
  listed,     \* the receipts its holder has to read
  pc, operation, fence, outcome   \* of each caller

disk    == <<receipts, refs, usage, charges>>
reading == <<holder, view, listed>>
callers == <<pc, operation, fence, outcome>>
vars    == <<disk, grants, reading, callers>>

Unknown == 0

Outcomes == {"none", "answered", "busy", "exhausted", "stale", "denied", "conflict", "failed", "crashed"}

(* What admit reads of an operation.                                       *)
Entries ==
  [status : {"pending", "returned"}, attempts : 0 .. MaxAttempts, leased : BOOLEAN,
   refs : Seq(Attempts), usage : Nat]

Entry(o) ==
  [status |-> receipts[o].status, attempts |-> receipts[o].attempts, leased |-> receipts[o].live,
   refs |-> refs[o], usage |-> usage[o]]

TypeOK ==
  /\ receipts \in [Operations -> Receipts]
  /\ refs \in [Operations -> Seq(Attempts)]
  /\ usage \in [Operations -> Nat]
  /\ charges \in [Operations -> Seq(Nat)]
  /\ \A o \in Operations :
       /\ usage[o] <= Reserve[o]
       /\ Len(charges[o]) = receipts[o].attempts
       /\ \A n \in DOMAIN charges[o] : charges[o][n] \in 1 .. Reserve[o]
  /\ grants \in [Operations -> SUBSET Attempts]
  /\ holder \in Callers \cup {NoCaller}
  /\ DOMAIN view \subseteq listed /\ listed \subseteq Operations
  /\ \A o \in DOMAIN view : view[o] \in Entries
  /\ pc \in [Callers -> {"idle", "admit", "reading", "claim", "calling", "done"}]
  /\ operation \in [Callers -> Operations]
  /\ fence \in [Callers -> 0 .. MaxAttempts]
  /\ outcome \in [Callers -> Outcomes]

Init ==
  /\ receipts = [o \in Operations |-> AbsentReceipt]
  /\ refs = [o \in Operations |-> << >>]
  /\ usage = [o \in Operations |-> Unknown]
  /\ charges = [o \in Operations |-> << >>]
  /\ grants = [o \in Operations |-> {}]
  /\ holder = NoCaller /\ view = << >> /\ listed = {}
  /\ pc = [c \in Callers |-> "idle"]
  /\ operation \in [Callers -> Operations]
  /\ fence = [c \in Callers |-> NoFence]
  /\ outcome = [c \in Callers |-> "none"]

GoTo(c, step) == pc' = [pc EXCEPT ![c] = step] /\ UNCHANGED <<operation, outcome>>
Finish(c, result) ==
  /\ pc' = [pc EXCEPT ![c] = "done"]
  /\ outcome' = [outcome EXCEPT ![c] = result]
  /\ UNCHANGED operation
Leave == holder' = NoCaller /\ view' = << >> /\ listed' = {}

Receipt(c) == receipts[operation[c]]

-----------------------------------------------------------------------------
(* provider_operations.begin; a receipt with a return needs no admission.  *)
Begin(c) ==
  /\ pc[c] = "idle"
  /\ receipts' = [receipts EXCEPT ![operation[c]] = Begun(@)]
  /\ IF receipts'[operation[c]].status = "pending" THEN GoTo(c, "admit") ELSE Finish(c, "answered")
  /\ UNCHANGED <<refs, usage, charges, grants, reading, fence>>

(* transact_admission: the flock, then the list of receipt files.          *)
EnterBudget(c) ==
  /\ pc[c] = "admit"
  /\ holder = NoCaller
  /\ holder' = c
  /\ view' = << >>
  /\ listed' = {o \in Operations : receipts[o].status # "absent"}
  /\ GoTo(c, "reading")
  /\ UNCHANGED <<disk, grants, fence>>

ReadReceipt(c, o) ==
  /\ holder = c
  /\ o \in listed \ DOMAIN view
  /\ view' = [x \in DOMAIN view \cup {o} |-> IF x = o THEN Entry(o) ELSE view[x]]
  /\ UNCHANGED <<disk, grants, holder, listed, callers>>

-----------------------------------------------------------------------------
(* What admit computes from the grants and the receipts it has read.       *)

Granted(o) == Cardinality(grants[o])

(* _admission_map and the two "too many future budget admissions".         *)
Contradictory(o) ==
  \/ grants[o] # 1 .. Granted(o)
  \/ Granted(o) > view[o].attempts + 1

(* The issues of _project_allocation: they deny every other operation.     *)
Disputed(o) ==
  \/ grants[o] = {}
  \/ Granted(o) < view[o].attempts
  \/ view[o].refs # [n \in 1 .. view[o].attempts |-> n]
  \/ view[o].status = "returned" /\ view[o].usage = Unknown

(* An operation whose receipt was begun just before its first admission.   *)
Fresh(o) == grants[o] = {} /\ view[o].status = "pending" /\ view[o].attempts = 0

(* Mutant: a returned operation counts with its last attempt alone.        *)
AllocatedToLast(o) ==
  IF view[o].status = "pending" THEN Reserve[o] * Granted(o) ELSE view[o].usage

(* A pending operation counts with all its reservations, a returned one    *)
(* with those of the failed attempts and the usage of the last; a grant    *)
(* nobody claimed before the return is void.                               *)
Allocated(o) ==
  IF view[o].status = "pending" THEN Reserve[o] * Granted(o)
  ELSE Reserve[o] * (view[o].attempts - 1) + view[o].usage

(* The lease that was read has run out by now, or it may have.             *)
LeaseSeenActive(o) == IF Entry(o) = view[o] THEN {view[o].leased} ELSE {view[o].leased, FALSE}

(* Mutant: an admission that nobody claimed yet is not found again.        *)
DesiredAnew(o, active) ==
  IF view[o].status = "returned" THEN view[o].attempts ELSE Granted(o) + 1

(* _desired_transport_attempt.                                             *)
Desired(o, active) ==
  LET claimed == view[o].attempts
  IN  IF view[o].status = "returned" THEN claimed
      ELSE IF claimed = 0 THEN 1
      ELSE IF Granted(o) = claimed + 1 \/ active THEN Granted(o)
      ELSE claimed + 1

Read(c) == holder = c /\ DOMAIN view = listed

Counted(o) == listed \ (IF Fresh(o) THEN {o} ELSE {})

Fits(o) ==
  /\ Cardinality(Counted(o) \cup {o}) <= MaxOperations
  /\ SumFunction([x \in Counted(o) |-> Allocated(x)]) + Reserve[o] <= MaxTokens

(* Mutant: the attempt limit is left to the claim.                         *)
AdmissibleEver(o, attempt) ==
  /\ view[o].status = "pending"
  /\ \A x \in Counted(o) : ~Disputed(x)
  /\ Fits(o)

Admissible(o, attempt) ==
  /\ view[o].status = "pending"
  /\ \A x \in Counted(o) : ~Disputed(x)
  /\ attempt <= MaxAttempts
  /\ Fits(o)

Admit(c) ==
  LET o == operation[c]
  IN  /\ Read(c)
      /\ ~\E x \in listed : Contradictory(x)
      /\ \E active \in LeaseSeenActive(o) :
           LET attempt == Desired(o, active)
           IN  /\ attempt \in grants[o] \/ Admissible(o, attempt)
               /\ grants' = [grants EXCEPT ![o] = @ \cup {attempt}]
               /\ fence' = [fence EXCEPT ![c] = attempt]
      /\ Leave
      /\ GoTo(c, "claim")
      /\ UNCHANGED disk

Deny(c) ==
  LET o == operation[c]
  IN  /\ Read(c)
      /\ \/ /\ \E x \in listed : Contradictory(x)
            /\ Finish(c, "conflict")
         \/ /\ ~\E x \in listed : Contradictory(x)
            /\ \E active \in LeaseSeenActive(o) :
                 Desired(o, active) \notin grants[o] /\ ~Admissible(o, Desired(o, active))
            /\ Finish(c, "denied")
      /\ Leave
      /\ UNCHANGED <<disk, grants, fence>>

-----------------------------------------------------------------------------
(* claim_pending with an admission fence, and the call.                    *)

(* Mutant: a fence is not compared with the attempt that would be claimed. *)
AnyFence(c) == TRUE

NextFence(c) == fence[c] = Receipt(c).attempts + 1

Claim(c) ==
  /\ pc[c] = "claim"
  /\ Receipt(c).status = "pending" /\ Claimable(Receipt(c), c)
  /\ NextFence(c)
  /\ receipts' = [receipts EXCEPT ![operation[c]] = ClaimedBy(@, c)]
  /\ refs' = [refs EXCEPT ![operation[c]] = Append(@, fence[c])]
  /\ \E cost \in 1 .. Reserve[operation[c]] :
       charges' = [charges EXCEPT ![operation[c]] = Append(@, cost)]
  /\ fence' = [fence EXCEPT ![c] = Receipt(c).attempts + 1]
  /\ GoTo(c, "calling")
  /\ UNCHANGED <<usage, grants, reading>>

ClaimRefused(c) ==
  /\ pc[c] = "claim"
  /\ \/ Receipt(c).status # "pending" /\ Finish(c, "answered")
     \/ /\ Receipt(c).status = "pending" /\ ~Claimable(Receipt(c), c)
        /\ Finish(c, IF LeasedToOther(Receipt(c), c) THEN "busy" ELSE "exhausted")
     \/ /\ Receipt(c).status = "pending" /\ Claimable(Receipt(c), c) /\ ~NextFence(c)
        /\ Finish(c, "stale")
  /\ UNCHANGED <<disk, grants, reading, fence>>

(* record_return, with the usage the Provider reported, if it did.         *)
Answer(c, payload) ==
  LET o == operation[c]
  IN  /\ pc[c] = "calling"
      /\ IF CanReturn(receipts[o], c, fence[c], payload)
           THEN /\ receipts' = [receipts EXCEPT ![o] = Returned(@, c, fence[c], payload)]
                /\ \E reported \in {charges[o][fence[c]], Unknown} :
                     usage' = [usage EXCEPT ![o] = reported]
                /\ Finish(c, "answered")
           ELSE UNCHANGED <<receipts, usage>> /\ Finish(c, "failed")
      /\ UNCHANGED <<refs, charges, grants, reading, fence>>

(* The call raises: release_pending.                                       *)
CallFails(c) ==
  /\ pc[c] = "calling"
  /\ receipts' = IF Receipt(c).status = "pending" /\ CanRelease(Receipt(c), c, fence[c])
                   THEN [receipts EXCEPT ![operation[c]] = Released(@, c, fence[c])]
                   ELSE receipts
  /\ Finish(c, "failed")
  /\ UNCHANGED <<refs, usage, charges, grants, reading, fence>>

Crash(c) ==
  /\ pc[c] \notin {"idle", "done"}
  /\ IF holder = c THEN Leave ELSE UNCHANGED reading
  /\ Finish(c, "crashed")
  /\ UNCHANGED <<disk, grants, fence>>

ExpireLease(o) ==
  /\ receipts[o].live
  /\ receipts' = [receipts EXCEPT ![o] = LeaseExpired(@)]
  /\ UNCHANGED <<refs, usage, charges, grants, reading, callers>>

Next ==
  \/ \E c \in Callers :
       \/ Begin(c) \/ EnterBudget(c) \/ Admit(c) \/ Deny(c)
       \/ Claim(c) \/ ClaimRefused(c) \/ CallFails(c) \/ Crash(c)
       \/ \E o \in Operations : ReadReceipt(c, o)
       \/ \E payload \in Payloads : Answer(c, payload)
  \/ \E o \in Operations : ExpireLease(o)

Spec == Init /\ [][Next]_vars

-----------------------------------------------------------------------------
(* Properties.                                                             *)

Called == {o \in Operations : receipts[o].attempts > 0}

Cost(o) == SumFunction(charges[o])

(* admit: whoever races, dies, retries or answers late, what the Provider  *)
(* charged stays within the authorized tokens and operations.              *)
BudgetHolds ==
  /\ SumFunction([o \in Called |-> Cost(o)]) <= MaxTokens
  /\ Cardinality(Called) <= MaxOperations

(* claim_pending: each call is paid by an admission of its own, made for   *)
(* that very attempt, and at most one admission is outstanding.            *)
EachCallIsAdmitted ==
  \A o \in Operations :
    /\ refs[o] = [n \in 1 .. receipts[o].attempts |-> n]
    /\ \A n \in DOMAIN refs[o] : refs[o][n] \in grants[o]
    /\ Cardinality(grants[o]) <= receipts[o].attempts + 1

(* _admission_map and _project_allocation: although the receipts are read  *)
(* one by one while others change them, the books never contradict         *)
(* themselves.                                                             *)
BooksAgree == \A c \in Callers : outcome[c] # "conflict"
==============================================================================
