---------------------------- MODULE RunBudgetProofs ----------------------------
(***************************************************************************)
(* Machine-checked proofs about RunBudget, for every set of invocations    *)
(* and operations, every reservation and every limit.                      *)
(***************************************************************************)
EXTENDS RunBudget, FiniteSetTheorems, SequenceTheorems, WellFoundedInduction, TLAPS

(* A receipt that was listed has been begun, and no verdict is recorded in *)
(* this module.                                                            *)
StatusInv ==
  \A o \in Operations :
    /\ receipts[o].status \in {"absent", "pending", "returned"}
    /\ o \in listed => receipts[o].status # "absent"

(* The attempts of an operation are admitted one after the other, at most  *)
(* one ahead of those claimed, each of which names its own admission.      *)
GrantsInv ==
  \A o \in Operations :
    /\ refs[o] = [n \in 1 .. receipts[o].attempts |-> n]
    /\ Granted(o) \in Nat
    /\ grants[o] = 1 .. Granted(o)
    /\ receipts[o].attempts <= Granted(o)
    /\ Granted(o) <= receipts[o].attempts + 1

(* What was read is never ahead of the receipts, and no admission is given *)
(* between the reading and the judgement.                                  *)
ViewInv ==
  \A o \in DOMAIN view :
    /\ view[o].attempts <= receipts[o].attempts
    /\ Granted(o) <= view[o].attempts + 1

(* A caller waits for the books with its receipt begun, finds it in them,  *)
(* claims under an admission that exists, and calls for an attempt that    *)
(* was counted.                                                            *)
CallerInv ==
  \A c \in Callers :
    /\ pc[c] = "admit" => receipts[operation[c]].status # "absent"
    /\ holder = c => operation[c] \in listed
    /\ pc[c] = "claim" => fence[c] \in grants[operation[c]]
    /\ pc[c] = "calling" => fence[c] \in 1 .. receipts[operation[c]].attempts

IInv == TypeOK /\ StatusInv /\ GrantsInv /\ ViewInv /\ CallerInv /\ BooksAgree

-----------------------------------------------------------------------------
(* What the store methods do to the type, the status and the attempts of a *)
(* receipt.                                                                *)
LEMMA BegunReceipt ==
  ASSUME NEW r \in Receipts
  PROVE  /\ Begun(r) \in Receipts
         /\ Begun(r).attempts = r.attempts
         /\ Begun(r).status = IF r.status = "absent" THEN "pending" ELSE r.status
  BY DEF Begun, Receipts, Statuses

LEMMA ClosedLedger ==
  ASSUME NEW ledger \in [Attempts -> LedgerEntries], NEW a, NEW kind \in Terminals, NEW c \in Callers
  PROVE  Closed(ledger, a, kind, c) \in [Attempts -> LedgerEntries]
  BY DEF Closed, LedgerEntries, Terminals

LEMMA ClaimedReceipt ==
  ASSUME NEW r \in Receipts, NEW c \in Callers, r.attempts < MaxAttempts
  PROVE  /\ ClaimedBy(r, c) \in Receipts
         /\ ClaimedBy(r, c).attempts = r.attempts + 1
         /\ ClaimedBy(r, c).status = r.status
<1> DEFINE expired == IF r.owner = NoCaller
                        THEN r.ledger
                        ELSE Closed(r.ledger, r.attempts, "lease_expired", r.owner)
           entry == [claimer |-> c, end |-> "open", closer |-> NoCaller]
<1>1. expired \in [Attempts -> LedgerEntries]
  BY ClosedLedger DEF Receipts, Terminals
<1>2. r.attempts + 1 \in 0 .. MaxAttempts
  BY MaxAttemptsAssumption DEF Receipts
<1>3. [expired EXCEPT ![r.attempts + 1] = entry] \in [Attempts -> LedgerEntries]
  BY <1>1 DEF LedgerEntries
<1>4. ClaimedBy(r, c) = [r EXCEPT !.owner = c, !.live = TRUE, !.attempts = r.attempts + 1,
                                  !.ledger = [expired EXCEPT ![r.attempts + 1] = entry]]
  BY DEF ClaimedBy
<1> HIDE DEF expired, entry
<1> QED
  BY <1>2, <1>3, <1>4 DEF Receipts

LEMMA ReleasedReceipt ==
  ASSUME NEW r \in Receipts, NEW c \in Callers, NEW fence_ \in 0 .. MaxAttempts
  PROVE  /\ Released(r, c, fence_) \in Receipts
         /\ Released(r, c, fence_).attempts = r.attempts
         /\ Released(r, c, fence_).status = r.status
<1>1. Closed(r.ledger, FencedAttempt(r, fence_), "transport_failed", c) \in [Attempts -> LedgerEntries]
  BY ClosedLedger DEF Receipts, Terminals
<1> QED
  BY <1>1 DEF Released, Receipts

LEMMA ReturnedReceipt ==
  ASSUME NEW r \in Receipts, NEW c \in Callers, NEW fence_ \in 0 .. MaxAttempts, NEW p \in Payloads
  PROVE  /\ Returned(r, c, fence_, p) \in Receipts
         /\ Returned(r, c, fence_, p).attempts = r.attempts
         /\ Returned(r, c, fence_, p).status = IF r.status = "pending" THEN "returned" ELSE r.status
<1>1. Closed(r.ledger, FencedAttempt(r, fence_), "provider_returned", c) \in [Attempts -> LedgerEntries]
  BY ClosedLedger DEF Receipts, Terminals
<1> QED
  BY <1>1 DEF Returned, Receipts, Statuses

LEMMA ExpiredReceipt ==
  ASSUME NEW r \in Receipts
  PROVE  /\ LeaseExpired(r) \in Receipts
         /\ LeaseExpired(r).attempts = r.attempts
         /\ LeaseExpired(r).status = r.status
  BY DEF LeaseExpired, Receipts

LEMMA IntervalCardinality ==
  ASSUME NEW k \in Nat
  PROVE  IsFiniteSet(1 .. k) /\ Cardinality(1 .. k) = k
  BY FS_Interval

-----------------------------------------------------------------------------
LEMMA InitIInv == Init => IInv
<1> SUFFICES ASSUME Init PROVE IInv
  OBVIOUS
<1> USE MaxAttemptsAssumption, ReserveAssumption DEF Init
<1>1. AbsentReceipt \in Receipts /\ AbsentReceipt.attempts = 0 /\ AbsentReceipt.status = "absent"
  BY DEF AbsentReceipt, Receipts, Statuses, LedgerEntries, Unclaimed
<1>2. << >> \in Seq(Attempts) /\ << >> \in Seq(Nat) /\ Len(<< >>) = 0 /\ DOMAIN << >> = {}
  OBVIOUS
<1>3. TypeOK
  BY <1>1, <1>2 DEF TypeOK, Unknown, NoFence, Outcomes
<1>4. \A o \in Operations : Granted(o) = 0 /\ grants[o] = 1 .. 0
  BY FS_EmptySet DEF Granted
<1>5. [n \in 1 .. 0 |-> n] = << >>
  OBVIOUS
<1>6. GrantsInv
  BY <1>1, <1>4, <1>5 DEF GrantsInv
<1> QED
  BY <1>1, <1>2, <1>3, <1>6, CallersAssumption DEF IInv, StatusInv, ViewInv, CallerInv, BooksAgree
-----------------------------------------------------------------------------
(* The lemmas about actions first say what an action does to the receipts. *)

Quiet ==
  /\ receipts' \in [Operations -> Receipts]
  /\ \A o \in Operations :
       /\ receipts'[o].attempts = receipts[o].attempts
       /\ receipts'[o].status \in {"absent", "pending", "returned"}
       /\ receipts[o].status # "absent" => receipts'[o].status # "absent"
  /\ UNCHANGED <<refs, charges, grants>>
  /\ UNCHANGED reading \/ Leave

(* A step that counts no attempt and admits none leaves the books alone.   *)
LEMMA QuietStep == ASSUME IInv, Quiet PROVE StatusInv' /\ GrantsInv' /\ ViewInv'
<1> USE DEF IInv, Quiet
<1>1. /\ DOMAIN view \subseteq Operations /\ listed' \subseteq listed
      /\ \A o \in DOMAIN view' : o \in DOMAIN view /\ view'[o] = view[o]
  BY DEF TypeOK, reading, Leave
<1>2. \A o \in Operations : Granted(o)' = Granted(o)
  BY DEF Granted
<1>3. StatusInv'
  BY <1>1 DEF StatusInv
<1>4. GrantsInv'
  BY <1>2 DEF GrantsInv
<1>5. ViewInv'
  BY <1>1, <1>2 DEF ViewInv
<1> QED
  BY <1>3, <1>4, <1>5

(* A caller that ends, or goes on to a step that claims nothing yet.       *)
LEMMA QuietCaller ==
  ASSUME IInv, Quiet, fence' = fence, NEW c \in Callers,
         \/ GoTo(c, "admit") /\ receipts'[operation[c]].status # "absent"
         \/ \E result \in Outcomes \ {"conflict"} : Finish(c, result)
  PROVE  /\ pc' \in [Callers -> {"idle", "admit", "reading", "claim", "calling", "done"}]
         /\ operation' \in [Callers -> Operations]
         /\ outcome' \in [Callers -> Outcomes]
         /\ CallerInv' /\ BooksAgree'
<1>1. /\ operation' = operation
      /\ \A d \in Callers : pc'[d] \in {"claim", "calling"} => pc'[d] = pc[d]
      /\ \A d \in Callers : pc'[d] = "admit" =>
           pc[d] = "admit" \/ receipts'[operation[d]].status # "absent"
      /\ \A d \in Callers : outcome'[d] = "conflict" => outcome[d] = "conflict"
      /\ pc' \in [Callers -> {"idle", "admit", "reading", "claim", "calling", "done"}]
      /\ outcome' \in [Callers -> Outcomes]
  <2>1. /\ pc \in [Callers -> {"idle", "admit", "reading", "claim", "calling", "done"}]
        /\ outcome \in [Callers -> Outcomes]
    BY DEF IInv, TypeOK
  <2>2. CASE GoTo(c, "admit") /\ receipts'[operation[c]].status # "absent"
    BY <2>1, <2>2 DEF GoTo
  <2>3. ASSUME NEW result \in Outcomes \ {"conflict"}, Finish(c, result)
        PROVE  /\ operation' = operation
               /\ \A d \in Callers : pc'[d] \in {"admit", "claim", "calling"} => pc'[d] = pc[d]
               /\ \A d \in Callers : outcome'[d] = "conflict" => outcome[d] = "conflict"
               /\ pc' \in [Callers -> {"idle", "admit", "reading", "claim", "calling", "done"}]
               /\ outcome' \in [Callers -> Outcomes]
    BY <2>1, <2>3 DEF Finish
  <2> QED
    BY <2>2, <2>3
<1>2. \A d \in Callers : holder' = d => operation[d] \in listed'
  BY CallersAssumption DEF IInv, Quiet, CallerInv, reading, Leave
<1>3. CallerInv'
  BY <1>1, <1>2 DEF IInv, Quiet, CallerInv, TypeOK
<1> QED
  BY <1>1, <1>3 DEF IInv, TypeOK, BooksAgree

LEMMA QuietTypes ==
  ASSUME IInv, Quiet, usage' \in [Operations -> Nat], \A o \in Operations : usage'[o] <= Reserve[o],
         fence' = fence,
         pc' \in [Callers -> {"idle", "admit", "reading", "claim", "calling", "done"}],
         operation' \in [Callers -> Operations],
         outcome' \in [Callers -> Outcomes]
  PROVE  TypeOK'
<1>1. /\ holder' \in Callers \cup {NoCaller}
      /\ DOMAIN view' \subseteq listed' /\ listed' \subseteq Operations
      /\ \A o \in DOMAIN view' : view'[o] \in Entries
  BY DEF Quiet, IInv, TypeOK, reading, Leave
<1> QED
  BY <1>1 DEF Quiet, IInv, TypeOK

LEMMA QuietIInv ==
  ASSUME IInv, Quiet, usage' \in [Operations -> Nat], \A o \in Operations : usage'[o] <= Reserve[o],
         fence' = fence, NEW c \in Callers,
         \/ GoTo(c, "admit") /\ receipts'[operation[c]].status # "absent"
         \/ \E result \in Outcomes \ {"conflict"} : Finish(c, result)
  PROVE  IInv'
<1>1. /\ pc' \in [Callers -> {"idle", "admit", "reading", "claim", "calling", "done"}]
      /\ operation' \in [Callers -> Operations]
      /\ outcome' \in [Callers -> Outcomes]
      /\ CallerInv' /\ BooksAgree'
  BY QuietCaller
<1>2. TypeOK'
  BY <1>1, QuietTypes
<1>3. StatusInv' /\ GrantsInv' /\ ViewInv'
  BY QuietStep
<1> QED
  BY <1>1, <1>2, <1>3 DEF IInv

-----------------------------------------------------------------------------
(* One lemma for each action.                                              *)

LEMMA BeginIInv == ASSUME IInv, NEW c \in Callers, Begin(c) PROVE IInv'
<1> DEFINE o == operation[c]
<1>1. o \in Operations /\ receipts[o] \in Receipts
  BY DEF IInv, TypeOK
<1>2. receipts' = [receipts EXCEPT ![o] = Begun(receipts[o])]
  BY DEF Begin
<1>3. Quiet
  <2>1. receipts' \in [Operations -> Receipts]
    BY <1>1, <1>2, BegunReceipt DEF IInv, TypeOK
  <2>2. receipts'[o] = Begun(receipts[o]) /\ \A x \in Operations \ {o} : receipts'[x] = receipts[x]
    BY <1>1, <1>2 DEF IInv, TypeOK
  <2>3. UNCHANGED <<refs, charges, grants, reading>>
    BY DEF Begin
  <2> QED
    BY <1>1, <2>1, <2>2, <2>3, BegunReceipt DEF IInv, StatusInv, Quiet
<1>4. usage' = usage /\ fence' = fence
  BY DEF Begin
<1>5. \/ GoTo(c, "admit") /\ receipts'[operation[c]].status # "absent"
      \/ Finish(c, "answered")
  BY DEF Begin
<1>6. usage' \in [Operations -> Nat] /\ \A x \in Operations : usage'[x] <= Reserve[x]
  BY <1>4 DEF IInv, TypeOK
<1> QED
  BY <1>3, <1>4, <1>5, <1>6, QuietIInv DEF Outcomes

LEMMA EnterBudgetIInv == ASSUME IInv, NEW c \in Callers, EnterBudget(c) PROVE IInv'
<1> USE DEF IInv, EnterBudget, disk
<1>1. DOMAIN view' = {} /\ listed' = {o \in Operations : receipts[o].status # "absent"}
  OBVIOUS
<1>2. \A o \in Operations : Granted(o)' = Granted(o)
  BY DEF Granted
<1>3. TypeOK'
  BY <1>1 DEF TypeOK, GoTo
<1>4. StatusInv' /\ ViewInv'
  BY <1>1 DEF StatusInv, ViewInv
<1>5. GrantsInv'
  BY <1>2 DEF GrantsInv
<1>6. CallerInv'
  <2>1. operation[c] \in listed'
    BY <1>1 DEF CallerInv, TypeOK
  <2>2. \A d \in Callers : pc'[d] \in {"admit", "claim", "calling"} => pc'[d] = pc[d]
    BY DEF GoTo, TypeOK
  <2>3. UNCHANGED <<receipts, grants, operation, fence>> /\ holder' = c /\ CallerInv
    BY DEF GoTo
  <2> QED
    BY ONLY <2>1, <2>2, <2>3 DEF CallerInv
<1>7. BooksAgree'
  BY DEF BooksAgree, GoTo
<1> QED
  BY <1>3, <1>4, <1>5, <1>6, <1>7

LEMMA EntryType == ASSUME IInv, NEW o \in listed PROVE Entry(o) \in Entries
  BY DEF IInv, TypeOK, StatusInv, Entry, Entries, Receipts

LEMMA ReadReceiptIInv ==
  ASSUME IInv, NEW c \in Callers, NEW o \in Operations, ReadReceipt(c, o)
  PROVE  IInv'
<1> USE DEF IInv, ReadReceipt, disk, callers
<1>1. /\ DOMAIN view' = DOMAIN view \cup {o}
      /\ view'[o] = Entry(o)
      /\ \A x \in DOMAIN view \ {o} : view'[x] = view[x]
  OBVIOUS
<1>2. \A x \in Operations : Granted(x)' = Granted(x)
  BY DEF Granted
<1>3. TypeOK'
  BY <1>1, EntryType DEF TypeOK
<1>4. StatusInv' /\ CallerInv' /\ BooksAgree'
  BY DEF StatusInv, CallerInv, BooksAgree
<1>5. GrantsInv'
  BY <1>2 DEF GrantsInv
<1>6. ViewInv'
  <2>1. Granted(o) <= receipts[o].attempts + 1 /\ receipts[o].attempts \in Nat
    BY DEF GrantsInv, TypeOK, Receipts
  <2>2. \A x \in DOMAIN view : x \in Operations
    BY DEF TypeOK
  <2> QED
    BY <1>1, <1>2, <2>1, <2>2 DEF ViewInv, Entry
<1> QED
  BY <1>3, <1>4, <1>5, <1>6

(* What is admitted has been admitted before, or is the one attempt that   *)
(* may follow those that were claimed.                                     *)
LEMMA AdmitsNext ==
  ASSUME IInv, NEW c \in Callers, Read(c), NEW active \in BOOLEAN,
         ~\E x \in listed : Contradictory(x),
         \/ Desired(operation[c], active) \in grants[operation[c]]
         \/ Admissible(operation[c], Desired(operation[c], active))
  PROVE  LET o == operation[c]
             attempt == Desired(o, active)
         IN  /\ attempt \in Attempts
             /\ \/ attempt \in grants[o]
                \/ attempt = Granted(o) + 1 /\ Granted(o) = receipts[o].attempts
<1> DEFINE o == operation[c]
           attempt == Desired(o, active)
<1>1. o \in Operations /\ o \in DOMAIN view /\ view[o] \in Entries /\ receipts[o] \in Receipts
  BY DEF IInv, TypeOK, CallerInv, Read
<1>2. /\ view[o].attempts \in Nat /\ receipts[o].attempts \in Nat /\ Granted(o) \in Nat
      /\ view[o].attempts <= receipts[o].attempts
      /\ receipts[o].attempts <= Granted(o)
      /\ Granted(o) <= view[o].attempts + 1
      /\ grants[o] = 1 .. Granted(o)
      /\ view[o].status \in {"pending", "returned"}
  <2>1. view[o].attempts \in Nat /\ view[o].status \in {"pending", "returned"}
    BY <1>1, MaxAttemptsAssumption DEF Entries
  <2>2. receipts[o].attempts \in Nat
    BY <1>1, MaxAttemptsAssumption DEF Receipts
  <2>3. /\ Granted(o) \in Nat /\ grants[o] = 1 .. Granted(o)
        /\ receipts[o].attempts <= Granted(o)
    BY <1>1 DEF IInv, GrantsInv
  <2>4. view[o].attempts <= receipts[o].attempts /\ Granted(o) <= view[o].attempts + 1
    BY <1>1 DEF IInv, ViewInv
  <2> QED
    BY <2>1, <2>2, <2>3, <2>4
<1>3. CASE attempt \in grants[o]
  BY <1>1, <1>3 DEF IInv, TypeOK
<1>4. CASE attempt \notin grants[o]
  <2>1. view[o].status = "pending" /\ attempt <= MaxAttempts
    BY <1>4 DEF Admissible
  <2>2. CASE view[o].attempts = 0
    <3>1. attempt = 1
      BY <2>1, <2>2 DEF Desired
    <3> QED
      BY <1>2, <1>4, <2>1, <2>2, <3>1, MaxAttemptsAssumption DEF Attempts
  <2>3. CASE view[o].attempts # 0
    <3>1. attempt = Granted(o) \/ (Granted(o) # view[o].attempts + 1 /\ attempt = view[o].attempts + 1)
      BY <2>1, <2>3 DEF Desired
    <3> HIDE DEF attempt
    <3>2. attempt # Granted(o)
      BY <1>2, <1>4, <2>3
    <3>3. attempt = Granted(o) + 1 /\ Granted(o) = receipts[o].attempts
      BY <1>2, <3>1, <3>2
    <3> QED
      BY <1>2, <2>1, <3>3, MaxAttemptsAssumption DEF Attempts, attempt
  <2> QED
    BY <2>2, <2>3
<1> QED
  BY <1>3, <1>4

LEMMA AdmitIInv == ASSUME IInv, NEW c \in Callers, Admit(c) PROVE IInv'
<1> DEFINE o == operation[c]
<1>1. PICK attempt \in Attempts :
        /\ grants' = [grants EXCEPT ![o] = grants[o] \cup {attempt}]
        /\ fence' = [fence EXCEPT ![c] = attempt]
        /\ \/ attempt \in grants[o]
           \/ attempt = Granted(o) + 1 /\ Granted(o) = receipts[o].attempts
  <2>1. PICK active \in LeaseSeenActive(o) :
          /\ Desired(o, active) \in grants[o] \/ Admissible(o, Desired(o, active))
          /\ grants' = [grants EXCEPT ![o] = grants[o] \cup {Desired(o, active)}]
          /\ fence' = [fence EXCEPT ![c] = Desired(o, active)]
    BY DEF Admit
  <2>2. Read(c) /\ ~\E x \in listed : Contradictory(x)
    BY DEF Admit
  <2>3. view[o] \in Entries
    BY <2>2 DEF IInv, TypeOK, CallerInv, Read
  <2>4. active \in BOOLEAN
    BY <2>1, <2>3 DEF LeaseSeenActive, Entries
  <2>5. /\ Desired(o, active) \in Attempts
        /\ \/ Desired(o, active) \in grants[o]
           \/ Desired(o, active) = Granted(o) + 1 /\ Granted(o) = receipts[o].attempts
    BY <2>1, <2>2, <2>4, AdmitsNext
  <2> QED
    BY <2>1, <2>5
<1>2. o \in Operations /\ grants'[o] = grants[o] \cup {attempt}
      /\ \A x \in Operations \ {o} : grants'[x] = grants[x]
  BY <1>1 DEF IInv, TypeOK
<1>3. UNCHANGED <<receipts, refs, usage, charges>> /\ holder' = NoCaller /\ DOMAIN view' = {} /\ listed' = {}
  BY DEF Admit, Leave, disk
<1>4. /\ UNCHANGED <<operation, outcome>> /\ fence'[c] = attempt
      /\ \A d \in Callers \ {c} : pc'[d] = pc[d] /\ fence'[d] = fence[d]
      /\ pc'[c] = "claim"
      /\ pc' \in [Callers -> {"idle", "admit", "reading", "claim", "calling", "done"}]
  BY <1>1 DEF IInv, TypeOK, Admit, GoTo
<1>5. TypeOK'
  <2>1. fence' \in [Callers -> 0 .. MaxAttempts] /\ grants' \in [Operations -> SUBSET Attempts]
    BY <1>1, MaxAttemptsAssumption DEF IInv, TypeOK, Attempts
  <2> QED
    BY <2>1, <1>3, <1>4 DEF IInv, TypeOK
<1>6. StatusInv' /\ ViewInv'
  BY <1>3 DEF IInv, StatusInv, ViewInv
<1>7. GrantsInv'
  <2>1. /\ Granted(o) \in Nat /\ grants[o] = 1 .. Granted(o)
        /\ receipts[o].attempts \in Nat
        /\ receipts[o].attempts <= Granted(o) /\ Granted(o) <= receipts[o].attempts + 1
    BY <1>2 DEF IInv, GrantsInv, TypeOK, Receipts
  <2>2. PICK k \in Nat :
          /\ grants'[o] = 1 .. k
          /\ receipts[o].attempts <= k /\ k <= receipts[o].attempts + 1
    <3>1. CASE attempt \in grants[o]
      BY <1>2, <2>1, <3>1
    <3>2. CASE attempt = Granted(o) + 1 /\ Granted(o) = receipts[o].attempts
      <4>1. grants'[o] = 1 .. (Granted(o) + 1)
        BY <1>2, <2>1, <3>2
      <4> QED
        BY <2>1, <3>2, <4>1
    <3> QED
      BY <1>1, <3>1, <3>2
  <2>3. Cardinality(grants'[o]) = k
    BY <2>2, IntervalCardinality
  <2>4. ASSUME NEW x \in Operations, x # o
        PROVE  grants'[x] = grants[x]
    BY <1>2, <2>4
  <2> QED
    BY <1>2, <1>3, <2>2, <2>3, <2>4 DEF IInv, GrantsInv, Granted
<1>8. CallerInv'
  BY <1>2, <1>3, <1>4, CallersAssumption DEF IInv, CallerInv, TypeOK
<1>9. BooksAgree'
  BY <1>4 DEF IInv, BooksAgree
<1> QED
  BY <1>5, <1>6, <1>7, <1>8, <1>9 DEF IInv

LEMMA DenyIInv == ASSUME IInv, NEW c \in Callers, Deny(c) PROVE IInv'
<1>1. ~\E x \in listed : Contradictory(x)
  <2> SUFFICES ASSUME NEW x \in listed, Contradictory(x) PROVE FALSE
    OBVIOUS
  <2>1. x \in Operations /\ x \in DOMAIN view
    BY DEF Deny, Read, IInv, TypeOK
  <2>2. grants[x] = 1 .. Granted(x)
    BY <2>1 DEF IInv, GrantsInv
  <2>3. Granted(x) \in Nat /\ Granted(x) <= view[x].attempts + 1
    BY <2>1 DEF IInv, GrantsInv, ViewInv
  <2>4. view[x].attempts \in Nat
    BY <2>1, MaxAttemptsAssumption DEF IInv, TypeOK, Entries
  <2> HIDE DEF Granted
  <2> QED
    BY <2>2, <2>3, <2>4 DEF Contradictory
<1>2. Finish(c, "denied")
  BY <1>1 DEF Deny
<1>3. UNCHANGED <<receipts, refs, usage, charges, grants, fence>> /\ Leave
  BY DEF Deny, disk
<1>4. Quiet
  BY <1>3 DEF IInv, TypeOK, StatusInv, Quiet
<1>5. usage' \in [Operations -> Nat] /\ \A x \in Operations : usage'[x] <= Reserve[x]
  BY <1>3 DEF IInv, TypeOK
<1> QED
  BY <1>2, <1>3, <1>4, <1>5, QuietIInv DEF Outcomes

LEMMA ClaimRefusedIInv == ASSUME IInv, NEW c \in Callers, ClaimRefused(c) PROVE IInv'
<1>1. UNCHANGED <<receipts, refs, usage, charges, grants, reading, fence>>
  BY DEF ClaimRefused, disk
<1>2. \E result \in Outcomes \ {"conflict"} : Finish(c, result)
  BY DEF ClaimRefused, Outcomes
<1>3. Quiet
  BY <1>1 DEF IInv, TypeOK, StatusInv, Quiet
<1>4. usage' \in [Operations -> Nat] /\ \A x \in Operations : usage'[x] <= Reserve[x]
  BY <1>1 DEF IInv, TypeOK
<1> QED
  BY <1>1, <1>2, <1>3, <1>4, QuietIInv

LEMMA CallFailsIInv == ASSUME IInv, NEW c \in Callers, CallFails(c) PROVE IInv'
<1> DEFINE o == operation[c]
<1>1. o \in Operations /\ receipts[o] \in Receipts /\ fence[c] \in 0 .. MaxAttempts
  BY DEF IInv, TypeOK
<1>2. /\ UNCHANGED <<refs, usage, charges, grants, reading, fence>>
      /\ Finish(c, "failed")
      /\ receipts' = receipts \/ receipts' = [receipts EXCEPT ![o] = Released(receipts[o], c, fence[c])]
  BY DEF CallFails, Receipt
<1>3. Quiet
  <2>1. CASE receipts' = receipts
    BY <1>2, <2>1 DEF IInv, TypeOK, StatusInv, Quiet
  <2>2. CASE receipts' = [receipts EXCEPT ![o] = Released(receipts[o], c, fence[c])]
    <3>1. /\ Released(receipts[o], c, fence[c]) \in Receipts
          /\ Released(receipts[o], c, fence[c]).attempts = receipts[o].attempts
          /\ Released(receipts[o], c, fence[c]).status = receipts[o].status
      BY <1>1, ReleasedReceipt
    <3>2. receipts' \in [Operations -> Receipts]
      BY <1>1, <2>2, <3>1 DEF IInv, TypeOK
    <3>3. \A x \in Operations : receipts'[x].attempts = receipts[x].attempts
                                 /\ receipts'[x].status = receipts[x].status
      BY <1>1, <2>2, <3>1 DEF IInv, TypeOK
    <3> QED
      BY <1>2, <3>2, <3>3 DEF IInv, StatusInv, Quiet
  <2> QED
    BY <1>2, <2>1, <2>2
<1>4. usage' \in [Operations -> Nat] /\ \A x \in Operations : usage'[x] <= Reserve[x]
  BY <1>2 DEF IInv, TypeOK
<1> QED
  BY <1>2, <1>3, <1>4, QuietIInv DEF Outcomes

LEMMA AnswerIInv ==
  ASSUME IInv, NEW c \in Callers, NEW payload \in Payloads, Answer(c, payload) PROVE IInv'
<1> DEFINE o == operation[c]
           answered == Returned(receipts[o], c, fence[c], payload)
<1>1. o \in Operations /\ receipts[o] \in Receipts /\ fence[c] \in 0 .. MaxAttempts
  BY DEF IInv, TypeOK
<1>2. /\ UNCHANGED <<refs, charges, grants, reading, fence>>
      /\ Finish(c, "answered") \/ Finish(c, "failed")
      /\ receipts' = receipts \/ receipts' = [receipts EXCEPT ![o] = answered]
      /\ \/ usage' = usage
         \/ \E reported \in {charges[o][fence[c]], Unknown} : usage' = [usage EXCEPT ![o] = reported]
  BY DEF Answer
<1>3. Quiet
  <2>1. CASE receipts' = receipts
    BY <1>2, <2>1 DEF IInv, TypeOK, StatusInv, Quiet
  <2>2. CASE receipts' = [receipts EXCEPT ![o] = answered]
    <3>1. /\ answered \in Receipts
          /\ answered.attempts = receipts[o].attempts
          /\ answered.status = IF receipts[o].status = "pending" THEN "returned" ELSE receipts[o].status
      BY <1>1, ReturnedReceipt
    <3> HIDE DEF answered
    <3>2. receipts' \in [Operations -> Receipts]
      BY <1>1, <2>2, <3>1 DEF IInv, TypeOK
    <3>3. /\ receipts'[o] = answered
          /\ \A x \in Operations \ {o} : receipts'[x] = receipts[x]
      BY <1>1, <2>2 DEF IInv, TypeOK
    <3> QED
      BY <1>1, <1>2, <3>1, <3>2, <3>3 DEF IInv, StatusInv, Quiet
  <2> QED
    BY <1>2, <2>1, <2>2
<1>4. usage' \in [Operations -> Nat] /\ \A x \in Operations : usage'[x] <= Reserve[x]
  <2>1. CASE usage' = usage
    BY <2>1 DEF IInv, TypeOK
  <2>2. ASSUME NEW reported \in {charges[o][fence[c]], Unknown}, usage' = [usage EXCEPT ![o] = reported]
        PROVE  usage' \in [Operations -> Nat] /\ \A x \in Operations : usage'[x] <= Reserve[x]
    <3>1. fence[c] \in 1 .. receipts[o].attempts
      BY DEF IInv, CallerInv, Answer
    <3>2. /\ charges[o] \in Seq(Nat) /\ Len(charges[o]) = receipts[o].attempts
          /\ \A n \in DOMAIN charges[o] : charges[o][n] \in 1 .. Reserve[o]
          /\ Reserve[o] \in Nat
      BY <1>1, ReserveAssumption DEF IInv, TypeOK
    <3>3. DOMAIN charges[o] = 1 .. receipts[o].attempts
      BY <3>2
    <3>4. reported \in Nat /\ reported <= Reserve[o]
      BY <2>2, <3>1, <3>2, <3>3 DEF Unknown
    <3> QED
      BY <1>1, <2>2, <3>4 DEF IInv, TypeOK
  <2> QED
    BY <1>2, <2>1, <2>2
<1>5. fence' = fence
  BY <1>2
<1> QED
  BY <1>2, <1>3, <1>4, <1>5, QuietIInv DEF Outcomes

LEMMA CrashIInv == ASSUME IInv, NEW c \in Callers, Crash(c) PROVE IInv'
<1>1. UNCHANGED <<receipts, refs, usage, charges, grants, fence>> /\ (UNCHANGED reading \/ Leave)
  BY DEF Crash, disk
<1>2. Finish(c, "crashed")
  BY DEF Crash
<1>3. Quiet
  BY <1>1 DEF IInv, TypeOK, StatusInv, Quiet
<1>4. usage' \in [Operations -> Nat] /\ \A x \in Operations : usage'[x] <= Reserve[x]
  BY <1>1 DEF IInv, TypeOK
<1> QED
  BY <1>1, <1>2, <1>3, <1>4, QuietIInv DEF Outcomes

LEMMA ExpireLeaseIInv == ASSUME IInv, NEW o \in Operations, ExpireLease(o) PROVE IInv'
<1>1. /\ UNCHANGED <<refs, usage, charges, grants, reading>> /\ UNCHANGED callers
      /\ receipts' = [receipts EXCEPT ![o] = LeaseExpired(receipts[o])]
  BY DEF ExpireLease
<1>2. /\ LeaseExpired(receipts[o]) \in Receipts
      /\ LeaseExpired(receipts[o]).attempts = receipts[o].attempts
      /\ LeaseExpired(receipts[o]).status = receipts[o].status
  <2>1. receipts[o] \in Receipts
    BY DEF IInv, TypeOK
  <2> QED
    BY <2>1, ExpiredReceipt
<1>3. /\ receipts' \in [Operations -> Receipts]
      /\ \A x \in Operations : receipts'[x].attempts = receipts[x].attempts
                                /\ receipts'[x].status = receipts[x].status
  BY <1>1, <1>2 DEF IInv, TypeOK
<1>4. Quiet
  BY <1>1, <1>3 DEF IInv, StatusInv, Quiet
<1>5. StatusInv' /\ GrantsInv' /\ ViewInv'
  BY <1>4, QuietStep
<1>6. TypeOK'
  BY <1>1, <1>3 DEF IInv, TypeOK, reading, callers
<1>7. CallerInv'
  BY <1>1, <1>3 DEF IInv, TypeOK, CallerInv, reading, callers
<1>8. BooksAgree'
  BY <1>1 DEF IInv, BooksAgree, callers
<1> QED
  BY <1>5, <1>6, <1>7, <1>8 DEF IInv

(* The attempt that was admitted is counted, charged and referenced.       *)
LEMMA ClaimIInv == ASSUME IInv, NEW c \in Callers, Claim(c) PROVE IInv'
<1> DEFINE o == operation[c]
           k == receipts[o].attempts
<1>1. /\ o \in Operations /\ receipts[o] \in Receipts /\ k \in Nat
      /\ refs[o] = [n \in 1 .. k |-> n] /\ refs[o] \in Seq(Attempts)
      /\ charges[o] \in Seq(Nat) /\ Len(charges[o]) = k
      /\ \A n \in DOMAIN charges[o] : charges[o][n] \in 1 .. Reserve[o]
      /\ Reserve[o] \in Nat \ {0}
  <2>1. o \in Operations /\ receipts[o] \in Receipts /\ refs[o] \in Seq(Attempts)
    BY DEF IInv, TypeOK
  <2>2. k \in Nat
    BY <2>1, MaxAttemptsAssumption DEF Receipts
  <2>3. refs[o] = [n \in 1 .. k |-> n]
    BY <2>1 DEF IInv, GrantsInv
  <2>4. /\ charges[o] \in Seq(Nat) /\ Len(charges[o]) = k
        /\ \A n \in DOMAIN charges[o] : charges[o][n] \in 1 .. Reserve[o]
    BY <2>1 DEF IInv, TypeOK
  <2> QED
    BY <2>1, <2>2, <2>3, <2>4, ReserveAssumption
<1>2. fence[c] = k + 1 /\ k < MaxAttempts /\ fence[c] \in grants[o]
  BY DEF IInv, CallerInv, Claim, NextFence, Claimable, Receipt
<1>3. PICK cost \in 1 .. Reserve[o] : charges' = [charges EXCEPT ![o] = Append(charges[o], cost)]
  BY DEF Claim
<1>4. /\ receipts' = [receipts EXCEPT ![o] = ClaimedBy(receipts[o], c)]
      /\ refs' = [refs EXCEPT ![o] = Append(refs[o], k + 1)]
      /\ fence' = [fence EXCEPT ![c] = k + 1]
      /\ GoTo(c, "calling")
      /\ UNCHANGED <<usage, grants, reading>>
  BY <1>2 DEF Claim, Receipt
<1>5. /\ ClaimedBy(receipts[o], c) \in Receipts
      /\ ClaimedBy(receipts[o], c).attempts = k + 1
      /\ ClaimedBy(receipts[o], c).status = receipts[o].status
  BY <1>1, <1>2, ClaimedReceipt
<1>6. /\ receipts' \in [Operations -> Receipts]
      /\ receipts'[o].attempts = k + 1 /\ receipts'[o].status = receipts[o].status
      /\ \A x \in Operations \ {o} : receipts'[x] = receipts[x]
  BY <1>1, <1>4, <1>5 DEF IInv, TypeOK
<1>7. /\ refs'[o] = [n \in 1 .. k + 1 |-> n]
      /\ refs' \in [Operations -> Seq(Attempts)]
      /\ \A x \in Operations \ {o} : refs'[x] = refs[x]
  <2>1. k + 1 \in Attempts
    BY <1>1, <1>2, MaxAttemptsAssumption DEF Attempts
  <2>2. Append(refs[o], k + 1) \in Seq(Attempts)
    BY <1>1, <2>1
  <2>3. Append(refs[o], k + 1) = [n \in 1 .. k + 1 |-> n]
    <3>1. Len(refs[o]) = k /\ \A n \in 1 .. k : refs[o][n] = n
      BY <1>1
    <3>2. /\ Len(Append(refs[o], k + 1)) = k + 1
          /\ \A n \in 1 .. k + 1 : Append(refs[o], k + 1)[n] = n
      BY <1>1, <2>1, <3>1, AppendProperties
    <3>3. Append(refs[o], k + 1) = [n \in 1 .. Len(Append(refs[o], k + 1)) |-> Append(refs[o], k + 1)[n]]
      BY <2>2
    <3> QED
      BY <3>2, <3>3
  <2> QED
    BY <1>1, <1>4, <2>2, <2>3 DEF IInv, TypeOK
<1>8. /\ charges' \in [Operations -> Seq(Nat)]
      /\ Len(charges'[o]) = k + 1
      /\ \A n \in DOMAIN charges'[o] : charges'[o][n] \in 1 .. Reserve[o]
      /\ \A x \in Operations \ {o} : charges'[x] = charges[x]
  <2>1. /\ Append(charges[o], cost) \in Seq(Nat) /\ Len(Append(charges[o], cost)) = k + 1
        /\ \A n \in 1 .. k + 1 : Append(charges[o], cost)[n] = IF n <= k THEN charges[o][n] ELSE cost
    <3>1. cost \in Nat
      BY <1>1
    <3> HIDE DEF k
    <3> QED
      BY <1>1, <3>1, AppendProperties
  <2>2. \A n \in 1 .. k + 1 : Append(charges[o], cost)[n] \in 1 .. Reserve[o]
    BY <1>1, <2>1
  <2>3. DOMAIN Append(charges[o], cost) = 1 .. k + 1
    BY <2>1
  <2>4. charges'[o] = Append(charges[o], cost)
    BY <1>1, <1>3 DEF IInv, TypeOK
  <2> QED
    BY <1>1, <1>3, <2>1, <2>2, <2>3, <2>4 DEF IInv, TypeOK
<1>9. /\ UNCHANGED <<operation, outcome>> /\ fence'[c] = k + 1 /\ pc'[c] = "calling"
      /\ \A d \in Callers \ {c} : pc'[d] = pc[d] /\ fence'[d] = fence[d]
      /\ pc' \in [Callers -> {"idle", "admit", "reading", "claim", "calling", "done"}]
      /\ fence' \in [Callers -> 0 .. MaxAttempts]
  BY <1>1, <1>2, <1>4, MaxAttemptsAssumption DEF IInv, TypeOK, GoTo
<1>10. UNCHANGED <<usage, grants, holder, view, listed>>
  BY <1>4 DEF reading
<1> HIDE DEF k
<1>11. TypeOK'
  <2>1. \A x \in Operations :
          /\ usage'[x] <= Reserve[x]
          /\ Len(charges'[x]) = receipts'[x].attempts
          /\ \A n \in DOMAIN charges'[x] : charges'[x][n] \in 1 .. Reserve[x]
    BY <1>6, <1>8, <1>10 DEF IInv, TypeOK
  <2> QED
    BY <2>1, <1>6, <1>7, <1>8, <1>9, <1>10 DEF IInv, TypeOK
<1>12. StatusInv'
  BY <1>6, <1>10 DEF IInv, StatusInv
<1>13. /\ Granted(o) \in Nat /\ grants[o] = 1 .. Granted(o)
       /\ k + 1 <= Granted(o) /\ Granted(o) <= k + 1
  <2>1. Granted(o) \in Nat /\ grants[o] = 1 .. Granted(o) /\ Granted(o) <= k + 1
    BY <1>1 DEF IInv, GrantsInv, k
  <2> HIDE DEF Granted
  <2> QED
    BY <1>1, <1>2, <2>1
<1>14. GrantsInv'
  <2>1. \A x \in Operations : Granted(x)' = Granted(x)
    BY <1>10 DEF Granted
  <2>2. ASSUME NEW x \in Operations
        PROVE  /\ refs'[x] = [n \in 1 .. receipts'[x].attempts |-> n]
               /\ Granted(x) \in Nat
               /\ grants[x] = 1 .. Granted(x)
               /\ receipts'[x].attempts <= Granted(x)
               /\ Granted(x) <= receipts'[x].attempts + 1
    <3>1. CASE x = o
      <4> HIDE DEF Granted
      <4> QED
        BY <1>1, <1>6, <1>7, <1>13, <3>1
    <3>2. CASE x # o
      BY <1>6, <1>7, <2>2, <3>2 DEF IInv, GrantsInv
    <3> QED
      BY <3>1, <3>2
  <2> QED
    BY <1>10, <2>1, <2>2 DEF GrantsInv
<1>15. ViewInv'
  <2>1. \A x \in Operations : Granted(x)' = Granted(x)
    BY <1>10 DEF Granted
  <2>2. ASSUME NEW x \in DOMAIN view
        PROVE  view[x].attempts <= receipts'[x].attempts /\ Granted(x) <= view[x].attempts + 1
    <3>1. x \in Operations /\ view[x].attempts \in Nat
      BY MaxAttemptsAssumption DEF IInv, TypeOK, Entries
    <3>2. view[x].attempts <= receipts[x].attempts /\ Granted(x) <= view[x].attempts + 1
      BY DEF IInv, ViewInv
    <3> HIDE DEF Granted
    <3>3. CASE x = o
      BY <1>1, <1>6, <3>1, <3>2, <3>3 DEF k
    <3>4. CASE x # o
      BY <1>6, <3>1, <3>2, <3>4
    <3> QED
      BY <3>3, <3>4
  <2>3. \A x \in DOMAIN view : x \in Operations
    BY DEF IInv, TypeOK
  <2> QED
    BY <1>10, <2>1, <2>2, <2>3 DEF ViewInv
<1>16. CallerInv'
  <2> SUFFICES ASSUME NEW d \in Callers
               PROVE  /\ pc'[d] = "admit" => receipts'[operation[d]].status # "absent"
                      /\ holder = d => operation[d] \in listed
                      /\ pc'[d] = "claim" => fence'[d] \in grants[operation[d]]
                      /\ pc'[d] = "calling" => fence'[d] \in 1 .. receipts'[operation[d]].attempts
    BY <1>9, <1>10 DEF CallerInv
  <2>1. /\ pc[d] = "admit" => receipts[operation[d]].status # "absent"
        /\ holder = d => operation[d] \in listed
        /\ pc[d] = "claim" => fence[d] \in grants[operation[d]]
        /\ pc[d] = "calling" => fence[d] \in 1 .. receipts[operation[d]].attempts
    BY DEF IInv, CallerInv
  <2>2. operation[d] \in Operations /\ fence[d] \in Nat
    BY MaxAttemptsAssumption DEF IInv, TypeOK
  <2>3. /\ receipts'[operation[d]].status = receipts[operation[d]].status
        /\ operation[d] = o \/ receipts'[operation[d]] = receipts[operation[d]]
    BY <1>6, <2>2
  <2>4. CASE d = c
    BY <1>1, <1>6, <1>9, <2>1, <2>4
  <2>5. CASE d # c
    BY <1>1, <1>6, <1>9, <2>1, <2>2, <2>3, <2>5 DEF k
  <2> QED
    BY <2>4, <2>5
<1>17. BooksAgree'
  BY <1>9 DEF IInv, BooksAgree
<1> QED
  BY <1>11, <1>12, <1>14, <1>15, <1>16, <1>17 DEF IInv

-----------------------------------------------------------------------------
LEMMA NextIInv == ASSUME IInv, [Next]_vars PROVE IInv'
<1>1. CASE UNCHANGED vars
  BY <1>1 DEF vars, disk, reading, callers, IInv, TypeOK, StatusInv, GrantsInv, Granted, ViewInv,
              CallerInv, BooksAgree
<1>2. ASSUME NEW c \in Callers,
             \/ Begin(c) \/ EnterBudget(c) \/ Admit(c) \/ Deny(c)
             \/ Claim(c) \/ ClaimRefused(c) \/ CallFails(c) \/ Crash(c)
      PROVE  IInv'
  BY <1>2, BeginIInv, EnterBudgetIInv, AdmitIInv, DenyIInv, ClaimIInv, ClaimRefusedIInv,
     CallFailsIInv, CrashIInv
<1>3. ASSUME NEW c \in Callers, NEW o \in Operations, ReadReceipt(c, o) PROVE IInv'
  BY <1>3, ReadReceiptIInv
<1>4. ASSUME NEW c \in Callers, NEW payload \in Payloads, Answer(c, payload) PROVE IInv'
  BY <1>4, AnswerIInv
<1>5. ASSUME NEW o \in Operations, ExpireLease(o) PROVE IInv'
  BY <1>5, ExpireLeaseIInv
<1> QED
  BY <1>1, <1>2, <1>3, <1>4, <1>5 DEF Next

-----------------------------------------------------------------------------
(* Sums of naturals over a finite set.                                     *)

(* Induction over the subsets of a finite set, for a set of them.          *)
LEMMA SubsetInduction ==
  ASSUME NEW S, IsFiniteSet(S), NEW I, {} \in I,
         \A T \in SUBSET S : \A x \in S \ T : T \in I => T \cup {x} \in I
  PROVE  \A T \in SUBSET S : T \in I
<1> DEFINE out == {T \in SUBSET S : T \notin I}
<1>1. SUFFICES ASSUME out # {} PROVE FALSE
  OBVIOUS
<1>2. IsWellFoundedOn(StrictSubsetOrdering(S), FiniteSubsetsOf(S))
  BY FS_StrictSubsetOrderingWellFounded
<1>3. out \subseteq FiniteSubsetsOf(S)
  BY FS_Subset DEF FiniteSubsetsOf
<1>4. PICK T \in out : \A U \in out : <<U, T>> \notin StrictSubsetOrdering(S)
  <2> HIDE DEF out
  <2> QED
    BY <1>1, <1>2, <1>3, WFMin
<1>5. PICK x \in T : TRUE
  BY <1>4
<1>6. T \ {x} \in SUBSET S /\ x \in S \ (T \ {x}) /\ (T \ {x}) \cup {x} = T
  BY <1>4, <1>5
<1>7. <<T \ {x}, T>> \in StrictSubsetOrdering(S)
  BY <1>5, <1>6 DEF StrictSubsetOrdering
<1>8. T \ {x} \in I
  BY <1>4, <1>6, <1>7
<1> QED
  BY <1>4, <1>6, <1>8

(* A sum of naturals is the size of a disjoint union.                      *)
Tokens(f, S) == UNION {{x} \X (1 .. f[x]) : x \in S}

LEMMA TokensGrow ==
  ASSUME NEW f, NEW S, NEW x, x \notin S, f[x] \in Nat, IsFiniteSet(Tokens(f, S))
  PROVE  /\ IsFiniteSet(Tokens(f, S \cup {x}))
         /\ Cardinality(Tokens(f, S \cup {x})) = Cardinality(Tokens(f, S)) + f[x]
<1> DEFINE new == {x} \X (1 .. f[x])
<1>1. IsFiniteSet(new) /\ Cardinality(new) = f[x]
  <2>1. IsFiniteSet({x}) /\ Cardinality({x}) = 1
    BY FS_Singleton
  <2>2. IsFiniteSet(1 .. f[x]) /\ Cardinality(1 .. f[x]) = f[x]
    BY IntervalCardinality
  <2>3. IsFiniteSet(new) /\ Cardinality(new) = Cardinality({x}) * Cardinality(1 .. f[x])
    BY <2>1, <2>2, FS_Product
  <2> QED
    BY <2>1, <2>2, <2>3
<1>2. Tokens(f, S \cup {x}) = Tokens(f, S) \cup new
  BY DEF Tokens
<1>3. Tokens(f, S) \cap new = {}
  BY DEF Tokens
<1>4. Cardinality(Tokens(f, S)) \in Nat
  BY FS_CardinalityType
<1> HIDE DEF new
<1>5. /\ IsFiniteSet(Tokens(f, S) \cup new)
      /\ Cardinality(Tokens(f, S) \cup new) =
           Cardinality(Tokens(f, S)) + Cardinality(new) - Cardinality(Tokens(f, S) \cap new)
  BY <1>1, FS_Union
<1>6. Cardinality(Tokens(f, S) \cap new) = 0
  BY <1>3, FS_EmptySet
<1>7. Cardinality(Tokens(f, S) \cup new) = Cardinality(Tokens(f, S)) + f[x]
  BY <1>1, <1>4, <1>5, <1>6
<1> QED
  BY <1>2, <1>5, <1>7

LEMMA TokensFinite ==
  ASSUME NEW f, NEW S, IsFiniteSet(S), \A x \in S : f[x] \in Nat
  PROVE  \A T \in SUBSET S : IsFiniteSet(Tokens(f, T)) /\ Cardinality(Tokens(f, T)) \in Nat
<1> DEFINE I == {T \in SUBSET S : IsFiniteSet(Tokens(f, T))}
<1>1. {} \in I
  BY FS_EmptySet DEF Tokens
<1>2. \A T \in SUBSET S : \A x \in S \ T : T \in I => T \cup {x} \in I
  BY TokensGrow
<1>3. \A T \in SUBSET S : T \in I
  <2> HIDE DEF I
  <2> QED
    BY <1>1, <1>2, SubsetInduction
<1> QED
  BY <1>3, FS_CardinalityType

One(T) == CHOOSE x \in T : TRUE

Sums(f, S) == CHOOSE sum : sum = [T \in SUBSET S |->
   IF T = {} THEN 0 ELSE f[One(T)] + sum[T \ {One(T)}]]

LEMMA SumsUnfold ==
  ASSUME NEW f, NEW S, IsFiniteSet(S), \A x \in S : f[x] \in Nat
  PROVE  \A T \in SUBSET S : Sums(f, S)[T] =
           IF T = {} THEN 0 ELSE f[One(T)] + Sums(f, S)[T \ {One(T)}]
<1> DEFINE sizes == [T \in SUBSET S |-> Cardinality(Tokens(f, T))]
           Unfolds(sum) == sum = [T \in SUBSET S |-> IF T = {} THEN 0 ELSE f[One(T)] + sum[T \ {One(T)}]]
<1>1. \A T \in SUBSET S : sizes[T] = IF T = {} THEN 0 ELSE f[One(T)] + sizes[T \ {One(T)}]
  <2>1. sizes[{}] = 0
    BY FS_EmptySet DEF Tokens
  <2>2. ASSUME NEW T \in SUBSET S, T # {}
        PROVE  sizes[T] = f[One(T)] + sizes[T \ {One(T)}]
    <3>1. One(T) \in T
      BY <2>2 DEF One
    <3>2. One(T) \notin T \ {One(T)} /\ f[One(T)] \in Nat /\ (T \ {One(T)}) \cup {One(T)} = T
          /\ T \ {One(T)} \in SUBSET S
      BY <3>1
    <3>3. IsFiniteSet(Tokens(f, T \ {One(T)})) /\ Cardinality(Tokens(f, T \ {One(T)})) \in Nat
      BY <3>2, TokensFinite
    <3>4. Cardinality(Tokens(f, (T \ {One(T)}) \cup {One(T)})) = Cardinality(Tokens(f, T \ {One(T)})) + f[One(T)]
      BY <3>2, <3>3, TokensGrow
    <3>5. sizes[T] = Cardinality(Tokens(f, T)) /\ sizes[T \ {One(T)}] = Cardinality(Tokens(f, T \ {One(T)}))
      BY <3>2
    <3>6. Cardinality(Tokens(f, T)) = Cardinality(Tokens(f, T \ {One(T)})) + f[One(T)]
      BY <3>2, <3>4
    <3> HIDE DEF sizes
    <3> QED
      BY <3>2, <3>3, <3>5, <3>6
  <2> QED
    BY <2>1, <2>2
<1>2. Unfolds(sizes)
  <2>1. sizes = [T \in SUBSET S |-> sizes[T]]
    OBVIOUS
  <2> QED
    BY <1>1, <2>1
<1>3. Unfolds(Sums(f, S))
  <2> HIDE DEF sizes
  <2> QED
    BY <1>2 DEF Sums
<1> QED
  BY <1>3


LEMMA SumIsSize ==
  ASSUME NEW f, NEW S, IsFiniteSet(S), \A x \in S : f[x] \in Nat
  PROVE  SumFunctionOnSet(f, S) = Cardinality(Tokens(f, S))
<1> DEFINE I == {T \in SUBSET S : Sums(f, S)[T] = Cardinality(Tokens(f, T))}
           out == {T \in SUBSET S : T \notin I}
<1>1. \A T \in SUBSET S : Sums(f, S)[T] = IF T = {} THEN 0 ELSE f[One(T)] + Sums(f, S)[T \ {One(T)}]
  BY SumsUnfold
<1>2. IsWellFoundedOn(StrictSubsetOrdering(S), FiniteSubsetsOf(S))
  BY FS_StrictSubsetOrderingWellFounded
<1>3. out \subseteq FiniteSubsetsOf(S)
  BY FS_Subset DEF FiniteSubsetsOf
<1>4. ASSUME out # {} PROVE FALSE
  <2>1. PICK T \in out : \A U \in out : <<U, T>> \notin StrictSubsetOrdering(S)
    <3> HIDE DEF out
    <3> QED
      BY <1>2, <1>3, <1>4, WFMin
  <2>2. T \in SUBSET S /\ Sums(f, S)[T] # Cardinality(Tokens(f, T))
    BY <2>1
  <2>3. T # {}
    <3>1. Tokens(f, {}) = {} /\ Cardinality({}) = 0 /\ Sums(f, S)[{}] = 0
      BY <1>1, FS_EmptySet DEF Tokens
    <3> QED
      BY <2>2, <3>1
  <2>4. One(T) \in T
    BY <2>3 DEF One
  <2> DEFINE x == One(T)
  <2>5. x \notin T \ {x} /\ f[x] \in Nat /\ (T \ {x}) \cup {x} = T /\ T \ {x} \in SUBSET S
    BY <2>2, <2>4
  <2>6. Sums(f, S)[T] = f[x] + Sums(f, S)[T \ {x}]
    BY <1>1, <2>2, <2>3
  <2>7. <<T \ {x}, T>> \in StrictSubsetOrdering(S)
    BY <2>2, <2>4 DEF StrictSubsetOrdering
  <2> HIDE DEF x
  <2>8. Sums(f, S)[T \ {x}] = Cardinality(Tokens(f, T \ {x}))
    BY <2>1, <2>5, <2>7
  <2>9. IsFiniteSet(Tokens(f, T \ {x})) /\ Cardinality(Tokens(f, T \ {x})) \in Nat
    BY <2>5, TokensFinite
  <2>10. Cardinality(Tokens(f, (T \ {x}) \cup {x})) = Cardinality(Tokens(f, T \ {x})) + f[x]
    BY <2>5, <2>9, TokensGrow
  <2>11. Cardinality(Tokens(f, T)) = Cardinality(Tokens(f, T \ {x})) + f[x]
    BY <2>5, <2>10
  <2> QED
    BY <2>2, <2>5, <2>6, <2>8, <2>9, <2>11
<1>5. Sums(f, S)[S] = Cardinality(Tokens(f, S))
  BY <1>4
<1> QED
  BY <1>5 DEF SumFunctionOnSet, FoldFunctionOnSet, MapThenFoldSet, Sums, One

(* The sum of naturals is a natural.                                       *)
LEMMA SumType ==
  ASSUME NEW f, NEW S, IsFiniteSet(S), \A x \in S : f[x] \in Nat
  PROVE  SumFunctionOnSet(f, S) \in Nat
  BY SumIsSize, TokensFinite

(* A sum over more elements and of larger values is larger; zeroes do not  *)
(* count.                                                                  *)
LEMMA SumBelow ==
  ASSUME NEW f, NEW S, IsFiniteSet(S), \A x \in S : f[x] \in Nat,
         NEW g, NEW T, IsFiniteSet(T), \A x \in T : g[x] \in Nat,
         \A x \in S : f[x] = 0 \/ (x \in T /\ f[x] <= g[x])
  PROVE  SumFunctionOnSet(f, S) <= SumFunctionOnSet(g, T)
<1>1. Tokens(f, S) \subseteq Tokens(g, T)
  <2> SUFFICES ASSUME NEW x \in S, NEW n \in 1 .. f[x]
               PROVE  <<x, n>> \in Tokens(g, T)
    BY DEF Tokens
  <2>1. x \in T /\ n \in 1 .. g[x]
    OBVIOUS
  <2> QED
    BY <2>1 DEF Tokens
<1>2. IsFiniteSet(Tokens(g, T))
  BY TokensFinite
<1>3. Cardinality(Tokens(f, S)) <= Cardinality(Tokens(g, T))
  BY <1>1, <1>2, FS_Subset
<1> QED
  BY <1>3, SumIsSize

LEMMA SumWithout ==
  ASSUME NEW f, NEW S, IsFiniteSet(S), \A x \in S : f[x] \in Nat, NEW x \in S
  PROVE  SumFunctionOnSet(f, S) = SumFunctionOnSet(f, S \ {x}) + f[x]
<1>1. S \ {x} \in SUBSET S /\ (S \ {x}) \cup {x} = S /\ x \notin S \ {x} /\ IsFiniteSet(S \ {x})
  BY FS_Subset
<1>2. Cardinality(Tokens(f, (S \ {x}) \cup {x})) = Cardinality(Tokens(f, S \ {x})) + f[x]
  BY <1>1, TokensFinite, TokensGrow
<1> QED
  BY <1>1, <1>2, SumIsSize

(* Raising one value by at most r raises the sum by at most r.             *)
LEMMA SumRaised ==
  ASSUME NEW f, NEW g, NEW S, IsFiniteSet(S), \A x \in S : f[x] \in Nat /\ g[x] \in Nat,
         NEW x \in S, NEW r \in Nat, g[x] <= f[x] + r,
         \A y \in S \ {x} : g[y] <= f[y]
  PROVE  SumFunctionOnSet(g, S) <= SumFunctionOnSet(f, S) + r
<1>1. IsFiniteSet(S \ {x})
  BY FS_Subset
<1>2. SumFunctionOnSet(g, S \ {x}) <= SumFunctionOnSet(f, S \ {x})
  BY <1>1, SumBelow
<1>3. /\ SumFunctionOnSet(g, S) = SumFunctionOnSet(g, S \ {x}) + g[x]
      /\ SumFunctionOnSet(f, S) = SumFunctionOnSet(f, S \ {x}) + f[x]
  BY SumWithout
<1>4. SumFunctionOnSet(g, S \ {x}) \in Nat /\ SumFunctionOnSet(f, S \ {x}) \in Nat
  BY <1>1, SumType
<1> QED
  BY <1>2, <1>3, <1>4

(* n values of at most m each.                                             *)
LEMMA SumAtMost ==
  ASSUME NEW m \in Nat, NEW n \in Nat, NEW f, \A i \in 1 .. n : f[i] \in Nat /\ f[i] <= m
  PROVE  SumFunctionOnSet(f, 1 .. n) <= m * n
<1>1. Tokens(f, 1 .. n) \subseteq (1 .. n) \X (1 .. m)
  <2> SUFFICES ASSUME NEW i \in 1 .. n, NEW j \in 1 .. f[i] PROVE j \in 1 .. m
    BY DEF Tokens
  <2> QED
    OBVIOUS
<1>2. /\ IsFiniteSet(1 .. n) /\ Cardinality(1 .. n) = n
      /\ IsFiniteSet(1 .. m) /\ Cardinality(1 .. m) = m
  BY FS_Interval
<1>3. IsFiniteSet((1 .. n) \X (1 .. m)) /\ Cardinality((1 .. n) \X (1 .. m)) = n * m
  <2> DEFINE rows == 1 .. n
             columns == 1 .. m
  <2> HIDE DEF rows, columns
  <2>1. /\ IsFiniteSet(rows) /\ Cardinality(rows) = n
        /\ IsFiniteSet(columns) /\ Cardinality(columns) = m
    BY <1>2 DEF rows, columns
  <2>2. /\ IsFiniteSet(rows \X columns)
        /\ Cardinality(rows \X columns) = Cardinality(rows) * Cardinality(columns)
    BY <2>1, FS_Product
  <2> QED
    BY <2>1, <2>2 DEF rows, columns
<1>4. Cardinality(Tokens(f, 1 .. n)) <= n * m
  BY <1>1, <1>3, FS_Subset
<1>5. n * m = m * n
  OBVIOUS
<1> QED
  BY <1>2, <1>4, <1>5, SumIsSize

-----------------------------------------------------------------------------
(* What an admission relies on beyond the books.                           *)

(* An operation with a grant has a receipt that the holder of the flock    *)
(* has on its list; a returned receipt tells what its last attempt cost,   *)
(* if it tells anything; and one that was read as returned is still so.    *)
UsedInv ==
  \A o \in Operations :
    /\ grants[o] # {} => receipts[o].status # "absent" /\ (holder # NoCaller => o \in listed)
    /\ receipts[o].status = "returned" =>
         /\ receipts[o].attempts > 0
         /\ usage[o] # Unknown => usage[o] = charges[o][receipts[o].attempts]
    /\ o \in DOMAIN view /\ view[o].status = "returned" =>
         /\ receipts[o].status = "returned"
         /\ view[o].attempts = receipts[o].attempts
         /\ view[o].usage # Unknown => view[o].usage = charges[o][receipts[o].attempts]

(* What an operation can still cost: every attempt it was granted, or what *)
(* it did cost once it has returned and claims no more.                    *)
Bound(o) == IF receipts[o].status = "returned" THEN Cost(o) ELSE Reserve[o] * Granted(o)

Bounds == [o \in Operations |-> Bound(o)]

Admitted == {o \in Operations : grants[o] # {}}

SpendInv ==
  /\ SumFunctionOnSet(Bounds, Operations) <= MaxTokens
  /\ Cardinality(Admitted) <= MaxOperations

(* No step takes a return back, and only a return sets a usage.            *)
Settles ==
  \A o \in Operations :
    /\ receipts[o].status # "absent" => receipts'[o].status # "absent"
    /\ receipts[o].status = "returned" =>
         /\ receipts'[o].status = "returned"
         /\ receipts'[o].attempts = receipts[o].attempts
         /\ charges'[o] = charges[o]
    /\ receipts'[o].status = "returned" =>
         /\ receipts'[o].attempts > 0
         /\ usage'[o] # Unknown => usage'[o] = charges'[o][receipts'[o].attempts]

LEMMA DiskSettles == ASSUME UsedInv, UNCHANGED <<receipts, usage, charges>> PROVE Settles
  BY DEF UsedInv, Settles

LEMMA ReceiptSettles ==
  ASSUME IInv, UsedInv, NEW o \in Operations, NEW r,
         receipts' = [receipts EXCEPT ![o] = r],
         r.attempts = receipts[o].attempts,
         receipts[o].status # "absent" => r.status = receipts[o].status,
         r.status # "returned" \/ r.status = receipts[o].status,
         UNCHANGED <<usage, charges>>
  PROVE  Settles
<1>1. /\ receipts'[o] = r
      /\ \A x \in Operations \ {o} : receipts'[x] = receipts[x]
  BY DEF IInv, TypeOK
<1> QED
  BY <1>1 DEF UsedInv, Settles

LEMMA ClaimSettles == ASSUME IInv, UsedInv, NEW c \in Callers, Claim(c) PROVE Settles
<1> DEFINE o == operation[c]
<1>1. o \in Operations /\ receipts[o] \in Receipts /\ receipts[o].status = "pending"
      /\ receipts[o].attempts < MaxAttempts
  BY DEF IInv, TypeOK, Claim, Claimable, Receipt
<1>2. receipts' = [receipts EXCEPT ![o] = ClaimedBy(receipts[o], c)] /\ usage' = usage
  BY DEF Claim
<1>3. ClaimedBy(receipts[o], c).status = "pending"
  BY <1>1, ClaimedReceipt
<1>4. /\ receipts'[o].status = "pending"
      /\ \A x \in Operations \ {o} : receipts'[x] = receipts[x]
  BY <1>1, <1>2, <1>3 DEF IInv, TypeOK
<1>5. \A x \in Operations \ {o} : charges'[x] = charges[x]
  BY DEF Claim, IInv, TypeOK
<1> HIDE DEF o
<1> QED
  BY <1>1, <1>2, <1>4, <1>5 DEF UsedInv, Settles

LEMMA AnswerSettles ==
  ASSUME IInv, UsedInv, NEW c \in Callers, NEW payload \in Payloads, Answer(c, payload)
  PROVE  Settles
<1> DEFINE o == operation[c]
           answered == Returned(receipts[o], c, fence[c], payload)
<1>1. o \in Operations /\ receipts[o] \in Receipts /\ fence[c] \in 0 .. MaxAttempts
      /\ fence[c] \in 1 .. receipts[o].attempts /\ charges' = charges
  BY DEF IInv, TypeOK, CallerInv, Answer
<1>2. CASE ~CanReturn(receipts[o], c, fence[c], payload)
  <2>1. UNCHANGED <<receipts, usage, charges>>
    BY <1>2 DEF Answer
  <2> QED
    BY <2>1, DiskSettles
<1>3. CASE CanReturn(receipts[o], c, fence[c], payload)
  <2>1. receipts[o].attempts = fence[c] /\ receipts[o].attempts > 0
    BY <1>1, <1>3, MaxAttemptsAssumption DEF CanReturn, MayTransition, NoFence, Receipts
  <2>2. PICK reported \in {charges[o][fence[c]], Unknown} :
          /\ usage' = [usage EXCEPT ![o] = reported]
          /\ receipts' = [receipts EXCEPT ![o] = answered]
    BY <1>3 DEF Answer
  <2>3. /\ answered.attempts = receipts[o].attempts
        /\ answered.status = IF receipts[o].status = "pending" THEN "returned" ELSE receipts[o].status
    BY <1>1, ReturnedReceipt
  <2> HIDE DEF answered
  <2>4. /\ receipts'[o] = answered /\ usage'[o] = reported
        /\ \A x \in Operations \ {o} : receipts'[x] = receipts[x] /\ usage'[x] = usage[x]
    BY <1>1, <2>2 DEF IInv, TypeOK
  <2> HIDE DEF o
  <2> QED
    BY <1>1, <2>1, <2>2, <2>3, <2>4 DEF UsedInv, Settles
<1> QED
  BY <1>2, <1>3

LEMMA NextSettles == ASSUME IInv, UsedInv, [Next]_vars PROVE Settles
<1>1. ASSUME UNCHANGED disk PROVE Settles
  BY <1>1, DiskSettles DEF disk
<1>2. CASE UNCHANGED vars
  BY <1>1, <1>2 DEF vars
<1>3. ASSUME NEW c \in Callers,
             EnterBudget(c) \/ Admit(c) \/ Deny(c) \/ ClaimRefused(c) \/ Crash(c)
      PROVE  Settles
  BY <1>1, <1>3 DEF EnterBudget, Admit, Deny, ClaimRefused, Crash
<1>4. ASSUME NEW c \in Callers, NEW o \in Operations, ReadReceipt(c, o) PROVE Settles
  BY <1>1, <1>4 DEF ReadReceipt
<1>5. ASSUME NEW c \in Callers, Begin(c) PROVE Settles
  <2>1. operation[c] \in Operations /\ receipts[operation[c]] \in Receipts
    BY DEF IInv, TypeOK
  <2>2. /\ receipts' = [receipts EXCEPT ![operation[c]] = Begun(receipts[operation[c]])]
        /\ UNCHANGED <<usage, charges>>
    BY <1>5 DEF Begin
  <2> QED
    BY <2>1, <2>2, BegunReceipt, ReceiptSettles
<1>6. ASSUME NEW c \in Callers, CallFails(c) PROVE Settles
  <2> DEFINE o == operation[c]
  <2>1. o \in Operations /\ receipts[o] \in Receipts /\ fence[c] \in 0 .. MaxAttempts
    BY DEF IInv, TypeOK
  <2>2. /\ UNCHANGED <<usage, charges>>
        /\ receipts' = receipts \/ receipts' = [receipts EXCEPT ![o] = Released(receipts[o], c, fence[c])]
    BY <1>6 DEF CallFails, Receipt
  <2>3. CASE receipts' = receipts
    BY <2>2, <2>3, DiskSettles
  <2>4. CASE receipts' = [receipts EXCEPT ![o] = Released(receipts[o], c, fence[c])]
    <3>1. /\ Released(receipts[o], c, fence[c]).attempts = receipts[o].attempts
          /\ Released(receipts[o], c, fence[c]).status = receipts[o].status
      BY <2>1, ReleasedReceipt
    <3> HIDE DEF o
    <3> QED
      BY <2>1, <2>2, <2>4, <3>1, ReceiptSettles
  <2> QED
    BY <2>2, <2>3, <2>4
<1>7. ASSUME NEW o \in Operations, ExpireLease(o) PROVE Settles
  <2>1. receipts[o] \in Receipts
    BY DEF IInv, TypeOK
  <2>2. /\ receipts' = [receipts EXCEPT ![o] = LeaseExpired(receipts[o])]
        /\ UNCHANGED <<usage, charges>>
    BY <1>7 DEF ExpireLease
  <2> QED
    BY <2>1, <2>2, ExpiredReceipt, ReceiptSettles
<1> QED
  BY <1>2, <1>3, <1>4, <1>5, <1>6, <1>7, ClaimSettles, AnswerSettles DEF Next

LEMMA SettledStep ==
  ASSUME IInv, UsedInv, Settles, grants' = grants, UNCHANGED reading \/ Leave
  PROVE  UsedInv'
<1>1. /\ \A o \in DOMAIN view' : o \in DOMAIN view /\ view'[o] = view[o]
      /\ holder' # NoCaller => holder' = holder /\ listed' = listed
  BY DEF reading, Leave
<1> QED
  BY <1>1 DEF UsedInv, Settles

LEMMA NextUsedInv == ASSUME IInv, UsedInv, [Next]_vars PROVE UsedInv'
<1>1. Settles
  BY NextSettles
<1>2. ASSUME UNCHANGED grants, UNCHANGED reading \/ Leave PROVE UsedInv'
  BY <1>1, <1>2, SettledStep
<1>3. CASE UNCHANGED vars
  BY <1>2, <1>3 DEF vars
<1>4. ASSUME NEW c \in Callers,
             \/ Begin(c) \/ Deny(c) \/ Claim(c) \/ ClaimRefused(c) \/ CallFails(c) \/ Crash(c)
             \/ \E payload \in Payloads : Answer(c, payload)
      PROVE  UsedInv'
  BY <1>2, <1>4 DEF Begin, Deny, Claim, ClaimRefused, CallFails, Crash, Answer
<1>5. ASSUME NEW o \in Operations, ExpireLease(o) PROVE UsedInv'
  BY <1>2, <1>5 DEF ExpireLease
<1>6. ASSUME NEW c \in Callers, EnterBudget(c) PROVE UsedInv'
  <2>1. /\ DOMAIN view' = {} /\ listed' = {o \in Operations : receipts[o].status # "absent"}
        /\ UNCHANGED <<receipts, usage, charges, grants>>
    BY <1>6 DEF EnterBudget, disk
  <2> QED
    BY <2>1 DEF UsedInv
<1>7. ASSUME NEW c \in Callers, NEW o \in Operations, ReadReceipt(c, o) PROVE UsedInv'
  <2>1. /\ DOMAIN view' = DOMAIN view \cup {o} /\ view'[o] = Entry(o)
        /\ \A x \in DOMAIN view \ {o} : view'[x] = view[x]
        /\ UNCHANGED <<receipts, usage, charges, grants, holder, listed>>
    BY <1>7 DEF ReadReceipt, disk
  <2> QED
    BY <2>1 DEF UsedInv, Entry
<1>8. ASSUME NEW c \in Callers, Admit(c) PROVE UsedInv'
  <2>1. /\ DOMAIN view' = {} /\ holder' = NoCaller
        /\ UNCHANGED <<receipts, usage, charges>>
    BY <1>8 DEF Admit, Leave, disk
  <2>2. receipts[operation[c]].status # "absent"
    BY <1>8 DEF Admit, Read, IInv, CallerInv, StatusInv, TypeOK
  <2>3. \A x \in Operations \ {operation[c]} : grants'[x] = grants[x]
    BY <1>8 DEF Admit, IInv, TypeOK
  <2> QED
    BY <2>1, <2>2, <2>3 DEF UsedInv
<1> QED
  BY <1>3, <1>4, <1>5, <1>6, <1>7, <1>8 DEF Next

-----------------------------------------------------------------------------
(* What an operation cost and what it may cost.                            *)

LEMMA CostBounds ==
  ASSUME IInv, NEW o \in Operations
  PROVE  /\ Cost(o) \in Nat
         /\ Cost(o) <= Reserve[o] * receipts[o].attempts
         /\ receipts[o].attempts > 0 =>
              /\ charges[o][receipts[o].attempts] \in Nat
              /\ Cost(o) <= Reserve[o] * (receipts[o].attempts - 1) + charges[o][receipts[o].attempts]
<1> DEFINE f == charges[o]
           n == receipts[o].attempts
           m == Reserve[o]
<1>1. n \in Nat /\ m \in Nat
  BY ReserveAssumption, MaxAttemptsAssumption DEF IInv, TypeOK, Receipts
<1>2. DOMAIN f = 1 .. n /\ \A i \in 1 .. n : f[i] \in Nat /\ f[i] <= m
  <2>1. /\ charges[o] \in Seq(Nat) /\ Len(charges[o]) = n
        /\ \A i \in DOMAIN charges[o] : charges[o][i] \in 1 .. m
    BY DEF IInv, TypeOK
  <2>2. DOMAIN charges[o] = 1 .. n
    BY <2>1
  <2> QED
    BY <1>1, <2>1, <2>2
<1>3. Cost(o) = SumFunctionOnSet(f, 1 .. n)
  BY <1>2 DEF Cost, SumFunction
<1> HIDE DEF f, n, m
<1>4. IsFiniteSet(1 .. n)
  BY <1>1, FS_Interval
<1>5. SumFunctionOnSet(f, 1 .. n) \in Nat /\ SumFunctionOnSet(f, 1 .. n) <= m * n
  BY <1>1, <1>2, <1>4, SumType, SumAtMost
<1>6. ASSUME n > 0
      PROVE  f[n] \in Nat /\ SumFunctionOnSet(f, 1 .. n) <= m * (n - 1) + f[n]
  <2>1. n \in 1 .. n /\ n - 1 \in Nat /\ (1 .. n) \ {n} = 1 .. (n - 1)
    BY <1>1, <1>6
  <2>2. SumFunctionOnSet(f, 1 .. n) = SumFunctionOnSet(f, 1 .. (n - 1)) + f[n]
    BY <1>2, <1>4, <2>1, SumWithout
  <2>3. \A i \in 1 .. (n - 1) : f[i] \in Nat /\ f[i] <= m
    BY <1>1, <1>2
  <2>4. SumFunctionOnSet(f, 1 .. (n - 1)) <= m * (n - 1)
    BY <1>1, <2>1, <2>3, SumAtMost
  <2>5. SumFunctionOnSet(f, 1 .. (n - 1)) \in Nat
    <3>1. IsFiniteSet(1 .. (n - 1))
      BY <2>1, FS_Interval
    <3> QED
      BY <2>3, <3>1, SumType
  <2>6. m * (n - 1) \in Nat /\ f[n] \in Nat
    BY <1>1, <1>2, <2>1
  <2> QED
    BY <2>2, <2>4, <2>5, <2>6
<1> QED
  BY <1>3, <1>5, <1>6 DEF f, n, m

LEMMA TimesGrows ==
  ASSUME NEW m \in Nat, NEW i \in Nat, NEW j \in Nat, i <= j
  PROVE  m * i \in Nat /\ m * i <= m * j
<1>1. PICK d \in Nat : j = i + d
  <2>1. j - i \in Nat /\ j = i + (j - i)
    OBVIOUS
  <2> QED
    BY <2>1
<1>2. m * j = m * i + m * d /\ m * i \in Nat /\ m * d \in Nat
  BY <1>1
<1> QED
  BY <1>2

(* A granted attempt is paid for until the return shows what it cost.      *)
LEMMA BoundBounds ==
  ASSUME IInv, NEW o \in Operations
  PROVE  /\ Bound(o) \in Nat
         /\ Bound(o) <= Reserve[o] * Granted(o)
         /\ Reserve[o] * Granted(o) \in Nat
         /\ Cost(o) \in Nat
         /\ Cost(o) <= Bound(o)
         /\ Granted(o) = 0 => Bound(o) = 0
<1>1. /\ Granted(o) \in Nat /\ Reserve[o] \in Nat /\ receipts[o].attempts \in Nat
      /\ receipts[o].attempts <= Granted(o)
  BY ReserveAssumption, MaxAttemptsAssumption DEF IInv, GrantsInv, TypeOK, Receipts
<1>2. /\ Reserve[o] * receipts[o].attempts \in Nat
      /\ Reserve[o] * receipts[o].attempts <= Reserve[o] * Granted(o)
      /\ Reserve[o] * Granted(o) \in Nat
  BY <1>1, TimesGrows
<1>3. Cost(o) \in Nat /\ Cost(o) <= Reserve[o] * receipts[o].attempts
  BY CostBounds
<1>4. Granted(o) = 0 => Reserve[o] * Granted(o) = 0
  BY <1>1
<1>5. Bound(o) = Cost(o) \/ Bound(o) = Reserve[o] * Granted(o)
  BY DEF Bound
<1> DEFINE paid == Reserve[o] * receipts[o].attempts
           granted == Reserve[o] * Granted(o)
<1> HIDE DEF paid, granted
<1>6. /\ paid \in Nat /\ granted \in Nat /\ paid <= granted
      /\ Cost(o) \in Nat /\ Cost(o) <= paid
      /\ Granted(o) = 0 => granted = 0
      /\ Bound(o) = Cost(o) \/ Bound(o) = granted
  BY <1>2, <1>3, <1>4, <1>5 DEF paid, granted
<1>7. /\ Bound(o) \in Nat /\ Bound(o) <= granted /\ Cost(o) <= Bound(o)
      /\ Granted(o) = 0 => Bound(o) = 0
  BY <1>6
<1> QED
  BY <1>6, <1>7 DEF granted

-----------------------------------------------------------------------------
(* The authorized tokens and operations.                                   *)

LEMMA BoundsType == ASSUME IInv PROVE \A o \in Operations : Bounds[o] \in Nat
  BY BoundBounds DEF Bounds

LEMMA BoundsTypeNext == ASSUME IInv' PROVE (\A o \in Operations : Bounds[o] \in Nat)'
  BY BoundsType, PTL

LEMMA BoundsSum == ASSUME IInv PROVE SumFunctionOnSet(Bounds, Operations) \in Nat
  BY BoundsType, OperationsAssumption, SumType

(* A step that admits nothing lets no bound grow: a return replaces the    *)
(* reservations of an operation with what it cost.                         *)
LEMMA BoundKept ==
  ASSUME IInv, IInv', Settles, grants' = grants, NEW o \in Operations
  PROVE  Bound(o)' <= Bound(o)
<1>1. Granted(o)' = Granted(o)
  BY DEF Granted
<1>2. CASE receipts[o].status = "returned"
  <2>1. receipts'[o].status = "returned" /\ charges'[o] = charges[o]
    BY <1>2 DEF Settles
  <2>2. Bound(o)' = Bound(o)
    BY <1>2, <2>1 DEF Bound, Cost
  <2> QED
    BY <2>2, BoundBounds
<1>3. CASE receipts[o].status # "returned"
  <2>1. Bound(o) = Reserve[o] * Granted(o)
    BY <1>3 DEF Bound
  <2>2. Bound(o)' <= Reserve[o] * Granted(o)'
    <3>1. (Bound(o) <= Reserve[o] * Granted(o))'
      BY BoundBounds, PTL
    <3> QED
      BY <3>1
  <2> QED
    BY <1>1, <2>1, <2>2
<1> QED
  BY <1>2, <1>3

LEMMA SpendKept ==
  ASSUME IInv, IInv', SpendInv, Settles, grants' = grants
  PROVE  SpendInv'
<1> DEFINE now == Bounds
           next == Bounds'
<1>1. \A o \in Operations : now[o] \in Nat
  BY BoundsType
<1>2. \A o \in Operations : next[o] \in Nat
  BY BoundsTypeNext
<1>3. \A o \in Operations : next[o] <= now[o]
  BY BoundKept DEF Bounds
<1>4. /\ SumFunctionOnSet(now, Operations) <= MaxTokens /\ MaxTokens \in Nat
      /\ SumFunctionOnSet(now, Operations) \in Nat
  BY BoundsSum, LimitsAssumption DEF SpendInv
<1>5. (SumFunctionOnSet(Bounds, Operations) <= MaxTokens)'
  <2> HIDE DEF now, next
  <2>1. SumFunctionOnSet(next, Operations) <= SumFunctionOnSet(now, Operations)
    BY <1>1, <1>2, <1>3, OperationsAssumption, SumBelow
  <2>2. SumFunctionOnSet(next, Operations) \in Nat
    BY <1>2, OperationsAssumption, SumType
  <2>3. SumFunctionOnSet(next, Operations) <= MaxTokens
    BY <1>4, <2>1, <2>2
  <2> QED
    BY <2>3 DEF next, SumFunctionOnSet, FoldFunctionOnSet, MapThenFoldSet
<1>6. (Cardinality(Admitted) <= MaxOperations)'
  BY DEF SpendInv, Admitted
<1> QED
  BY <1>5, <1>6 DEF SpendInv

(* What the holder of the flock adds up is not less than what the Run can  *)
(* still cost, although the receipts it has read may be out of date.       *)
LEMMA CountedCoversBounds ==
  ASSUME IInv, UsedInv, NEW c \in Callers, Read(c), NEW o \in Operations,
         \A x \in Counted(o) : ~Disputed(x)
  PROVE  /\ SumFunction([x \in Counted(o) |-> Allocated(x)]) \in Nat
         /\ SumFunctionOnSet(Bounds, Operations) <= SumFunction([x \in Counted(o) |-> Allocated(x)])
         /\ Admitted \subseteq Counted(o)
<1> DEFINE allocated == [x \in Counted(o) |-> Allocated(x)]
<1>1. Counted(o) \subseteq Operations /\ Counted(o) \subseteq DOMAIN view /\ DOMAIN view = listed
  BY DEF Counted, Read, IInv, TypeOK
<1>2. IsFiniteSet(Counted(o))
  BY <1>1, OperationsAssumption, FS_Subset
<1>3. Admitted \subseteq Counted(o)
  <2> SUFFICES ASSUME NEW x \in Operations, grants[x] # {} PROVE x \in Counted(o)
    BY DEF Admitted
  <2>1. x \in listed
    BY CallersAssumption DEF UsedInv, Read
  <2> QED
    BY <2>1 DEF Counted, Fresh
<1>4. ASSUME NEW x \in Operations \ Admitted PROVE Bounds[x] = 0
  <2>1. grants[x] = {}
    BY <1>4 DEF Admitted
  <2>2. Granted(x) = 0
    BY <2>1, FS_EmptySet DEF Granted
  <2> QED
    BY <2>2, BoundBounds DEF Bounds
<1>5. ASSUME NEW x \in Counted(o) PROVE Allocated(x) \in Nat /\ Bounds[x] <= Allocated(x)
  <2>1. /\ x \in Operations /\ view[x] \in Entries /\ Reserve[x] \in Nat
        /\ receipts[x].attempts \in Nat /\ Bounds[x] = Bound(x)
    BY <1>1, ReserveAssumption, MaxAttemptsAssumption DEF IInv, TypeOK, Receipts, Bounds
  <2>2. CASE view[x].status = "pending"
    <3>1. Allocated(x) = Reserve[x] * Granted(x)
      BY <2>2 DEF Allocated
    <3> QED
      BY <2>1, <3>1, BoundBounds
  <2>3. CASE view[x].status = "returned"
    <3>1. /\ receipts[x].status = "returned" /\ view[x].attempts = receipts[x].attempts
          /\ receipts[x].attempts > 0
          /\ view[x].usage = charges[x][receipts[x].attempts]
      BY <1>1, <2>1, <2>3, <1>5 DEF UsedInv, Disputed
    <3>2. Allocated(x) = Reserve[x] * (receipts[x].attempts - 1) + charges[x][receipts[x].attempts]
      BY <2>3, <3>1 DEF Allocated
    <3>3. Bound(x) = Cost(x)
      BY <3>1 DEF Bound
    <3>4. receipts[x].attempts - 1 \in Nat /\ charges[x][receipts[x].attempts] \in Nat
      BY <2>1, <3>1, CostBounds
    <3>5. Reserve[x] * (receipts[x].attempts - 1) \in Nat
      BY <2>1, <3>4, TimesGrows
    <3>6. Allocated(x) \in Nat
      BY <3>2, <3>4, <3>5
    <3> QED
      BY <2>1, <3>1, <3>2, <3>3, <3>6, CostBounds
  <2> QED
    BY <2>1, <2>2, <2>3 DEF Entries
<1>6. \A x \in Operations : Bounds[x] \in Nat
  BY BoundBounds DEF Bounds
<1>7. DOMAIN allocated = Counted(o) /\ \A x \in Counted(o) : allocated[x] = Allocated(x)
  OBVIOUS
<1>8. SumFunction(allocated) = SumFunctionOnSet(allocated, Counted(o))
  BY <1>7 DEF SumFunction
<1> HIDE DEF allocated
<1>9. \A x \in Operations : Bounds[x] = 0 \/ (x \in Counted(o) /\ Bounds[x] <= allocated[x])
  BY <1>3, <1>4, <1>5, <1>7
<1>10. \A x \in Counted(o) : allocated[x] \in Nat
  BY <1>5, <1>7
<1>11. SumFunctionOnSet(Bounds, Operations) <= SumFunctionOnSet(allocated, Counted(o))
  BY <1>2, <1>6, <1>9, <1>10, OperationsAssumption, SumBelow
<1>12. SumFunctionOnSet(allocated, Counted(o)) \in Nat
  BY <1>2, <1>10, SumType
<1> QED
  BY <1>3, <1>8, <1>11, <1>12 DEF allocated

LEMMA AdmitSpendInv ==
  ASSUME IInv, IInv', UsedInv, SpendInv, NEW c \in Callers, Admit(c),
         NEW o \in Operations, o = operation[c]
  PROVE  SpendInv'
<1>1. Read(c) /\ UNCHANGED <<receipts, usage, charges>> /\ Reserve[o] \in Nat
  BY ReserveAssumption DEF IInv, TypeOK, Admit, disk
<1>2. PICK attempt :
        /\ attempt \in grants[o] \/ Admissible(o, attempt)
        /\ grants' = [grants EXCEPT ![o] = grants[o] \cup {attempt}]
  BY DEF Admit
<1>3. CASE attempt \in grants[o]
  <2>1. grants[o] \cup {attempt} = grants[o]
    BY <1>3
  <2>2. grants' = [grants EXCEPT ![o] = grants[o]] /\ grants \in [Operations -> SUBSET Attempts]
    BY <1>2, <2>1 DEF IInv, TypeOK
  <2>3. grants' = grants
    BY <2>2
  <2>4. Settles
    BY <1>1, DiskSettles
  <2> QED
    BY <2>3, <2>4, SpendKept
<1>4. CASE attempt \notin grants[o]
  <2>1. /\ \A x \in Counted(o) : ~Disputed(x)
        /\ Cardinality(Counted(o) \cup {o}) <= MaxOperations
        /\ SumFunction([x \in Counted(o) |-> Allocated(x)]) + Reserve[o] <= MaxTokens
    BY <1>2, <1>4 DEF Admissible, Fits
  <2>2. /\ SumFunction([x \in Counted(o) |-> Allocated(x)]) \in Nat
        /\ SumFunctionOnSet(Bounds, Operations) <= SumFunction([x \in Counted(o) |-> Allocated(x)])
        /\ Admitted \subseteq Counted(o)
    BY <1>1, <2>1, CountedCoversBounds
  <2>3. SumFunctionOnSet(Bounds, Operations) + Reserve[o] <= MaxTokens
    BY <1>1, <2>1, <2>2, BoundsSum, LimitsAssumption
  <2>4. grants'[o] = grants[o] \cup {attempt} /\ \A x \in Operations \ {o} : grants'[x] = grants[x]
    BY <1>1, <1>2 DEF IInv, TypeOK
  <2>5. Granted(o)' = Granted(o) + 1
    <3>1. IsFiniteSet(grants[o])
      <4>1. grants[o] \subseteq Attempts /\ IsFiniteSet(Attempts)
        BY <1>1, FS_Interval, MaxAttemptsAssumption DEF IInv, TypeOK, Attempts
      <4> QED
        BY <4>1, FS_Subset
    <3>2. Cardinality(grants[o] \cup {attempt}) = Cardinality(grants[o]) + 1
      BY <1>4, <3>1, FS_AddElement
    <3> QED
      BY <2>4, <3>2 DEF Granted
  <2>6. \A x \in Operations \ {o} : Bound(x)' = Bound(x)
    BY <1>1, <2>4 DEF Bound, Cost, Granted
  <2>7. Bound(o)' <= Bound(o) + Reserve[o]
    <3>1. Bound(o) \in Nat
      BY <1>1, BoundBounds
    <3>2. CASE receipts[o].status = "returned"
      <4>1. Bound(o)' = Bound(o)
        BY <1>1, <3>2 DEF Bound, Cost
      <4> QED
        BY <1>1, <3>1, <4>1
    <3>3. CASE receipts[o].status # "returned"
      <4>1. Bound(o)' = Reserve[o] * (Granted(o) + 1) /\ Bound(o) = Reserve[o] * Granted(o)
        BY <1>1, <2>5, <3>3 DEF Bound
      <4>2. Granted(o) \in Nat
        BY <1>1 DEF IInv, GrantsInv
      <4>3. Reserve[o] * (Granted(o) + 1) = Reserve[o] * Granted(o) + Reserve[o]
        BY <1>1, <4>2
      <4> QED
        BY <1>1, <3>1, <4>1, <4>3
    <3> QED
      BY <3>2, <3>3
  <2>8. (SumFunctionOnSet(Bounds, Operations) <= MaxTokens)'
    <3> DEFINE now == Bounds
               next == Bounds'
    <3>1. \A x \in Operations : now[x] \in Nat
      BY BoundsType
    <3>2. \A x \in Operations : next[x] \in Nat
      BY BoundsTypeNext
    <3>3. next[o] <= now[o] + Reserve[o]
      BY <1>1, <2>7 DEF Bounds
    <3>4. \A x \in Operations \ {o} : next[x] <= now[x]
      <4>1. \A x \in Operations \ {o} : next[x] = now[x]
        BY <2>6 DEF Bounds
      <4> QED
        BY <3>1, <4>1
    <3>5. SumFunctionOnSet(now, Operations) + Reserve[o] <= MaxTokens
      BY <2>3
    <3>6. SumFunctionOnSet(now, Operations) \in Nat
      BY BoundsSum
    <3> HIDE DEF now, next
    <3>7. SumFunctionOnSet(next, Operations) <= SumFunctionOnSet(now, Operations) + Reserve[o]
      BY <1>1, <3>1, <3>2, <3>3, <3>4, OperationsAssumption, SumRaised
    <3>8. SumFunctionOnSet(next, Operations) \in Nat
      BY <3>2, OperationsAssumption, SumType
    <3>9. SumFunctionOnSet(next, Operations) <= MaxTokens
      BY <1>1, <3>5, <3>6, <3>7, <3>8, LimitsAssumption
    <3> QED
      BY <3>9 DEF next, SumFunctionOnSet, FoldFunctionOnSet, MapThenFoldSet
  <2>9. (Cardinality(Admitted) <= MaxOperations)'
    <3>1. Admitted' \subseteq Counted(o) \cup {o}
      BY <1>1, <2>2, <2>4 DEF Admitted
    <3>2. IsFiniteSet(Counted(o) \cup {o})
      <4>1. Counted(o) \cup {o} \subseteq Operations
        BY <1>1 DEF Counted, IInv, TypeOK
      <4> QED
        BY <4>1, OperationsAssumption, FS_Subset
    <3>3. /\ Cardinality(Admitted') <= Cardinality(Counted(o) \cup {o})
          /\ Cardinality(Admitted') \in Nat /\ Cardinality(Counted(o) \cup {o}) \in Nat
      BY <3>1, <3>2, FS_Subset, FS_CardinalityType
    <3>4. Cardinality(Admitted') <= MaxOperations
      BY <2>1, <3>3, LimitsAssumption
    <3> QED
      BY <3>4
  <2> QED
    BY <2>8, <2>9 DEF SpendInv
<1> QED
  BY <1>3, <1>4

LEMMA InitSpendInv == Init => UsedInv /\ SpendInv
<1> SUFFICES ASSUME Init PROVE UsedInv /\ SpendInv
  OBVIOUS
<1>1. IInv /\ \A o \in Operations : grants[o] = {}
  BY InitIInv DEF Init
<1>2. UsedInv
  BY <1>1 DEF Init, UsedInv, AbsentReceipt
<1>3. \A o \in Operations : Bounds[o] = 0
  <2> SUFFICES ASSUME NEW o \in Operations PROVE Bound(o) = 0
    BY DEF Bounds
  <2>1. Granted(o) = 0
    BY <1>1, FS_EmptySet DEF Granted
  <2> QED
    BY <1>1, <2>1, BoundBounds
<1>4. SumFunctionOnSet(Bounds, Operations) <= 0 * 1
  <2>1. SumFunctionOnSet(Bounds, {}) = 0 /\ IsFiniteSet({})
    <3>1. Tokens(Bounds, {}) = {}
      BY DEF Tokens
    <3> QED
      BY <3>1, FS_EmptySet, SumIsSize
  <2>2. SumFunctionOnSet(Bounds, Operations) <= SumFunctionOnSet(Bounds, {})
    BY <1>3, <2>1, OperationsAssumption, SumBelow
  <2> QED
    BY <2>1, <2>2
<1>5. Cardinality(Admitted) = 0
  BY <1>1, FS_EmptySet DEF Admitted
<1> QED
  BY <1>1, <1>2, <1>4, <1>5, BoundsSum, LimitsAssumption DEF SpendInv

LEMMA NextSpendInv ==
  ASSUME IInv, IInv', UsedInv, SpendInv, [Next]_vars
  PROVE  SpendInv'
<1>1. ASSUME grants' = grants PROVE SpendInv'
  BY <1>1, NextSettles, SpendKept
<1>2. CASE UNCHANGED vars
  BY <1>1, <1>2 DEF vars
<1>3. ASSUME NEW c \in Callers,
             \/ Begin(c) \/ EnterBudget(c) \/ Deny(c)
             \/ Claim(c) \/ ClaimRefused(c) \/ CallFails(c) \/ Crash(c)
             \/ \E o \in Operations : ReadReceipt(c, o)
             \/ \E payload \in Payloads : Answer(c, payload)
      PROVE  SpendInv'
  BY <1>1, <1>3 DEF Begin, EnterBudget, Deny, Claim, ClaimRefused, CallFails, Crash, ReadReceipt, Answer
<1>4. ASSUME NEW c \in Callers, Admit(c) PROVE SpendInv'
  <2>1. operation[c] \in Operations
    BY DEF IInv, TypeOK
  <2> QED
    BY <1>4, <2>1, AdmitSpendInv
<1>5. ASSUME NEW o \in Operations, ExpireLease(o) PROVE SpendInv'
  BY <1>1, <1>5 DEF ExpireLease
<1> QED
  BY <1>2, <1>3, <1>4, <1>5 DEF Next

LEMMA SpendInvariance == Spec => [](IInv /\ UsedInv /\ SpendInv)
<1>1. Init => IInv /\ UsedInv /\ SpendInv
  BY InitIInv, InitSpendInv
<1>2. IInv /\ UsedInv /\ SpendInv /\ [Next]_vars => (IInv /\ UsedInv /\ SpendInv)'
  BY NextIInv, NextUsedInv, NextSpendInv
<1> QED
  BY <1>1, <1>2, PTL DEF Spec

(* What was called was admitted, and cost no more than its bound.          *)
LEMMA SpendHolds == ASSUME IInv, SpendInv PROVE BudgetHolds
<1> DEFINE costs == [o \in Called |-> Cost(o)]
<1>1. Called \subseteq Operations /\ IsFiniteSet(Called) /\ IsFiniteSet(Admitted)
  <2>1. Called \subseteq Operations /\ Admitted \subseteq Operations
    BY DEF Called, Admitted
  <2> QED
    BY <2>1, OperationsAssumption, FS_Subset
<1>2. Called \subseteq Admitted
  <2> SUFFICES ASSUME NEW o \in Operations, receipts[o].attempts > 0 PROVE grants[o] # {}
    BY DEF Called, Admitted
  <2>1. /\ Granted(o) \in Nat /\ grants[o] = 1 .. Granted(o) /\ receipts[o].attempts <= Granted(o)
        /\ receipts[o].attempts \in Nat
    BY MaxAttemptsAssumption DEF IInv, GrantsInv, TypeOK, Receipts
  <2>2. 1 \in 1 .. Granted(o)
    BY <2>1
  <2> HIDE DEF Granted
  <2> QED
    BY <2>1, <2>2
<1>3. \A o \in Called : costs[o] \in Nat /\ costs[o] <= Bounds[o]
  BY <1>1, BoundBounds DEF Bounds
<1>4. \A o \in Operations : Bounds[o] \in Nat
  BY BoundBounds DEF Bounds
<1>5. SumFunction(costs) = SumFunctionOnSet(costs, Called)
  BY DEF SumFunction
<1>6. SumFunction(costs) <= MaxTokens
  <2> HIDE DEF costs
  <2>1. SumFunctionOnSet(costs, Called) <= SumFunctionOnSet(Bounds, Operations)
    BY <1>1, <1>3, <1>4, OperationsAssumption, SumBelow
  <2>2. SumFunctionOnSet(costs, Called) \in Nat
    BY <1>1, <1>3, SumType
  <2> QED
    BY <1>5, <2>1, <2>2, BoundsSum, LimitsAssumption DEF SpendInv
<1>7. Cardinality(Called) <= MaxOperations
  <2>1. Cardinality(Called) <= Cardinality(Admitted) /\ Cardinality(Called) \in Nat
        /\ Cardinality(Admitted) \in Nat
    BY <1>1, <1>2, FS_Subset, FS_CardinalityType
  <2> QED
    BY <2>1, LimitsAssumption DEF SpendInv
<1> QED
  BY <1>6, <1>7 DEF BudgetHolds

-----------------------------------------------------------------------------
(* What RunBudget is about.                                                *)

(* The books stay consistent with the receipts in every reachable state.   *)
THEOREM Invariance == Spec => []IInv
<1>1. Init => IInv
  BY InitIInv
<1>2. IInv /\ [Next]_vars => IInv'
  BY NextIInv
<1> QED
  BY <1>1, <1>2, PTL DEF Spec

(* Receipts, admissions, what was read and the callers stay in their types, *)
(* and a returned usage never exceeds what an attempt reserved.             *)
THEOREM TypeCorrect == Spec => []TypeOK
  BY Invariance, PTL DEF IInv

(* claim_pending: every call the Provider gets was admitted for that very  *)
(* attempt, and no operation has more than one admission outstanding.      *)
THEOREM EveryCallAdmitted == Spec => []EachCallIsAdmitted
<1>1. IInv => EachCallIsAdmitted
  <2> SUFFICES ASSUME IInv, NEW o \in Operations
               PROVE  /\ refs[o] = [n \in 1 .. receipts[o].attempts |-> n]
                      /\ \A n \in DOMAIN refs[o] : refs[o][n] \in grants[o]
                      /\ Cardinality(grants[o]) <= receipts[o].attempts + 1
    BY DEF EachCallIsAdmitted
  <2>1. /\ refs[o] = [n \in 1 .. receipts[o].attempts |-> n]
        /\ Granted(o) \in Nat /\ grants[o] = 1 .. Granted(o)
        /\ receipts[o].attempts <= Granted(o) /\ Granted(o) <= receipts[o].attempts + 1
        /\ receipts[o].attempts \in Nat
    BY MaxAttemptsAssumption DEF IInv, GrantsInv, TypeOK, Receipts
  <2>2. Cardinality(grants[o]) = Granted(o)
    BY DEF Granted
  <2> HIDE DEF Granted
  <2> QED
    BY <2>1, <2>2
<1> QED
  BY <1>1, Invariance, PTL

(* _admission_map and _project_allocation: an admission never finds the    *)
(* books of the Run contradictory, whatever claims come in between its     *)
(* reads.                                                                  *)
THEOREM BooksNeverContradict == Spec => []BooksAgree
  BY Invariance, PTL DEF IInv

(* admit: whatever invocations race, die, retry or answer late, and however *)
(* stale the receipts it added up, what the Provider charged stays within  *)
(* the tokens and the operations that were authorized.                     *)
THEOREM BudgetIsKept == Spec => []BudgetHolds
  BY SpendInvariance, SpendHolds, PTL
===============================================================================
