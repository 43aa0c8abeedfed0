----------------------- MODULE ProviderOperationProofs -----------------------
(***************************************************************************)
(* Machine-checked proofs about ProviderOperation, for every set of        *)
(* invocations, every set of payloads and every attempt limit.             *)
(***************************************************************************)
EXTENDS ProviderOperation, TLAPS

Answered == receipt.status \in {"returned", "succeeded", "contract_rejected"}

(* The lease names the claimer of the open head of the ledger.             *)
LeaseInv ==
  /\ receipt.live => receipt.owner # NoCaller
  /\ receipt.owner # NoCaller =>
       /\ receipt.status = "pending"
       /\ receipt.attempts \in Attempts
       /\ receipt.ledger[receipt.attempts].end = "open"
       /\ receipt.ledger[receipt.attempts].claimer = receipt.owner
  /\ \A a \in Attempts : receipt.ledger[a].end = "open" => receipt.owner # NoCaller

(* Each claimed attempt belongs to the one invocation that holds it; only  *)
(* superseded attempts expired, and only the head returned.                *)
LedgerInv ==
  /\ Readable(receipt)
  /\ \A a \in Attempts :
       /\ a <= receipt.attempts =>
            /\ receipt.ledger[a].claimer \in Callers
            /\ attempt[receipt.ledger[a].claimer] = a
       /\ receipt.ledger[a].end = "lease_expired" => a < receipt.attempts
       /\ receipt.ledger[a].end = "provider_returned" => a = receipt.attempts /\ Answered

(* What a receipt in each status holds.                                    *)
StatusInv ==
  /\ receipt.status = "absent" => receipt.attempts = 0
  /\ Answered =>
       /\ receipt.attempts \in Attempts
       /\ receipt.ledger[receipt.attempts].end = "provider_returned"
       /\ held[receipt.ledger[receipt.attempts].claimer] = receipt.payload
       /\ receipt.payload \in Payloads
  /\ ~Answered => receipt.payload = NoPayload
  /\ receipt.status = "succeeded" =>
       /\ receipt.verdict = receipt.payload
       /\ receipt.payload \in candidates \cap ValidPayloads

(* What an invocation at each step knows.                                  *)
CallerInv ==
  \A c \in Callers :
    /\ pc[c] \in {"idle", "claim"} \/ outcome[c] = "busy" => attempt[c] = 0
    /\ pc[c] # "done" => outcome[c] = NoOutcome
    /\ pc[c] = "claim" => receipt.status # "absent"
    /\ attempt[c] # 0 => receipt.ledger[attempt[c]].claimer = c
    /\ attempt[c] <= receipt.attempts
    /\ pc[c] = "waiting" =>
         /\ attempt[c] # 0
         /\ receipt.ledger[attempt[c]].end \in {"open", "lease_expired"}
    /\ pc[c] \in {"reject", "parse", "succeed"} => Answered /\ held[c] = receipt.payload
    /\ pc[c] = "succeed" => held[c] \in candidates \cap ValidPayloads

IInv == TypeOK /\ LeaseInv /\ LedgerInv /\ StatusInv /\ CallerInv /\ ResultsAgree

-----------------------------------------------------------------------------
(* The initial state satisfies the invariant.                              *)
LEMMA InitIInv == Init => IInv
<1> SUFFICES ASSUME Init PROVE IInv
  OBVIOUS
<1> USE MaxAttemptsAssumption, OutcomesAssumption DEF Init, Attempts, AbsentReceipt, Unclaimed
<1>1. TypeOK
  BY DEF TypeOK, Receipts, Statuses, LedgerEntries, Steps
<1>2. LeaseInv
  BY DEF LeaseInv
<1>3. LedgerInv
  BY DEF LedgerInv, Readable, Terminals
<1>4. StatusInv
  BY DEF StatusInv, Answered
<1>5. CallerInv /\ ResultsAgree
  BY DEF CallerInv, ResultsAgree, NoOutcome
<1> QED
  BY <1>1, <1>2, <1>3, <1>4, <1>5 DEF IInv

(* begin creates the receipt or reads it: the ledger does not change.      *)
LEMMA BeginIInv == ASSUME IInv, NEW c \in Callers, Begin(c) PROVE IInv'
<1> USE DEF IInv, Begin, Hold, Goto, Finish
<1>1. TypeOK'
  BY OutcomesAssumption DEF TypeOK, Begun, Receipts, Statuses, Steps, Recovered, Errors
<1>2. /\ receipt'.owner = receipt.owner /\ receipt'.live = receipt.live
      /\ receipt'.attempts = receipt.attempts /\ receipt'.ledger = receipt.ledger
      /\ receipt'.payload = receipt.payload /\ receipt'.verdict = receipt.verdict
      /\ receipt'.status = IF receipt.status = "absent" THEN "pending" ELSE receipt.status
  BY DEF TypeOK, Begun, Receipts
<1>3. LeaseInv'
  BY <1>2 DEF LeaseInv
<1>4. LedgerInv'
  BY <1>2 DEF LedgerInv, Readable, Answered
<1>5. StatusInv'
  BY <1>2 DEF StatusInv, Answered, CallerInv, LedgerInv, TypeOK, Attempts
<1>6. CallerInv'
  BY <1>1, <1>2 DEF CallerInv, Answered, TypeOK, Errors
<1>7. ResultsAgree'
  BY <1>1, <1>2, OutcomesAssumption DEF ResultsAgree, StatusInv, Recovered, Errors, TypeOK
<1> QED
  BY <1>1, <1>3, <1>4, <1>5, <1>6, <1>7

(* What a claim does to the receipt, attempt by attempt.                   *)
TakenOver(c) ==
  /\ receipt.attempts < MaxAttempts
  /\ ~receipt.live
  /\ receipt'.owner = c /\ receipt'.live
  /\ receipt'.status = "pending"
  /\ receipt'.attempts = receipt.attempts + 1
  /\ receipt'.payload = receipt.payload /\ receipt'.verdict = receipt.verdict
  /\ receipt' = [receipt EXCEPT !.owner = c, !.live = TRUE,
                                !.attempts = receipt.attempts + 1,
                                !.ledger = receipt'.ledger]
  /\ receipt'.ledger \in [Attempts -> LedgerEntries]
  /\ receipt'.ledger[receipt.attempts + 1] =
       [claimer |-> c, end |-> "open", closer |-> NoCaller]
  /\ \A a \in Attempts : a > receipt.attempts + 1 =>
       receipt'.ledger[a] = receipt.ledger[a]
  /\ \A a \in Attempts : a <= receipt.attempts =>
       /\ receipt'.ledger[a].claimer = receipt.ledger[a].claimer
       /\ IF receipt.ledger[a].end = "open"
            THEN /\ receipt'.ledger[a].end = "lease_expired"
                 /\ receipt'.ledger[a].closer = receipt.ledger[a].claimer
            ELSE receipt'.ledger[a] = receipt.ledger[a]

(* A caller at "claim" has no attempt, so it does not own the lease, and   *)
(* the lease it takes over has run out.                                    *)
LEMMA ClaimTakesOver == ASSUME IInv, NEW c \in Callers, Claim(c) PROVE TakenOver(c)
<1> USE CallersAssumption, MaxAttemptsAssumption
<1>1. receipt.owner # c
  BY DEF IInv, LeaseInv, CallerInv, LedgerInv, Claim, TypeOK, Attempts
<1>2. receipt.attempts < MaxAttempts /\ ~receipt.live
  BY <1>1 DEF IInv, LeaseInv, Claim, Claimable, LeasedToOther
<1> DEFINE next == receipt.attempts + 1
           old  == IF receipt.owner = NoCaller
                     THEN receipt.ledger
                     ELSE Closed(receipt.ledger, receipt.attempts, "lease_expired", receipt.owner)
           entry == [claimer |-> c, end |-> "open", closer |-> NoCaller]
<1>3. next \in Attempts /\ receipt.attempts \in Nat
  BY <1>2 DEF IInv, TypeOK, Receipts, Attempts
<1>4. /\ old \in [Attempts -> LedgerEntries]
      /\ \A a \in Attempts : a > receipt.attempts => old[a] = receipt.ledger[a]
      /\ \A a \in Attempts : a <= receipt.attempts =>
              /\ old[a].claimer = receipt.ledger[a].claimer
              /\ IF receipt.ledger[a].end = "open"
                   THEN /\ old[a].end = "lease_expired"
                        /\ old[a].closer = receipt.ledger[a].claimer
                   ELSE old[a] = receipt.ledger[a]
  BY <1>3 DEF IInv, TypeOK, Receipts, LedgerEntries, LeaseInv, LedgerInv, Readable, Closed, Terminals
<1>5. receipt' = [receipt EXCEPT !.owner = c, !.live = TRUE, !.attempts = next,
                                 !.ledger = [old EXCEPT ![next] = entry]]
  BY DEF Claim, ClaimedBy
<1>6. entry \in LedgerEntries
  BY DEF LedgerEntries
<1> HIDE DEF old
<1>7. /\ receipt'.ledger = [old EXCEPT ![next] = entry]
      /\ receipt' = [receipt EXCEPT !.owner = c, !.live = TRUE, !.attempts = next,
                                    !.ledger = receipt'.ledger]
  BY <1>5 DEF IInv, TypeOK, Receipts
<1>8. /\ receipt'.owner = c /\ receipt'.live /\ receipt'.status = "pending"
      /\ receipt'.attempts = next
      /\ receipt'.payload = receipt.payload /\ receipt'.verdict = receipt.verdict
  BY <1>5 DEF IInv, TypeOK, Receipts, Claim
<1> HIDE DEF entry
<1>9. /\ receipt'.ledger \in [Attempts -> LedgerEntries]
      /\ receipt'.ledger[next] = entry
      /\ \A a \in Attempts \ {next} : receipt'.ledger[a] = old[a]
  BY <1>3, <1>4, <1>6, <1>7
<1>10. \A a \in Attempts : a <= receipt.attempts => a # next /\ ~(a > receipt.attempts)
  BY <1>3 DEF Attempts
<1>11. \A a \in Attempts : a > next => a # next /\ a > receipt.attempts
  BY <1>3 DEF Attempts
<1> QED
  BY <1>2, <1>4, <1>7, <1>8, <1>9, <1>10, <1>11 DEF entry, TakenOver

LEMMA ClaimIInv == ASSUME IInv, NEW c \in Callers, Claim(c) PROVE IInv'
<1>0. TakenOver(c)
  BY ClaimTakesOver
<1> USE <1>0 DEF TakenOver
<1>1. /\ attempt' = [attempt EXCEPT ![c] = receipt.attempts + 1]
      /\ pc' = [pc EXCEPT ![c] = "waiting"]
      /\ UNCHANGED <<candidates, seen, held, outcome>>
      /\ receipt.status = "pending" /\ pc[c] = "claim"
  BY DEF Claim, Goto
<1>2. TypeOK'
  <2> DEFINE ledger == receipt'.ledger
  <2>0. /\ receipt.attempts + 1 \in 0 .. MaxAttempts
        /\ ledger \in [Attempts -> LedgerEntries]
        /\ receipt' = [receipt EXCEPT !.owner = c, !.live = TRUE,
                                      !.attempts = receipt.attempts + 1, !.ledger = ledger]
        /\ receipt \in Receipts
    BY MaxAttemptsAssumption DEF IInv, TypeOK, Receipts
  <2> HIDE <1>0 DEF ledger
  <2>1. receipt' \in Receipts
    BY <2>0 DEF Receipts
  <2> QED
    BY <1>1, <2>0, <2>1 DEF IInv, TypeOK, Steps
<1>3. receipt.attempts + 1 \in Attempts /\ receipt.attempts \in Nat
  BY MaxAttemptsAssumption DEF IInv, TypeOK, Receipts, Attempts
<1>4. LeaseInv'
  BY <1>3, CallersAssumption DEF LeaseInv, Attempts
<1>5. \A a \in Attempts : a <= receipt.attempts \/ a = receipt.attempts + 1 \/ a > receipt.attempts + 1
  BY <1>3 DEF Attempts
<1>6. Readable(receipt)'
  <2> SUFFICES ASSUME NEW a \in Attempts
               PROVE  /\ receipt'.ledger[a].end = "unclaimed" <=> a > receipt'.attempts
                      /\ receipt'.ledger[a].end = "open" => a = receipt'.attempts
                      /\ receipt'.ledger[a].end \in Terminals
                           => receipt'.ledger[a].closer = receipt'.ledger[a].claimer
    BY DEF Readable
  <2>1. CASE a <= receipt.attempts
    BY <2>1, <1>3 DEF IInv, LedgerInv, Readable, Terminals, Attempts
  <2>2. CASE a = receipt.attempts + 1
    BY <2>2, <1>3 DEF Terminals
  <2>3. CASE a > receipt.attempts + 1
    BY <2>3, <1>3 DEF IInv, LedgerInv, Readable, Terminals, Attempts
  <2> QED
    BY <1>5, <2>1, <2>2, <2>3
<1>7. LedgerInv'
  <2> SUFFICES ASSUME NEW a \in Attempts
               PROVE  /\ a <= receipt'.attempts =>
                           /\ receipt'.ledger[a].claimer \in Callers
                           /\ attempt'[receipt'.ledger[a].claimer] = a
                      /\ receipt'.ledger[a].end = "lease_expired" => a < receipt'.attempts
                      /\ receipt'.ledger[a].end = "provider_returned" => a = receipt'.attempts /\ Answered'
    BY <1>6 DEF LedgerInv
  <2>1. CASE a <= receipt.attempts
    <3>1. receipt.ledger[a].claimer # c
      BY <2>1, <1>1, <1>3 DEF IInv, LedgerInv, CallerInv, Attempts
    <3> QED
      BY <2>1, <3>1, <1>1, <1>3 DEF IInv, TypeOK, LedgerInv, Answered, Attempts
  <2>2. CASE a = receipt.attempts + 1
    BY <2>2, <1>1, <1>3 DEF IInv, TypeOK
  <2>3. CASE a > receipt.attempts + 1
    BY <2>3, <1>3 DEF IInv, LedgerInv, Readable, Attempts
  <2> QED
    BY <1>5, <2>1, <2>2, <2>3
<1>8. StatusInv'
  BY <1>1 DEF IInv, StatusInv, Answered
<1>9. CallerInv'
  <2> SUFFICES ASSUME NEW d \in Callers
               PROVE  /\ pc'[d] \in {"idle", "claim"} \/ outcome'[d] = "busy" => attempt'[d] = 0
                      /\ pc'[d] # "done" => outcome'[d] = NoOutcome
                      /\ pc'[d] = "claim" => receipt'.status # "absent"
                      /\ attempt'[d] # 0 => receipt'.ledger[attempt'[d]].claimer = d
                      /\ attempt'[d] <= receipt'.attempts
                      /\ pc'[d] = "waiting" =>
                           /\ attempt'[d] # 0
                           /\ receipt'.ledger[attempt'[d]].end \in {"open", "lease_expired"}
                      /\ pc'[d] \in {"reject", "parse", "succeed"} =>
                           Answered' /\ held'[d] = receipt'.payload
                      /\ pc'[d] = "succeed" => held'[d] \in candidates' \cap ValidPayloads
    BY DEF CallerInv
  <2>1. CASE d = c
    BY <2>1, <1>1, <1>3 DEF IInv, TypeOK, CallerInv, NoOutcome
  <2>2. CASE d # c
    <3>1. attempt'[d] = attempt[d] /\ pc'[d] = pc[d] /\ attempt[d] \in 0 .. MaxAttempts
      BY <2>2, <1>1 DEF IInv, TypeOK
    <3>2. attempt[d] <= receipt.attempts
      BY DEF IInv, CallerInv
    <3> QED
      BY <3>1, <3>2, <1>1, <1>3 DEF IInv, CallerInv, Answered, Attempts
  <2> QED
    BY <2>1, <2>2
<1>10. ResultsAgree'
  BY <1>1 DEF IInv, ResultsAgree
<1> QED
  BY <1>2, <1>4, <1>7, <1>8, <1>9, <1>10 DEF IInv

(* The steps that only read the receipt.                                   *)
LEMMA ReadingIInv ==
  ASSUME IInv, NEW c \in Callers,
         ClaimRefused(c) \/ ClaimTooLate(c) \/ Crash(c) \/ Retry(c) \/ SaveCandidate(c)
  PROVE  IInv'
<1> USE DEF ClaimRefused, ClaimTooLate, Crash, Retry, SaveCandidate, Hold, Goto, Finish
<1>1. TypeOK'
  <2>1. receipt \in Receipts /\ receipt.status \in Statuses /\ receipt.payload \in Payloads \cup {NoPayload}
    BY DEF IInv, TypeOK, Receipts
  <2>2. outcome' \in [Callers -> Payloads \cup Errors \cup {NoOutcome}]
    BY DEF IInv, TypeOK, Errors, NoOutcome
  <2>3. pc' \in [Callers -> Steps]
    BY DEF IInv, TypeOK, Steps
  <2>4. candidates' \subseteq Payloads
    BY DEF IInv, TypeOK, CallerInv, StatusInv
  <2> QED
    BY <2>1, <2>2, <2>3, <2>4 DEF IInv, TypeOK
<1>2. receipt' = receipt /\ attempt' = attempt /\ candidates \subseteq candidates'
  OBVIOUS
<1>3. /\ \A d \in Callers : attempt[d] # 0 => held'[d] = held[d]
  BY DEF IInv, TypeOK, CallerInv
<1>4. LeaseInv' /\ LedgerInv'
  BY <1>2 DEF IInv, LeaseInv, LedgerInv, Answered, Readable
<1>5. StatusInv'
  BY <1>2, <1>3 DEF IInv, StatusInv, LedgerInv, Answered, Attempts
<1>6. CallerInv'
  BY <1>1, <1>2 DEF IInv, CallerInv, TypeOK, Answered, Statuses, Receipts, NoOutcome
<1>7. ResultsAgree'
  BY <1>1, <1>2, OutcomesAssumption DEF IInv, ResultsAgree, TypeOK, Errors, NoOutcome
<1> QED
  BY <1>1, <1>4, <1>5, <1>6, <1>7 DEF IInv

(* A fenced invocation that may still write to a pending receipt is the    *)
(* lease owner, and its attempt is the open head of the ledger.            *)
LEMMA FencedWriterOwnsHead ==
  ASSUME IInv, NEW c \in Callers, pc[c] = "waiting", receipt.status = "pending",
         MayTransition(receipt, c, attempt[c])
  PROVE  /\ attempt[c] = receipt.attempts
         /\ attempt[c] \in Attempts
         /\ attempt[c] # NoFence
         /\ receipt.owner = c
         /\ receipt.ledger[receipt.attempts].end = "open"
         /\ receipt.ledger[receipt.attempts].claimer = c
<1>1. attempt[c] # 0 /\ attempt[c] \in Attempts
  BY MaxAttemptsAssumption DEF IInv, TypeOK, CallerInv, Attempts
<1>2. attempt[c] = receipt.attempts
  BY <1>1 DEF MayTransition, NoFence
<1>3. receipt.ledger[receipt.attempts].end = "open"
  BY <1>1, <1>2 DEF IInv, CallerInv, LedgerInv, Attempts
<1> QED
  BY <1>1, <1>2, <1>3 DEF IInv, CallerInv, LeaseInv, NoFence

(* What closing the head does to the receipt.                              *)
HeadClosed(c, kind, status, payload) ==
  /\ receipt.status = "pending"
  /\ attempt[c] = receipt.attempts
  /\ attempt[c] \in Attempts
  /\ receipt.ledger[receipt.attempts].claimer = c
  /\ receipt'.status = status
  /\ receipt'.payload = payload
  /\ receipt'.owner = NoCaller /\ ~receipt'.live
  /\ receipt'.attempts = receipt.attempts
  /\ receipt'.verdict = receipt.verdict
  /\ receipt'.ledger \in [Attempts -> LedgerEntries]
  /\ \A a \in Attempts : receipt'.ledger[a].claimer = receipt.ledger[a].claimer
  /\ \A a \in Attempts \ {attempt[c]} : receipt'.ledger[a] = receipt.ledger[a]
  /\ receipt'.ledger[attempt[c]].end = kind
  /\ receipt'.ledger[attempt[c]].closer = c
  /\ receipt' \in Receipts

LEMMA ReleaseClosesHead ==
  ASSUME IInv, NEW c \in Callers, pc[c] = "waiting", receipt.status = "pending",
         CanRelease(receipt, c, attempt[c]), receipt' = Released(receipt, c, attempt[c])
  PROVE  HeadClosed(c, "transport_failed", "pending", receipt.payload)
<1>1. /\ attempt[c] = receipt.attempts /\ attempt[c] \in Attempts /\ attempt[c] # NoFence
      /\ receipt.ledger[receipt.attempts].end = "open"
      /\ receipt.ledger[receipt.attempts].claimer = c
  BY FencedWriterOwnsHead DEF CanRelease
<1> DEFINE ledger == [receipt.ledger EXCEPT ![attempt[c]].end = "transport_failed",
                                            ![attempt[c]].closer = c]
<1>2. receipt' = [receipt EXCEPT !.owner = NoCaller, !.live = FALSE, !.ledger = ledger]
  BY <1>1 DEF Released, Closed, FencedAttempt, IInv, TypeOK, Receipts
<1>3. receipt \in Receipts /\ receipt.ledger \in [Attempts -> LedgerEntries]
  BY DEF IInv, TypeOK, Receipts
<1>4. ledger \in [Attempts -> LedgerEntries]
  BY <1>1, <1>3 DEF LedgerEntries, Terminals
<1>5. /\ \A a \in Attempts : ledger[a].claimer = receipt.ledger[a].claimer
      /\ \A a \in Attempts \ {attempt[c]} : ledger[a] = receipt.ledger[a]
      /\ ledger[attempt[c]].end = "transport_failed" /\ ledger[attempt[c]].closer = c
  BY <1>1, <1>3 DEF LedgerEntries
<1> HIDE DEF ledger
<1>6. receipt' \in Receipts
  BY <1>2, <1>3, <1>4 DEF Receipts
<1>7. /\ receipt'.status = "pending" /\ receipt'.payload = receipt.payload
      /\ receipt'.owner = NoCaller /\ ~receipt'.live /\ receipt'.ledger = ledger
      /\ receipt'.attempts = receipt.attempts /\ receipt'.verdict = receipt.verdict
  BY <1>2, <1>3 DEF Receipts
<1> QED
  BY <1>1, <1>4, <1>5, <1>6, <1>7 DEF HeadClosed

LEMMA ReturnClosesHead ==
  ASSUME IInv, NEW c \in Callers, NEW p \in Payloads, pc[c] = "waiting",
         receipt.status = "pending",
         CanReturn(receipt, c, attempt[c], p), receipt' = Returned(receipt, c, attempt[c], p)
  PROVE  HeadClosed(c, "provider_returned", "returned", p)
<1>1. /\ attempt[c] = receipt.attempts /\ attempt[c] \in Attempts /\ attempt[c] # NoFence
      /\ receipt.ledger[receipt.attempts].end = "open"
      /\ receipt.ledger[receipt.attempts].claimer = c
  BY FencedWriterOwnsHead DEF CanReturn
<1> DEFINE ledger == [receipt.ledger EXCEPT ![attempt[c]].end = "provider_returned",
                                            ![attempt[c]].closer = c]
<1>2. receipt' = [receipt EXCEPT !.status = "returned", !.payload = p, !.owner = NoCaller,
                                 !.live = FALSE, !.ledger = ledger]
  BY <1>1 DEF Returned, Closed, FencedAttempt, IInv, TypeOK, Receipts
<1>3. receipt \in Receipts /\ receipt.ledger \in [Attempts -> LedgerEntries]
  BY DEF IInv, TypeOK, Receipts
<1>4. ledger \in [Attempts -> LedgerEntries]
  BY <1>1, <1>3 DEF LedgerEntries, Terminals
<1>5. /\ \A a \in Attempts : ledger[a].claimer = receipt.ledger[a].claimer
      /\ \A a \in Attempts \ {attempt[c]} : ledger[a] = receipt.ledger[a]
      /\ ledger[attempt[c]].end = "provider_returned" /\ ledger[attempt[c]].closer = c
  BY <1>1, <1>3 DEF LedgerEntries
<1> HIDE DEF ledger
<1>6. receipt' \in Receipts
  BY <1>2, <1>3, <1>4 DEF Receipts, Statuses
<1>7. /\ receipt'.status = "returned" /\ receipt'.payload = p
      /\ receipt'.owner = NoCaller /\ ~receipt'.live /\ receipt'.ledger = ledger
      /\ receipt'.attempts = receipt.attempts /\ receipt'.verdict = receipt.verdict
  BY <1>2, <1>3 DEF Receipts
<1> QED
  BY <1>1, <1>4, <1>5, <1>6, <1>7 DEF HeadClosed

(* Closing the head keeps the lease and ledger parts, whichever way it     *)
(* ends.                                                                   *)
LEMMA ClosedHeadLedger ==
  ASSUME IInv, NEW c \in Callers, NEW p, attempt' = attempt,
         \/ HeadClosed(c, "transport_failed", "pending", p)
         \/ HeadClosed(c, "provider_returned", "returned", p)
  PROVE  LeaseInv' /\ LedgerInv'
<1> USE DEF HeadClosed
<1>0. receipt.attempts \in Nat
  BY MaxAttemptsAssumption DEF Attempts
<1>1. LeaseInv'
  BY <1>0 DEF IInv, LeaseInv, LedgerInv, Readable, Attempts
<1>2. Readable(receipt)'
  <2> SUFFICES ASSUME NEW a \in Attempts
               PROVE  /\ receipt'.ledger[a].end = "unclaimed" <=> a > receipt'.attempts
                      /\ receipt'.ledger[a].end = "open" => a = receipt'.attempts
                      /\ receipt'.ledger[a].end \in Terminals
                           => receipt'.ledger[a].closer = receipt'.ledger[a].claimer
    BY DEF Readable
  <2>1. CASE a = attempt[c]
    BY <2>1, <1>0
  <2>2. CASE a # attempt[c]
    BY <2>2 DEF IInv, LedgerInv, Readable
  <2> QED
    BY <2>1, <2>2
<1>3. LedgerInv'
  BY <1>0, <1>2 DEF IInv, LedgerInv, Answered, Attempts
<1> QED
  BY <1>1, <1>3

LEMMA ProviderFailsIInv == ASSUME IInv, NEW c \in Callers, ProviderFails(c) PROVE IInv'
<1> USE DEF ProviderFails, Finish
<1>1. CASE receipt.status = "pending" /\ CanRelease(receipt, c, attempt[c])
  <2>1. HeadClosed(c, "transport_failed", "pending", receipt.payload)
    BY <1>1, ReleaseClosesHead
  <2>2. TypeOK'
    BY <2>1 DEF HeadClosed, IInv, TypeOK, Steps, Errors
  <2>3. LeaseInv' /\ LedgerInv'
    BY <2>1, ClosedHeadLedger
  <2>4. StatusInv'
    BY <2>1 DEF HeadClosed, IInv, StatusInv, Answered
  <2>5. CallerInv'
    BY <2>1, <2>2 DEF HeadClosed, IInv, CallerInv, TypeOK, Answered, Attempts
  <2>6. ResultsAgree'
    BY <2>1, <2>2, OutcomesAssumption DEF HeadClosed, IInv, ResultsAgree, TypeOK, Errors
  <2> QED
    BY <2>2, <2>3, <2>4, <2>5, <2>6 DEF IInv
<1>2. CASE ~(receipt.status = "pending" /\ CanRelease(receipt, c, attempt[c]))
  <2>1. receipt' = receipt /\ UNCHANGED <<candidates, attempt, seen, held>>
    BY <1>2
  <2>2. TypeOK'
    BY <2>1 DEF IInv, TypeOK, Steps, Errors
  <2>3. LeaseInv' /\ LedgerInv' /\ StatusInv'
    BY <2>1 DEF IInv, LeaseInv, LedgerInv, StatusInv, Answered, Readable
  <2>4. CallerInv'
    BY <2>1 DEF IInv, CallerInv, TypeOK, Answered
  <2>5. ResultsAgree'
    BY <2>1, OutcomesAssumption DEF IInv, ResultsAgree, TypeOK, Errors
  <2> QED
    BY <2>2, <2>3, <2>4, <2>5 DEF IInv
<1> QED
  BY <1>1, <1>2

(* While c waits, a recorded return is never c's own, and never fits c's   *)
(* fence: a late answer changes nothing.                                   *)
LEMMA LateAnswerIsFenced ==
  ASSUME IInv, NEW c \in Callers, NEW p \in Payloads, pc[c] = "waiting",
         CanReturn(receipt, c, attempt[c], p)
  PROVE  receipt.status = "pending"
<1>1. attempt[c] \in Attempts /\ attempt[c] # 0
  BY MaxAttemptsAssumption DEF IInv, TypeOK, CallerInv, Attempts
<1>2. attempt[c] = receipt.attempts
  BY <1>1 DEF CanReturn, MayTransition, NoFence
<1> QED
  BY <1>1, <1>2 DEF CanReturn, IInv, CallerInv, StatusInv, Answered

LEMMA ProviderAnswersIInv ==
  ASSUME IInv, NEW c \in Callers, NEW p \in Payloads, NEW w \in BOOLEAN,
         ProviderAnswers(c, p, w)
  PROVE  IInv'
<1> USE DEF ProviderAnswers, Finish, Goto, Hold
<1>1. CASE CanReturn(receipt, c, attempt[c], p)
  <2>1. HeadClosed(c, "provider_returned", "returned", p)
    BY <1>1, LateAnswerIsFenced, ReturnClosesHead
  <2>2. TypeOK'
    BY <1>1, <2>1 DEF HeadClosed, IInv, TypeOK, Steps, Statuses
  <2>3. LeaseInv' /\ LedgerInv'
    BY <2>1, ClosedHeadLedger
  <2>4. StatusInv'
    BY <1>1, <2>1 DEF HeadClosed, IInv, TypeOK, StatusInv, Answered
  <2>5. CallerInv'
    <3>1. /\ Answered' /\ held'[c] = receipt'.payload /\ attempt[c] # 0
          /\ pc'[c] \in {"parse", "reject"} /\ outcome'[c] # "busy" /\ outcome'[c] = NoOutcome
      BY <1>1, <2>1 DEF HeadClosed, IInv, CallerInv, TypeOK, Answered, NoOutcome
    <3>2. \A d \in Callers \ {c} :
            /\ pc'[d] = pc[d] /\ outcome'[d] = outcome[d] /\ held'[d] = held[d]
            /\ attempt[d] # 0 => attempt[d] # attempt[c] /\ attempt[d] \in Attempts
            /\ pc[d] \notin {"reject", "parse", "succeed"}
      BY <1>1, <2>1, MaxAttemptsAssumption
         DEF HeadClosed, IInv, CallerInv, TypeOK, Answered, Attempts
    <3> QED
      BY <2>1, <3>1, <3>2 DEF HeadClosed, IInv, CallerInv
  <2>6. ResultsAgree'
    BY <1>1, <2>1 DEF HeadClosed, IInv, ResultsAgree
  <2> QED
    BY <2>2, <2>3, <2>4, <2>5, <2>6 DEF IInv
<1>2. CASE ~CanReturn(receipt, c, attempt[c], p)
  <2>1. receipt' = receipt /\ UNCHANGED <<candidates, attempt, seen, held>>
    BY <1>2
  <2>2. TypeOK'
    BY <1>2 DEF IInv, TypeOK, Steps, Errors
  <2>3. LeaseInv' /\ LedgerInv' /\ StatusInv'
    BY <2>1 DEF IInv, LeaseInv, LedgerInv, StatusInv, Answered, Readable
  <2>4. CallerInv'
    BY <1>2, <2>1 DEF IInv, CallerInv, TypeOK, Answered
  <2>5. ResultsAgree'
    BY <1>2, <2>1, OutcomesAssumption DEF IInv, ResultsAgree, TypeOK, Errors
  <2> QED
    BY <2>2, <2>3, <2>4, <2>5 DEF IInv
<1> QED
  BY <1>1, <1>2

(* A verdict is written once, on a recorded return.                        *)
LEMMA ConcludeIInv ==
  ASSUME IInv, NEW c \in Callers,
         RejectEnvelope(c) \/ RejectArtifact(c) \/ Succeed(c)
  PROVE  IInv'
<1> USE DEF RejectEnvelope, RejectArtifact, Succeed, Conclude, Finish
<1>1. Answered /\ held[c] = receipt.payload
  BY DEF IInv, CallerInv
<1>2. PICK status \in {"succeeded", "contract_rejected"},
           verdict \in Payloads \cup Diagnostics,
           result \in Payloads \cup {"contract"} :
        /\ Conclude(c, status, verdict, result)
        /\ status = "succeeded" =>
             verdict = receipt.payload /\ result = receipt.payload
             /\ receipt.payload \in candidates \cap ValidPayloads
        /\ status = "contract_rejected" => result = "contract"
  <2>1. CASE RejectEnvelope(c) \/ RejectArtifact(c)
    BY <2>1 DEF Diagnostics
  <2>2. CASE Succeed(c)
    BY <2>2, <1>1 DEF IInv, CallerInv, StatusInv
  <2> QED
    BY <2>1, <2>2
<1>3. UNCHANGED <<candidates, attempt, seen, held>> /\ pc' = [pc EXCEPT ![c] = "done"]
  BY DEF Conclude
<1>4. CASE CanConclude(receipt, status, verdict)
  <2>1. receipt' = Concluded(receipt, status, verdict) /\ outcome' = [outcome EXCEPT ![c] = result]
    BY <1>2, <1>4
  <2>2. /\ receipt'.status = status /\ receipt'.verdict = verdict
        /\ receipt'.owner = NoCaller /\ ~receipt'.live
        /\ receipt'.attempts = receipt.attempts /\ receipt'.ledger = receipt.ledger
        /\ receipt'.payload = receipt.payload
        /\ receipt' \in Receipts
    BY <2>1 DEF Concluded, IInv, TypeOK, Receipts, Statuses
  <2>3. receipt.status = "returned" \/ receipt.status = status
    BY <1>4 DEF CanConclude
  <2>4. TypeOK'
    BY <1>3, <2>1, <2>2 DEF IInv, TypeOK, Steps, Errors
  <2>5. LeaseInv' /\ LedgerInv'
    BY <1>1, <1>3, <2>2 DEF IInv, LeaseInv, LedgerInv, Answered, Readable
  <2>6. StatusInv'
    BY <1>1, <1>2, <1>3, <2>2 DEF IInv, StatusInv, Answered
  <2>7. CallerInv'
    BY <1>1, <1>2, <1>3, <2>1, <2>2, OutcomesAssumption
       DEF IInv, CallerInv, TypeOK, Answered, Errors
  <2>8. ResultsAgree'
    BY <1>1, <1>2, <1>3, <2>1, <2>2, <2>3, OutcomesAssumption
       DEF IInv, ResultsAgree, StatusInv, TypeOK, Errors
  <2> QED
    BY <2>4, <2>5, <2>6, <2>7, <2>8 DEF IInv
<1>5. CASE ~CanConclude(receipt, status, verdict)
  <2>1. receipt' = receipt /\ outcome' = [outcome EXCEPT ![c] = "failed"]
    BY <1>2, <1>5
  <2>2. TypeOK'
    BY <1>3, <2>1 DEF IInv, TypeOK, Steps, Errors
  <2>3. LeaseInv' /\ LedgerInv' /\ StatusInv'
    BY <1>3, <2>1 DEF IInv, LeaseInv, LedgerInv, StatusInv, Answered, Readable
  <2>4. CallerInv'
    BY <1>3, <2>1 DEF IInv, CallerInv, TypeOK, Answered
  <2>5. ResultsAgree'
    BY <1>3, <2>1, OutcomesAssumption DEF IInv, ResultsAgree, TypeOK, Errors
  <2> QED
    BY <2>2, <2>3, <2>4, <2>5 DEF IInv
<1> QED
  BY <1>4, <1>5

LEMMA ExpireLeaseIInv == ASSUME IInv, ExpireLease PROVE IInv'
<1>1. /\ receipt' \in Receipts /\ ~receipt'.live
      /\ receipt'.owner = receipt.owner /\ receipt'.status = receipt.status
      /\ receipt'.attempts = receipt.attempts /\ receipt'.ledger = receipt.ledger
      /\ receipt'.payload = receipt.payload /\ receipt'.verdict = receipt.verdict
      /\ UNCHANGED <<candidates, pc, attempt, seen, held, outcome>>
  BY DEF ExpireLease, LeaseExpired, IInv, TypeOK, Receipts
<1> QED
  BY <1>1 DEF IInv, TypeOK, LeaseInv, LedgerInv, StatusInv, CallerInv, ResultsAgree, Answered, Readable

-----------------------------------------------------------------------------
LEMMA NextIInv == IInv /\ [Next]_vars => IInv'
<1> SUFFICES ASSUME IInv, [Next]_vars PROVE IInv'
  OBVIOUS
<1>1. CASE ExpireLease
  BY <1>1, ExpireLeaseIInv
<1>2. ASSUME NEW c \in Callers, Advance(c) PROVE IInv'
  BY <1>2, BeginIInv, ClaimIInv, ReadingIInv, ProviderFailsIInv, ProviderAnswersIInv, ConcludeIInv
     DEF Advance
<1>3. ASSUME NEW c \in Callers, Crash(c) PROVE IInv'
  BY <1>3, ReadingIInv
<1>4. CASE UNCHANGED vars
  BY <1>4 DEF vars, IInv, TypeOK, LeaseInv, LedgerInv, StatusInv, CallerInv, ResultsAgree,
              Answered, Readable
<1> QED
  BY <1>1, <1>2, <1>3, <1>4 DEF Next

(* The inductive invariant holds of every behaviour.                       *)
THEOREM Invariance == Spec => []IInv
  BY InitIInv, NextIInv, PTL DEF Spec

(* Every variable keeps its type: in particular the attempt counter never  *)
(* passes the limit claim_pending enforces.                                *)
THEOREM TypeCorrect == Spec => []TypeOK
<1>1. IInv => TypeOK
  BY DEF IInv
<1> QED
  BY <1>1, Invariance, PTL

(* No interleaving of stale writers makes the receipt unreadable.          *)
THEOREM ReceiptStaysReadable == Spec => []ReceiptReadable
<1>1. IInv => ReceiptReadable
  BY DEF IInv, LedgerInv, ReceiptReadable
<1> QED
  BY <1>1, Invariance, PTL

(* Every call is charged to an attempt of its own.                         *)
THEOREM CallsStayCharged == Spec => []CallsAreCharged
<1>1. IInv => CallsAreCharged
  BY DEF IInv, CallerInv, CallsAreCharged
<1> QED
  BY <1>1, Invariance, PTL

(* Calls overlap only after a lease ran out.                               *)
THEOREM SingleFlightHolds == Spec => []SingleFlight
<1>1. IInv => SingleFlight
  <2> SUFFICES ASSUME IInv, NEW c \in Waiting, NEW d \in Waiting, attempt[c] < attempt[d]
               PROVE  receipt.ledger[attempt[c]].end = "lease_expired"
    BY DEF SingleFlight
  <2>1. attempt[c] \in Attempts /\ attempt[d] <= receipt.attempts
    BY MaxAttemptsAssumption DEF IInv, TypeOK, CallerInv, Waiting, Attempts
  <2>2. attempt[c] # receipt.attempts
    BY <2>1 DEF IInv, TypeOK, Receipts, Waiting
  <2> QED
    BY <2>1, <2>2 DEF IInv, CallerInv, LedgerInv, Readable, Waiting
<1> QED
  BY <1>1, Invariance, PTL

(* The recorded return belongs to the last claimed attempt.                *)
THEOREM ReturnStaysClaimants == Spec => []ReturnIsClaimants
<1>1. IInv => ReturnIsClaimants
  BY MaxAttemptsAssumption
     DEF IInv, TypeOK, Receipts, Statuses, StatusInv, Answered, Attempts, ReturnIsClaimants
<1> QED
  BY <1>1, Invariance, PTL

(* Invocations never report different verdicts.                            *)
THEOREM ResultsAlwaysAgree == Spec => []ResultsAgree
<1>1. IInv => ResultsAgree
  BY DEF IInv
<1> QED
  BY <1>1, Invariance, PTL

-----------------------------------------------------------------------------
(* Only the lease running out, or its owner's call coming back, changes a  *)
(* leased receipt.                                                         *)
OwnerReports ==
  receipt.live /\ receipt' # receipt =>
    \/ receipt' = LeaseExpired(receipt)
    \/ pc[receipt.owner] = "waiting" /\ pc'[receipt.owner] # "waiting"

LEMMA LeasedStep == IInv /\ [Next]_vars => OwnerReports
<1> SUFFICES ASSUME IInv, [Next]_vars, receipt.live, receipt' # receipt
             PROVE  \/ receipt' = LeaseExpired(receipt)
                    \/ pc[receipt.owner] = "waiting" /\ pc'[receipt.owner] # "waiting"
  BY DEF OwnerReports
<1>1. receipt.status = "pending" /\ receipt.owner # NoCaller
  BY DEF IInv, LeaseInv
<1>2. CASE ExpireLease
  BY <1>2 DEF ExpireLease
<1>3. ASSUME NEW c \in Callers, Advance(c) \/ Crash(c)
      PROVE  pc[receipt.owner] = "waiting" /\ pc'[receipt.owner] # "waiting"
  <2>1. CASE Begin(c)
    BY <1>1, <2>1 DEF Begin, Begun
  <2>2. CASE Claim(c)
    BY <2>2, ClaimTakesOver DEF TakenOver
  <2>3. CASE ProviderFails(c)
    <3>1. CanRelease(receipt, c, attempt[c]) /\ pc[c] = "waiting"
      BY <2>3 DEF ProviderFails
    <3>2. receipt.owner = c
      BY <1>1, <3>1, FencedWriterOwnsHead DEF CanRelease
    <3> QED
      BY <2>3, <3>1, <3>2 DEF ProviderFails, Finish, IInv, TypeOK
  <2>4. ASSUME NEW p \in Payloads, NEW w \in BOOLEAN, ProviderAnswers(c, p, w)
        PROVE  pc[receipt.owner] = "waiting" /\ pc'[receipt.owner] # "waiting"
    <3>1. CanReturn(receipt, c, attempt[c], p) /\ pc[c] = "waiting"
      BY <2>4 DEF ProviderAnswers
    <3>2. receipt.owner = c
      BY <1>1, <3>1, FencedWriterOwnsHead DEF CanReturn
    <3> QED
      BY <2>4, <3>1, <3>2 DEF ProviderAnswers, Goto, IInv, TypeOK
  <2>5. CASE RejectEnvelope(c) \/ RejectArtifact(c) \/ Succeed(c)
    BY <1>1, <2>5 DEF RejectEnvelope, RejectArtifact, Succeed, IInv, CallerInv, Answered
  <2>6. CASE ClaimRefused(c) \/ ClaimTooLate(c) \/ SaveCandidate(c) \/ Retry(c) \/ Crash(c)
    BY <2>6 DEF ClaimRefused, ClaimTooLate, SaveCandidate, Retry, Crash
  <2> QED
    BY <1>3, <2>1, <2>2, <2>3, <2>4, <2>5, <2>6 DEF Advance
<1> QED
  BY <1>2, <1>3 DEF Next, vars

THEOREM LeaseStaysExclusive == Spec => LeaseIsExclusive
<1>1. IInv /\ [Next]_vars => [OwnerReports]_vars
  BY LeasedStep
<1> QED
  BY <1>1, Invariance, PTL DEF Spec, LeaseIsExclusive, OwnerReports

-----------------------------------------------------------------------------
(* The refinement of ProviderCall, step by step.                           *)
LEMMA InitImplementsCall == Init => Call!Init
  BY DEF Init, AbsentReceipt, Call!Init, Phase

LEMMA StepImplementsCall == IInv /\ IInv' /\ [Next]_vars => [Call!Next]_Call!callVars
<1> SUFFICES ASSUME IInv, IInv', [Next]_vars PROVE [Call!Next]_Call!callVars
  OBVIOUS
<1> USE DEF Call!callVars
<1>1. CASE ExpireLease
  BY <1>1 DEF ExpireLease, LeaseExpired, IInv, TypeOK, Receipts, Phase
<1>2. ASSUME NEW c \in Callers, Begin(c) PROVE UNCHANGED Call!callVars
  BY <1>2 DEF Begin, Begun, IInv, TypeOK, Receipts, Phase
<1>3. ASSUME NEW c \in Callers, Claim(c) PROVE Call!Call
  BY <1>3, ClaimTakesOver DEF TakenOver, Claim, Call!Call, Phase
<1>4. ASSUME NEW c \in Callers, ProviderFails(c) PROVE UNCHANGED Call!callVars
  BY <1>4, ReleaseClosesHead DEF ProviderFails, HeadClosed, Phase
<1>5. ASSUME NEW c \in Callers, NEW p \in Payloads, NEW w \in BOOLEAN, ProviderAnswers(c, p, w)
      PROVE  Call!Next \/ UNCHANGED Call!callVars
  <2>1. CASE CanReturn(receipt, c, attempt[c], p)
    <3>1. HeadClosed(c, "provider_returned", "returned", p)
      BY <1>5, <2>1, LateAnswerIsFenced, ReturnClosesHead DEF ProviderAnswers
    <3>2. Call!Answer(p)
      BY <3>1 DEF HeadClosed, Attempts, Call!Answer, Phase
    <3> QED
      BY <3>2 DEF Call!Next
  <2>2. CASE ~CanReturn(receipt, c, attempt[c], p)
    BY <1>5, <2>2 DEF ProviderAnswers, Phase
  <2> QED
    BY <2>1, <2>2
<1>6. ASSUME NEW c \in Callers, RejectEnvelope(c) \/ RejectArtifact(c) \/ Succeed(c)
      PROVE  Call!Accept \/ Call!Reject \/ UNCHANGED Call!callVars
  <2>1. Answered /\ held[c] = receipt.payload
    BY <1>6 DEF IInv, CallerInv, RejectEnvelope, RejectArtifact, Succeed
  <2>2. receipt' = receipt
        \/ /\ receipt'.attempts = receipt.attempts /\ receipt'.payload = receipt.payload
           /\ \/ receipt'.status = receipt.status
              \/ receipt.status = "returned" /\ receipt'.status = "contract_rejected"
              \/ /\ receipt.status = "returned" /\ receipt'.status = "succeeded"
                 /\ held[c] \in ValidPayloads
    <3>1. ASSUME NEW status, NEW verdict, NEW result, Conclude(c, status, verdict, result)
          PROVE  receipt' = receipt
                 \/ /\ receipt'.attempts = receipt.attempts /\ receipt'.payload = receipt.payload
                    /\ receipt'.status = status /\ receipt.status \in {"returned", status}
      BY <3>1 DEF Conclude, CanConclude, Concluded, IInv, TypeOK, Receipts
    <3>2. CASE RejectEnvelope(c)
      BY <3>1, <3>2 DEF RejectEnvelope
    <3>3. CASE RejectArtifact(c)
      <4>1. PICK verdict : Conclude(c, "contract_rejected", verdict, "contract")
        BY <3>3 DEF RejectArtifact
      <4> QED
        BY <3>1, <4>1
    <3>4. CASE Succeed(c)
      <4>1. Conclude(c, "succeeded", held[c], held[c]) /\ held[c] \in ValidPayloads
        BY <3>4 DEF Succeed, IInv, CallerInv
      <4> QED
        BY <3>1, <4>1
    <3> QED
      BY <1>6, <3>2, <3>3, <3>4
  <2> QED
    BY <2>1, <2>2 DEF Call!Accept, Call!Reject, Phase
<1>7. ASSUME NEW c \in Callers,
             \/ ClaimRefused(c) \/ ClaimTooLate(c) \/ SaveCandidate(c) \/ Retry(c) \/ Crash(c)
      PROVE  UNCHANGED Call!callVars
  BY <1>7 DEF ClaimRefused, ClaimTooLate, SaveCandidate, Retry, Crash, Phase
<1>8. CASE UNCHANGED vars
  BY <1>8 DEF vars, Phase
<1> QED
  BY <1>1, <1>2, <1>3, <1>4, <1>5, <1>6, <1>7, <1>8 DEF Next, Advance, Call!Next

(* Crashes, races and lease takeovers never break the abstract promise.    *)
THEOREM RefinesProviderCall == Spec => ImplementsProviderCall
  BY InitImplementsCall, StepImplementsCall, Invariance, PTL
     DEF Spec, ImplementsProviderCall, Call!Spec

=============================================================================
