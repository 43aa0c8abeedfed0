-------------------------- MODULE ProviderOperation --------------------------
(***************************************************************************)
(* Phase32RouteDriver.generate_stage: several invocations race on one      *)
(* operation key.  Each begins the receipt, claims a transport attempt,    *)
(* calls the Provider, records the raw return under its attempt fence,     *)
(* parses it, saves the candidate Artifact and records the verdict.  An    *)
(* invocation may crash between any two of those steps (a killed process   *)
(* and a cancelled task look alike: nothing is released), and its lease    *)
(* may expire while its call is in flight.                                 *)
(***************************************************************************)
EXTENDS ProviderReceipt

CONSTANT ValidPayloads  \* those the stage's Artifact contract accepts

ASSUME ValidPayloadsAssumption == ValidPayloads \subseteq Payloads

VARIABLES
  receipt,     \* the receipt file
  candidates,  \* candidate Artifacts saved for this operation key
  pc,          \* where each invocation stands
  attempt,     \* receipt.transport_attempts it claimed (0: none)
  seen,        \* status of the receipt it holds in memory
  held,        \* raw payload it holds in memory
  outcome      \* the candidate it returned, or the error it raised

vars == <<receipt, candidates, pc, attempt, seen, held, outcome>>

Steps == {"idle", "claim", "waiting", "reject", "parse", "succeed", "done", "crashed"}

(* "busy" is the retryable "already running" error; "retryable" a failed   *)
(* transport or an exhausted attempt limit; "contract" the stage's         *)
(* provider_contract_failed; "failed" every other error.                   *)
Errors == {"busy", "retryable", "contract", "failed"}
NoOutcome == "none"

ASSUME OutcomesAssumption == Payloads \cap (Errors \cup {NoOutcome}) = {}

TypeOK ==
  /\ receipt \in Receipts
  /\ candidates \subseteq Payloads
  /\ pc \in [Callers -> Steps]
  /\ attempt \in [Callers -> 0 .. MaxAttempts]
  /\ seen \in [Callers -> Statuses]
  /\ held \in [Callers -> Payloads \cup {NoPayload}]
  /\ outcome \in [Callers -> Payloads \cup Errors \cup {NoOutcome}]

Init ==
  /\ receipt = AbsentReceipt
  /\ candidates = {}
  /\ pc = [c \in Callers |-> "idle"]
  /\ attempt = [c \in Callers |-> 0]
  /\ seen = [c \in Callers |-> "absent"]
  /\ held = [c \in Callers |-> NoPayload]
  /\ outcome = [c \in Callers |-> NoOutcome]

Goto(c, step) == pc' = [pc EXCEPT ![c] = step] /\ UNCHANGED outcome

Finish(c, result) ==
  /\ pc' = [pc EXCEPT ![c] = "done"]
  /\ outcome' = [outcome EXCEPT ![c] = result]

(* The caller keeps the receipt a store method returned.                   *)
Hold(c, status, payload) ==
  /\ seen' = [seen EXCEPT ![c] = status]
  /\ held' = [held EXCEPT ![c] = payload]

(* _candidate_from_succeeded_receipt: the saved candidate is read back.    *)
Recovered == IF receipt.verdict \in candidates THEN receipt.verdict ELSE "failed"

-----------------------------------------------------------------------------
(* provider_inputs.write and provider_operations.begin.                    *)
Begin(c) ==
  /\ pc[c] = "idle"
  /\ receipt' = Begun(receipt)
  /\ Hold(c, receipt'.status, receipt'.payload)
  /\ \/ receipt'.status = "pending" /\ Goto(c, "claim")
     \/ receipt'.status = "returned" /\ Goto(c, "parse")
     \/ receipt'.status = "succeeded" /\ Finish(c, Recovered)
     \/ receipt'.status = "contract_rejected" /\ Finish(c, "contract")
  /\ UNCHANGED <<candidates, attempt>>

(* Mutant: claim_pending does not look at the status.                      *)
ClaimAnyStatus(c) ==
  /\ pc[c] = "claim"
  /\ Claimable(receipt, c)
  /\ receipt' = ClaimedBy(receipt, c)
  /\ attempt' = [attempt EXCEPT ![c] = receipt'.attempts]
  /\ Goto(c, "waiting")
  /\ UNCHANGED <<candidates, seen, held>>

(* claim_pending wins: the gateway call starts.                            *)
Claim(c) ==
  /\ pc[c] = "claim"
  /\ receipt.status = "pending"
  /\ Claimable(receipt, c)
  /\ receipt' = ClaimedBy(receipt, c)
  /\ attempt' = [attempt EXCEPT ![c] = receipt'.attempts]
  /\ Goto(c, "waiting")
  /\ UNCHANGED <<candidates, seen, held>>

(* claim_pending raises: another lease is running, or no attempt is left.  *)
ClaimRefused(c) ==
  /\ pc[c] = "claim"
  /\ receipt.status = "pending"
  /\ ~Claimable(receipt, c)
  /\ Finish(c, IF LeasedToOther(receipt, c) THEN "busy" ELSE "retryable")
  /\ UNCHANGED <<receipt, candidates, attempt, seen, held>>

(* Somebody recorded a return since begin: no call, go on from it.         *)
ClaimTooLate(c) ==
  /\ pc[c] = "claim"
  /\ receipt.status # "pending"
  /\ Hold(c, receipt.status, receipt.payload)
  /\ Goto(c, "parse")
  /\ UNCHANGED <<receipt, candidates, attempt>>

(* gateway.generate raises; release_pending, whose conflict is swallowed.  *)
ProviderFails(c) ==
  /\ pc[c] = "waiting"
  /\ receipt' = IF receipt.status = "pending" /\ CanRelease(receipt, c, attempt[c])
                  THEN Released(receipt, c, attempt[c])
                  ELSE receipt
  /\ Finish(c, "retryable")
  /\ UNCHANGED <<candidates, attempt, seen, held>>

(* Mutant: the driver records the return without its attempt fence.        *)
ProviderAnswersUnfenced(c, payload, wellFormed) ==
  /\ pc[c] = "waiting"
  /\ IF CanReturn(receipt, c, NoFence, payload)
       THEN /\ receipt' = Returned(receipt, c, NoFence, payload)
            /\ Hold(c, receipt'.status, receipt'.payload)
            /\ Goto(c, IF wellFormed THEN "parse" ELSE "reject")
       ELSE /\ Finish(c, "failed")
            /\ UNCHANGED <<receipt, seen, held>>
  /\ UNCHANGED <<candidates, attempt>>

(* gateway.generate answers; record_return persists the raw payload before *)
(* it is parsed.  A malformed envelope is recorded too, then rejected.     *)
ProviderAnswers(c, payload, wellFormed) ==
  /\ pc[c] = "waiting"
  /\ IF CanReturn(receipt, c, attempt[c], payload)
       THEN /\ receipt' = Returned(receipt, c, attempt[c], payload)
            /\ Hold(c, receipt'.status, receipt'.payload)
            /\ Goto(c, IF wellFormed THEN "parse" ELSE "reject")
       ELSE /\ Finish(c, "failed")
            /\ UNCHANGED <<receipt, seen, held>>
  /\ UNCHANGED <<candidates, attempt>>

Conclude(c, status, verdict, result) ==
  IF CanConclude(receipt, status, verdict)
    THEN receipt' = Concluded(receipt, status, verdict) /\ Finish(c, result)
    ELSE receipt' = receipt /\ Finish(c, "failed")

RejectEnvelope(c) ==
  /\ pc[c] = "reject"
  /\ Conclude(c, "contract_rejected", "envelope", "contract")
  /\ UNCHANGED <<candidates, attempt, seen, held>>

(* _candidate_from_returned_receipt: the payload fails the contract...     *)
RejectArtifact(c) ==
  /\ pc[c] = "parse"
  /\ held[c] \notin ValidPayloads
  /\ Conclude(c, "contract_rejected",
              IF seen[c] = "contract_rejected" THEN "artifact_again" ELSE "artifact",
              "contract")
  /\ UNCHANGED <<candidates, attempt, seen, held>>

(* ...or satisfies it: save_candidate is content addressed and idempotent. *)
SaveCandidate(c) ==
  /\ pc[c] = "parse"
  /\ held[c] \in ValidPayloads
  /\ candidates' = candidates \cup {held[c]}
  /\ Goto(c, "succeed")
  /\ UNCHANGED <<receipt, attempt, seen, held>>

Succeed(c) ==
  /\ pc[c] = "succeed"
  /\ Conclude(c, "succeeded", held[c], held[c])
  /\ UNCHANGED <<candidates, attempt, seen, held>>

-----------------------------------------------------------------------------
(* The process is killed or the task cancelled: the lease stays.           *)
Crash(c) ==
  /\ pc[c] \in {"claim", "waiting", "reject", "parse", "succeed"}
  /\ Goto(c, "crashed")
  /\ UNCHANGED <<receipt, candidates, attempt, seen, held>>

(* The Run is started again after an "already running" error.  (Other      *)
(* retries are further members of Callers, as each has a lease owner of    *)
(* its own; this one never wrote its owner anywhere.)                      *)
Retry(c) ==
  /\ pc[c] = "done"
  /\ outcome[c] = "busy"
  /\ pc' = [pc EXCEPT ![c] = "idle"]
  /\ outcome' = [outcome EXCEPT ![c] = NoOutcome]
  /\ UNCHANGED <<receipt, candidates, attempt, seen, held>>

ExpireLease ==
  /\ receipt.live
  /\ receipt' = LeaseExpired(receipt)
  /\ UNCHANGED <<candidates, pc, attempt, seen, held, outcome>>

Advance(c) ==
  \/ Begin(c)
  \/ Claim(c)
  \/ ClaimRefused(c)
  \/ ClaimTooLate(c)
  \/ ProviderFails(c)
  \/ \E payload \in Payloads, wellFormed \in BOOLEAN : ProviderAnswers(c, payload, wellFormed)
  \/ RejectEnvelope(c)
  \/ RejectArtifact(c)
  \/ SaveCandidate(c)
  \/ Succeed(c)
  \/ Retry(c)

Next == ExpireLease \/ \E c \in Callers : Advance(c) \/ Crash(c)

Spec == Init /\ [][Next]_vars

(* An invocation that is not killed keeps running (the gateway call is     *)
(* bounded by its transport timeout) and time passes; nobody has to crash. *)
Fairness == WF_vars(ExpireLease) /\ \A c \in Callers : WF_vars(Advance(c))

FairSpec == Spec /\ Fairness

-----------------------------------------------------------------------------
Waiting == {c \in Callers : pc[c] = "waiting"}

(* The receipt file never becomes malformed (_read_path would refuse it    *)
(* for ever): whatever stale invocation writes last, the ledger closes     *)
(* each attempt once, under the owner that claimed it.                     *)
ReceiptReadable == Readable(receipt)

(* Every Provider call is charged to a transport attempt of its own, so    *)
(* crashes and lease takeovers cannot hide a call from the attempt limit.  *)
CallsAreCharged ==
  \A c \in Callers : attempt[c] # 0 =>
    /\ receipt.ledger[attempt[c]].claimer = c
    /\ \A d \in Callers \ {c} : attempt[d] # attempt[c]

(* Two calls are in flight for one operation only if the lease of the      *)
(* earlier one ran out, and the ledger then says so.                       *)
SingleFlight ==
  \A c, d \in Waiting : attempt[c] < attempt[d] =>
    receipt.ledger[attempt[c]].end = "lease_expired"

(* The recorded return is the one the last claimed attempt obtained: a     *)
(* late answer to a superseded attempt is fenced off.                      *)
ReturnIsClaimants ==
  receipt.status \notin {"absent", "pending"} =>
    /\ receipt.attempts > 0
    /\ receipt.ledger[receipt.attempts].end = "provider_returned"
    /\ held[receipt.ledger[receipt.attempts].claimer] = receipt.payload

(* Invocations never disagree about the verdict, whichever of them, in     *)
(* whatever order, parse the one recorded payload: a returned candidate is *)
(* saved and is what the receipt succeeded with, and a reported contract   *)
(* rejection is the recorded one.                                          *)
ResultsAgree ==
  \A c \in Callers :
    /\ outcome[c] \in Payloads =>
         /\ receipt.status = "succeeded"
         /\ receipt.verdict = outcome[c]
         /\ outcome[c] \in candidates \cap ValidPayloads
    /\ outcome[c] = "contract" => receipt.status = "contract_rejected"

(* While a lease runs, the receipt changes only by the lease running out   *)
(* or by its owner's call coming back.                                     *)
LeaseIsExclusive ==
  [][receipt.live /\ receipt' # receipt =>
       \/ receipt' = LeaseExpired(receipt)
       \/ pc[receipt.owner] = "waiting" /\ pc'[receipt.owner] # "waiting"]_vars

(* An invocation that keeps running is told a result or an error other     *)
(* than "already running": the lease of a killed invocation cannot keep    *)
(* the others out for ever.                                                *)
EveryCallerIsAnswered ==
  \A c \in Callers :
    pc[c] = "claim" ~> \/ pc[c] = "crashed"
                       \/ pc[c] = "done" /\ outcome[c] # "busy"

(* The abstract promise: see ProviderCall.                                 *)
Call == INSTANCE ProviderCall WITH
  Answers    <- Payloads,
  Acceptable <- ValidPayloads,
  NoAnswer   <- NoPayload,
  MaxCalls   <- MaxAttempts,
  phase      <- Phase(receipt),
  calls      <- receipt.attempts,
  answer     <- receipt.payload

(* Whoever runs the operation and whoever crashes, it makes a bounded      *)
(* number of calls, none after a return is recorded, and records one       *)
(* return and one verdict on it.                                           *)
ImplementsProviderCall == Call!Spec
=============================================================================
