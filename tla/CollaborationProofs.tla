------------------------- MODULE CollaborationProofs -------------------------
(***************************************************************************)
(* Machine-checked proofs about Collaboration, for every set of POSTs and  *)
(* payloads and every number of attempts and restarts.                     *)
(***************************************************************************)
EXTENDS Collaboration, TLAPS

(* Where a POST does not hold the event loop, and one that answered.       *)
Rest == {"idle", "waiting", "done"}
Answered == receipt.status \in {"returned", "succeeded", "contract_rejected"}

(* What the receipt says: only a pending one is leased, an answered one    *)
(* keeps the answer, and success stands for a result that is on disk.      *)
ReceiptInv ==
  /\ receipt.live => receipt.owner # NoCaller
  /\ receipt.owner # NoCaller => receipt.status = "pending"
  /\ IF Answered THEN receipt.payload \in Payloads ELSE receipt.payload = NoPayload
  /\ receipt.status = "succeeded" =>
       /\ receipt.payload \in ValidPayloads
       /\ message = receipt.payload
       /\ patches[receipt.payload] # "none"
  /\ turn = "completed" => receipt.status = "succeeded"

(* What a POST at a step knows: what it read of the receipt is still true. *)
PostAt(c, step) ==
  /\ step = "stream" =>
       seen[c] = receipt.status /\ receipt.status # "absent" /\ held[c] = receipt.payload
  /\ step = "claim" => receipt.status = "pending"
  /\ step = "waiting" => receipt.attempts > 0
  /\ step \in {"parse", "patch", "flag", "message", "succeed"} =>
       Answered /\ held[c] = receipt.payload
  /\ step \in {"patch", "flag", "message", "succeed"} => held[c] \in ValidPayloads
  /\ step = "flag" => patches[held[c]] = "proposed"
  /\ step \in {"message", "succeed"} => patches[held[c]] # "none"
  /\ step = "succeed" => message = held[c]
  /\ step = "complete" => receipt.status = "succeeded"

PostInv == \A c \in Callers : PostAt(c, pc[c])

(* The event loop and the store's lock each have one holder.               *)
LoopInv == \A c, d \in Callers : pc[c] \notin Rest /\ pc[d] \notin Rest => c = d
StoreInv == deciding => \A c \in Callers : pc[c] # "flag"

IInv ==
  TypeOK /\ ReceiptInv /\ PostInv /\ LoopInv /\ StoreInv /\ AnswerIsRecorded /\ FlagCoversPatch

-----------------------------------------------------------------------------
LEMMA InitIInv == Init => IInv
<1> SUFFICES ASSUME Init PROVE IInv
  OBVIOUS
<1> USE MaxAttemptsAssumption, MaxRestartsAssumption DEF Init, AbsentReceipt
<1>1. AbsentReceipt \in Receipts
  BY DEF Receipts, Statuses, LedgerEntries, Unclaimed, Attempts
<1>2. TypeOK
  <2>1. restarts \in 0 .. MaxRestarts
    OBVIOUS
  <2>2. thread \in [status : {"active", "deleted"}, unapplied : BOOLEAN]
    OBVIOUS
  <2> QED
    BY <1>1, <2>1, <2>2 DEF TypeOK, TurnStatuses, Steps, Statuses
<1>3. ReceiptInv /\ PostInv
  BY DEF ReceiptInv, Answered, PostInv, PostAt
<1>4. LoopInv /\ StoreInv
  BY DEF LoopInv, StoreInv, Rest
<1>5. AnswerIsRecorded /\ FlagCoversPatch
  BY DEF AnswerIsRecorded, FlagCoversPatch, Proposed
<1> QED
  BY <1>2, <1>3, <1>4, <1>5 DEF IInv

LEMMA ReceiptTypes ==
  ASSUME IInv
  PROVE  /\ receipt \in Receipts /\ receipt.ledger \in [Attempts -> LedgerEntries]
         /\ receipt.attempts \in Nat
  BY MaxAttemptsAssumption DEF IInv, TypeOK, Receipts

(* Closing an attempt keeps the ledger's type.                             *)
LEMMA ClosedType ==
  ASSUME NEW ledger \in [Attempts -> LedgerEntries], NEW a, NEW kind \in Terminals,
         NEW c \in Callers \cup {NoCaller}
  PROVE  Closed(ledger, a, kind, c) \in [Attempts -> LedgerEntries]
  BY DEF Closed, LedgerEntries

(* A step of one POST that leaves the receipt and the answers alone.       *)
LEMMA PostMoves ==
  ASSUME IInv, NEW c \in Callers, NEW step \in Steps \ {"flag"},
         pc[c] # "flag", pc[c] \notin Rest \/ HasLoop(c),
         pc' = [pc EXCEPT ![c] = step], PostAt(c, step),
         turn' \in TurnStatuses, turn' = "completed" => receipt.status = "succeeded",
         UNCHANGED <<receipt, answers, thread, stale, seen, held, workers, restarts>>
  PROVE  IInv'
<1>1. \A d \in Callers \ {c} : pc'[d] = pc[d] /\ pc[d] \in Rest
  BY DEF IInv, TypeOK, LoopInv, HasLoop, Rest
<1>2. pc'[c] = step
  BY DEF IInv, TypeOK
<1>3. TypeOK'
  BY DEF IInv, TypeOK, answers, workers
<1>4. ReceiptInv' /\ AnswerIsRecorded'
  BY DEF IInv, ReceiptInv, AnswerIsRecorded, Answered, answers
<1>5. PostInv'
  BY <1>1, <1>2 DEF IInv, PostInv, PostAt, Answered, answers
<1>6. LoopInv' /\ StoreInv'
  BY <1>1, <1>2 DEF IInv, LoopInv, StoreInv, Rest, workers
<1>7. FlagCoversPatch'
  BY <1>1, <1>2 DEF IInv, FlagCoversPatch, StoreFree, Proposed, Rest, answers, workers
<1> QED
  BY <1>3, <1>4, <1>5, <1>6, <1>7 DEF IInv

(* A step of one POST that writes the receipt, which keeps what others     *)
(* have read of it.                                                        *)
LEMMA ReceiptMoves ==
  ASSUME IInv, NEW c \in Callers, NEW step \in Steps \ {"flag"},
         pc[c] # "flag", pc[c] \notin Rest \/ HasLoop(c),
         pc' = [pc EXCEPT ![c] = step],
         receipt' \in Receipts, receipt'.attempts >= receipt.attempts,
         receipt'.live => receipt'.owner # NoCaller,
         receipt'.owner # NoCaller => receipt'.status = "pending",
         IF Answered' THEN receipt'.payload \in Payloads ELSE receipt'.payload = NoPayload,
         Answered => receipt'.payload = receipt.payload,
         receipt.status = "succeeded" => receipt'.status = "succeeded",
         receipt'.status = "succeeded" =>
           /\ receipt'.payload \in ValidPayloads
           /\ message = receipt'.payload
           /\ patches[receipt'.payload] # "none",
         seen' \in [Callers -> Statuses], held' \in [Callers -> Payloads \cup {NoPayload}],
         PostAt(c, step)',
         UNCHANGED <<turn, answers, thread, stale, workers, restarts>>
  PROVE  IInv'
<1>1. \A d \in Callers \ {c} : pc'[d] = pc[d] /\ pc[d] \in Rest
  BY DEF IInv, TypeOK, LoopInv, HasLoop, Rest
<1>2. pc'[c] = step
  BY DEF IInv, TypeOK
<1>3. TypeOK'
  BY DEF IInv, TypeOK, answers, workers
<1>4. ReceiptInv'
  BY DEF IInv, ReceiptInv, answers
<1>5. PostInv'
  <2>1. receipt'.attempts \in Nat /\ receipt.attempts \in Nat
    BY <1>3, MaxAttemptsAssumption DEF IInv, TypeOK, Receipts
  <2>2. \A d \in Callers \ {c} : PostAt(d, pc[d])'
    BY <1>1, <2>1 DEF IInv, PostInv, PostAt, Rest
  <2> QED
    BY <1>2, <2>2 DEF PostInv
<1>6. LoopInv' /\ StoreInv'
  BY <1>1, <1>2 DEF IInv, LoopInv, StoreInv, Rest, workers
<1>7. FlagCoversPatch'
  BY <1>1, <1>2 DEF IInv, FlagCoversPatch, StoreFree, Proposed, Rest, answers, workers
<1>8. AnswerIsRecorded'
  BY ValidPayloadsAssumption, PayloadsAssumption
  DEF IInv, TypeOK, AnswerIsRecorded, ReceiptInv, answers
<1> QED
  BY <1>3, <1>4, <1>5, <1>6, <1>7, <1>8 DEF IInv

(* A step that ends the POST with nothing written.                         *)
LEMMA PostEnds ==
  ASSUME IInv, NEW c \in Callers, pc[c] # "flag", pc[c] \notin Rest \/ HasLoop(c),
         Goto(c, "done"),
         UNCHANGED <<receipt, turn, answers, thread, stale, seen, held, workers, restarts>>
  PROVE  IInv'
<1>1. PostAt(c, "done") /\ "done" \in Steps \ {"flag"}
  BY DEF PostAt, Steps
<1>2. turn' \in TurnStatuses /\ (turn' = "completed" => receipt.status = "succeeded")
  BY DEF IInv, TypeOK, ReceiptInv
<1> QED
  BY <1>1, <1>2, PostMoves DEF Goto

-----------------------------------------------------------------------------
(* The steps of a POST.                                                    *)

LEMMA PostIInv == ASSUME IInv, NEW c \in Callers, Post(c) \/ CreateTurn(c) PROVE IInv'
<1>1. /\ UNCHANGED <<receipt, answers, thread, stale, seen, held, workers, restarts>>
      /\ pc[c] # "flag" /\ (pc[c] \notin Rest \/ HasLoop(c))
  BY DEF Post, CreateTurn, Rest
<1>2. PICK step \in {"create", "begin", "done"} : pc' = [pc EXCEPT ![c] = step]
  BY DEF Post, CreateTurn, Goto
<1>3. turn' \in TurnStatuses /\ (turn' = "completed" => receipt.status = "succeeded")
  BY DEF Post, CreateTurn, IInv, TypeOK, ReceiptInv, TurnStatuses
<1>4. PostAt(c, step) /\ step \in Steps \ {"flag"}
  BY <1>2 DEF PostAt, Steps
<1> QED
  BY <1>1, <1>2, <1>3, <1>4, PostMoves

LEMMA BeginIInv == ASSUME IInv, NEW c \in Callers, Begin(c) PROVE IInv'
<1>1. CASE turn \in Settled \/ stale \/ ~Readable(receipt)
  BY <1>1, PostEnds DEF Begin, Rest
<1>2. CASE ~(turn \in Settled \/ stale \/ ~Readable(receipt))
  <2>1. /\ pc[c] = "begin" /\ pc' = [pc EXCEPT ![c] = "stream"]
        /\ receipt' = Begun(receipt)
        /\ seen' = [seen EXCEPT ![c] = receipt'.status]
        /\ held' = [held EXCEPT ![c] = receipt'.payload]
        /\ UNCHANGED <<turn, answers, thread, stale, workers, restarts>>
    BY <1>2 DEF Begin, Hold, Goto
  <2>2. /\ receipt' \in Receipts /\ receipt'.attempts = receipt.attempts
        /\ receipt'.live = receipt.live /\ receipt'.owner = receipt.owner
        /\ receipt'.payload = receipt.payload
        /\ receipt'.status = IF receipt.status = "absent" THEN "pending" ELSE receipt.status
    BY <2>1 DEF IInv, TypeOK, Begun, Receipts, Statuses
  <2>3. receipt'.payload \in Payloads \cup {NoPayload} /\ receipt'.status \in Statuses
    BY <2>2 DEF Receipts
  <2>4. /\ seen' \in [Callers -> Statuses] /\ held' \in [Callers -> Payloads \cup {NoPayload}]
        /\ seen'[c] = receipt'.status /\ held'[c] = receipt'.payload
    BY <2>1, <2>3 DEF IInv, TypeOK
  <2>5. PostAt(c, "stream")'
    BY <2>2, <2>4 DEF PostAt
  <2>6. (Answered <=> Answered') /\ (receipt.status = "succeeded" <=> receipt'.status = "succeeded")
    BY <2>2 DEF Answered
  <2>7. receipt.attempts \in Nat
    BY MaxAttemptsAssumption DEF IInv, TypeOK, Receipts
  <2>8. /\ receipt'.live => receipt'.owner # NoCaller
        /\ receipt'.owner # NoCaller => receipt'.status = "pending"
        /\ IF Answered' THEN receipt'.payload \in Payloads ELSE receipt'.payload = NoPayload
        /\ receipt'.status = "succeeded" =>
             /\ receipt'.payload \in ValidPayloads
             /\ message = receipt'.payload
             /\ patches[receipt'.payload] # "none"
    BY <2>2, <2>6 DEF IInv, ReceiptInv
  <2>9. "stream" \in Steps \ {"flag"} /\ pc[c] \notin Rest \cup {"flag"}
    BY <2>1 DEF Steps, Rest
  <2>10. receipt'.attempts >= receipt.attempts
    BY <2>2, <2>7
  <2> QED
    BY <2>1, <2>2, <2>4, <2>5, <2>6, <2>8, <2>9, <2>10, ReceiptMoves
<1> QED
  BY <1>1, <1>2

(* transition_turn to a status that is not completed.                      *)
LEMMA MoveTurnIInv ==
  ASSUME IInv, NEW c \in Callers, NEW to \in TurnStatuses, NEW step \in Steps \ {"flag"},
         MoveTurn(c, to, step), PostAt(c, step), pc[c] \notin Rest \cup {"flag"},
         to = "completed" => receipt.status = "succeeded",
         UNCHANGED <<receipt, answers, thread, stale, seen, held, workers, restarts>>
  PROVE  IInv'
<1>1. CASE turn = to \/ MayMove(turn, to)
  BY <1>1, PostMoves DEF MoveTurn, Goto
<1>2. CASE ~(turn = to \/ MayMove(turn, to))
  BY <1>2, PostEnds DEF MoveTurn
<1> QED
  BY <1>1, <1>2

LEMMA StreamIInv == ASSUME IInv, NEW c \in Callers, Stream(c) PROVE IInv'
<1>1. /\ pc[c] = "stream" /\ seen[c] = receipt.status /\ held[c] = receipt.payload
      /\ receipt.status \in {"pending", "returned", "succeeded", "contract_rejected"}
  BY DEF Stream, IInv, TypeOK, Receipts, Statuses, PostInv, PostAt
<1>2. PICK step \in {"complete", "rejectTurn", "parse", "claim"} :
        MoveTurn(c, "streaming", step) /\ PostAt(c, step)
  <2>1. CASE seen[c] = "succeeded"
    BY <1>1, <2>1 DEF Stream, PostAt
  <2>2. CASE seen[c] = "contract_rejected"
    BY <1>1, <2>2 DEF Stream, PostAt
  <2>3. CASE seen[c] = "returned"
    BY <1>1, <2>3 DEF Stream, PostAt, Answered
  <2>4. CASE seen[c] = "pending"
    BY <1>1, <2>4 DEF Stream, PostAt
  <2> QED
    BY <1>1, <2>1, <2>2, <2>3, <2>4
<1> QED
  BY <1>1, <1>2, MoveTurnIInv DEF Stream, Rest, Steps, TurnStatuses

LEMMA SettleTurnIInv ==
  ASSUME IInv, NEW c \in Callers, FailTurn(c) \/ RejectTurn(c) \/ CompleteTurn(c)
  PROVE  IInv'
<1>1. PICK to \in {"failed", "contract_rejected", "completed"} :
        /\ MoveTurn(c, to, "done")
        /\ pc[c] \in {"fail", "rejectTurn", "complete"}
        /\ to = "completed" => pc[c] = "complete"
  BY DEF FailTurn, RejectTurn, CompleteTurn
<1>2. to = "completed" => receipt.status = "succeeded"
  BY <1>1 DEF IInv, PostInv, PostAt
<1>3. PostAt(c, "done")
  BY DEF PostAt
<1> QED
  BY <1>1, <1>2, <1>3, MoveTurnIInv DEF FailTurn, RejectTurn, CompleteTurn, Rest, Steps, TurnStatuses

LEMMA ParseIInv == ASSUME IInv, NEW c \in Callers, Parse(c) PROVE IInv'
<1> DEFINE step == IF held[c] \in ValidPayloads THEN "patch" ELSE "rejectReceipt"
<1>1. Answered /\ held[c] = receipt.payload
  BY DEF Parse, IInv, PostInv, PostAt
<1>2. PostAt(c, step) /\ step \in Steps \ {"flag"}
  BY <1>1 DEF PostAt, Steps
<1>3. pc' = [pc EXCEPT ![c] = step] /\ turn' \in TurnStatuses
      /\ (turn' = "completed" => receipt.status = "succeeded")
  BY DEF Parse, Goto, IInv, TypeOK, ReceiptInv
<1> QED
  BY <1>2, <1>3, PostMoves DEF Parse, Rest

(* claim_pending takes over a pending receipt that nobody holds.           *)
LEMMA ClaimIInv == ASSUME IInv, NEW c \in Callers, NEW ready \in BOOLEAN, Claim(c, ready) PROVE IInv'
<1>1. CASE ~(Readable(receipt) /\ Claimable(receipt, c))
  BY <1>1, PostEnds DEF Claim, Rest
<1>2. CASE Readable(receipt) /\ Claimable(receipt, c)
  <2> DEFINE step == IF ready THEN "waiting" ELSE "done"
  <2>1. /\ pc[c] = "claim" /\ pc' = [pc EXCEPT ![c] = step]
        /\ receipt' = ClaimedBy(receipt, c)
        /\ UNCHANGED <<turn, answers, thread, stale, seen, held, workers, restarts>>
    BY <1>2 DEF Claim, Goto
  <2>2. receipt.status = "pending" /\ receipt.payload = NoPayload
    BY <2>1 DEF IInv, PostInv, PostAt, ReceiptInv, Answered
  <2>3. receipt.attempts \in Nat /\ receipt.attempts + 1 \in Attempts /\ receipt.attempts < MaxAttempts
    BY <1>2, MaxAttemptsAssumption DEF IInv, TypeOK, Receipts, Claimable, Attempts
  <2> DEFINE next == receipt.attempts + 1
             old  == IF receipt.owner = NoCaller
                       THEN receipt.ledger
                       ELSE Closed(receipt.ledger, receipt.attempts, "lease_expired", receipt.owner)
             entry == [claimer |-> c, end |-> "open", closer |-> NoCaller]
             ledger == [old EXCEPT ![next] = entry]
  <2>4. old \in [Attempts -> LedgerEntries]
    BY ClosedType DEF IInv, TypeOK, Receipts, Terminals
  <2>5. entry \in LedgerEntries
    BY DEF LedgerEntries
  <2> HIDE DEF old, entry
  <2>6. ledger \in [Attempts -> LedgerEntries]
    BY <2>4, <2>5
  <2>7. receipt' = [receipt EXCEPT !.owner = c, !.live = TRUE, !.attempts = next, !.ledger = ledger]
    BY <2>1 DEF ClaimedBy, old, entry
  <2> HIDE DEF ledger
  <2>8. /\ receipt' \in Receipts /\ receipt'.status = "pending" /\ receipt'.payload = NoPayload
        /\ receipt'.owner = c /\ receipt'.attempts = next
    <3>1. receipt \in Receipts /\ next \in 0 .. MaxAttempts
      BY <2>3, ReceiptTypes DEF Attempts
    <3>2. receipt' \in Receipts
      BY <2>6, <2>7, <3>1 DEF Receipts
    <3> QED
      BY <2>2, <2>7, <3>1, <3>2 DEF Receipts
  <2>9. c # NoCaller /\ ~Answered /\ ~Answered' /\ receipt'.status # "succeeded" /\ receipt.status # "succeeded"
    BY <2>2, <2>8, CallersAssumption DEF Answered
  <2>10. step \in Steps \ {"flag"} /\ pc[c] \notin Rest \cup {"flag"} /\ PostAt(c, step)'
    BY <2>1, <2>3, <2>8 DEF Steps, Rest, PostAt
  <2>11. seen' \in [Callers -> Statuses] /\ held' \in [Callers -> Payloads \cup {NoPayload}]
    BY <2>1 DEF IInv, TypeOK
  <2>12. receipt'.attempts >= receipt.attempts
    BY <2>3, <2>8
  <2> QED
    BY <2>1, <2>8, <2>9, <2>10, <2>11, <2>12, ReceiptMoves
<1> QED
  BY <1>1, <1>2

LEMMA ProviderFailsIInv == ASSUME IInv, NEW c \in Callers, ProviderFails(c) PROVE IInv'
<1>1. /\ pc[c] = "waiting" /\ HasLoop(c)
      /\ UNCHANGED <<turn, answers, thread, stale, seen, held, workers, restarts>>
  BY DEF ProviderFails
<1>2. PICK step \in {"fail", "done"} : pc' = [pc EXCEPT ![c] = step]
  BY DEF ProviderFails, Goto
<1>3. PostAt(c, step) /\ PostAt(c, step)' /\ step \in Steps \ {"flag"}
  BY DEF PostAt, Steps
<1>4. CASE receipt' = receipt
  <2>1. turn' \in TurnStatuses /\ (turn' = "completed" => receipt.status = "succeeded")
    BY <1>1 DEF IInv, TypeOK, ReceiptInv
  <2> QED
    BY <1>1, <1>2, <1>3, <1>4, <2>1, PostMoves
<1>5. CASE receipt' = Released(receipt, c, NoFence) /\ receipt.status = "pending"
  <2> DEFINE ledger == Closed(receipt.ledger, FencedAttempt(receipt, NoFence), "transport_failed", c)
  <2>1. ledger \in [Attempts -> LedgerEntries]
    BY ClosedType DEF IInv, TypeOK, Receipts, Terminals
  <2>2. receipt' = [receipt EXCEPT !.owner = NoCaller, !.live = FALSE, !.ledger = ledger]
    BY <1>5 DEF Released, IInv, TypeOK, Receipts
  <2> HIDE DEF ledger
  <2>3. /\ receipt' \in Receipts /\ receipt'.owner = NoCaller /\ ~receipt'.live
        /\ receipt'.status = "pending" /\ receipt'.payload = receipt.payload
        /\ receipt'.attempts = receipt.attempts /\ receipt.attempts \in Nat
    <3>1. receipt \in Receipts /\ receipt.attempts \in Nat
      BY ReceiptTypes
    <3>2. receipt' \in Receipts
      BY <2>1, <2>2, <3>1 DEF Receipts
    <3> QED
      BY <1>5, <2>2, <3>1, <3>2 DEF Receipts
  <2>4. ~Answered /\ ~Answered' /\ receipt'.payload = NoPayload
    BY <1>5, <2>3 DEF Answered, IInv, ReceiptInv
  <2>5. seen' \in [Callers -> Statuses] /\ held' \in [Callers -> Payloads \cup {NoPayload}]
    BY <1>1 DEF IInv, TypeOK
  <2>6. receipt.status # "succeeded" /\ receipt'.status # "succeeded" /\ receipt'.attempts >= receipt.attempts
    BY <1>5, <2>3
  <2>7. pc[c] # "flag"
    BY <1>1
  <2> QED
    BY <1>1, <1>2, <1>3, <2>3, <2>4, <2>5, <2>6, <2>7, ReceiptMoves
<1> QED
  BY <1>4, <1>5 DEF ProviderFails

LEMMA ProviderAnswersIInv ==
  ASSUME IInv, NEW c \in Callers, NEW payload \in Payloads, ProviderAnswers(c, payload)
  PROVE  IInv'
<1> DEFINE fits == Readable(receipt) /\ CanReturn(receipt, c, NoFence, payload)
<1>1. CASE ~fits
  BY <1>1, PostEnds DEF ProviderAnswers
<1>2. CASE fits
  <2>1. /\ pc[c] = "waiting" /\ HasLoop(c) /\ pc' = [pc EXCEPT ![c] = "parse"]
        /\ receipt' = Returned(receipt, c, NoFence, payload)
        /\ seen' = [seen EXCEPT ![c] = receipt'.status]
        /\ held' = [held EXCEPT ![c] = receipt'.payload]
        /\ UNCHANGED <<turn, answers, thread, stale, workers, restarts>>
    BY <1>2 DEF ProviderAnswers, Hold, Goto
  <2>2. receipt.attempts \in Nat
    BY MaxAttemptsAssumption DEF IInv, TypeOK, Receipts
  <2>3. /\ receipt' \in Receipts /\ receipt'.attempts = receipt.attempts
        /\ receipt'.live => receipt'.owner # NoCaller
        /\ receipt'.owner # NoCaller => receipt'.status = "pending"
        /\ Answered' /\ receipt'.payload \in Payloads
        /\ Answered => receipt' = receipt
        /\ receipt'.status = "succeeded" => receipt' = receipt
    <3>1. CASE receipt.status = "pending"
      <4> DEFINE ledger == Closed(receipt.ledger, FencedAttempt(receipt, NoFence), "provider_returned", c)
      <4>1. ledger \in [Attempts -> LedgerEntries]
        BY ClosedType DEF IInv, TypeOK, Receipts, Terminals
      <4>2. receipt' = [receipt EXCEPT !.status = "returned", !.payload = payload,
                                       !.owner = NoCaller, !.live = FALSE, !.ledger = ledger]
        BY <2>1, <3>1 DEF Returned, IInv, TypeOK, Receipts
      <4> HIDE DEF ledger
      <4>3. /\ receipt' \in Receipts /\ receipt'.owner = NoCaller /\ ~receipt'.live
            /\ receipt'.status = "returned" /\ receipt'.payload = payload
            /\ receipt'.attempts = receipt.attempts
        BY <4>1, <4>2 DEF IInv, TypeOK, Receipts, Statuses
      <4> QED
        BY <3>1, <4>3 DEF Answered
    <3>2. CASE receipt.status # "pending"
      <4>1. receipt' = receipt
        BY <2>1, <3>2 DEF Returned
      <4>2. receipt.status \in {"returned", "succeeded"}
        BY <1>2, <3>2 DEF CanReturn
      <4> QED
        BY <4>1, <4>2 DEF IInv, TypeOK, ReceiptInv, Answered
    <3> QED
      BY <3>1, <3>2
  <2>4. receipt'.payload \in Payloads \cup {NoPayload} /\ receipt'.status \in Statuses
    BY <2>3 DEF Receipts
  <2>5. /\ seen' \in [Callers -> Statuses] /\ held' \in [Callers -> Payloads \cup {NoPayload}]
        /\ held'[c] = receipt'.payload
    BY <2>1, <2>4 DEF IInv, TypeOK
  <2>6. PostAt(c, "parse")'
    BY <2>3, <2>5 DEF PostAt
  <2>7. "parse" \in Steps \ {"flag"} /\ receipt'.attempts >= receipt.attempts
    BY <2>2, <2>3 DEF Steps
  <2>8. /\ receipt.status = "succeeded" => receipt'.status = "succeeded"
        /\ receipt'.status = "succeeded" =>
             /\ receipt'.payload \in ValidPayloads
             /\ message = receipt'.payload
             /\ patches[receipt'.payload] # "none"
    BY <2>3 DEF IInv, ReceiptInv, Answered
  <2> QED
    BY <2>1, <2>3, <2>5, <2>6, <2>7, <2>8, ReceiptMoves
<1> QED
  BY <1>1, <1>2

(* reject_contract and succeed.                                            *)
LEMMA ConcludeIInv ==
  ASSUME IInv, NEW c \in Callers, pc[c] \notin Rest \cup {"flag"},
         NEW status \in {"succeeded", "contract_rejected"},
         NEW verdict \in Payloads \cup {NoPayload} \cup Diagnostics,
         NEW step \in {"complete", "rejectTurn"},
         step = "complete" => status = "succeeded",
         Conclude(c, status, verdict, step),
         status = "succeeded" =>
           /\ receipt.payload \in ValidPayloads
           /\ message = receipt.payload
           /\ patches[receipt.payload] # "none",
         UNCHANGED <<turn, answers, thread, stale, seen, held, workers, restarts>>
  PROVE  IInv'
<1> DEFINE fits == Readable(receipt) /\ CanConclude(receipt, status, verdict)
<1>1. CASE ~fits
  BY <1>1, PostEnds DEF Conclude
<1>2. CASE fits
  <2>1. receipt' = Concluded(receipt, status, verdict) /\ pc' = [pc EXCEPT ![c] = step]
    BY <1>2 DEF Conclude, Goto
  <2>2. receipt.status \in {"returned", status}
    BY <1>2 DEF CanConclude
  <2>3. /\ receipt' \in Receipts /\ receipt'.attempts = receipt.attempts
        /\ receipt'.owner = NoCaller /\ ~receipt'.live /\ receipt'.status = status
        /\ receipt'.payload = receipt.payload /\ receipt.attempts \in Nat
    <3>1. receipt \in Receipts /\ receipt.attempts \in Nat
      BY ReceiptTypes
    <3>2. receipt' = [receipt EXCEPT !.status = status, !.verdict = verdict,
                                     !.owner = NoCaller, !.live = FALSE]
      BY <2>1 DEF Concluded
    <3>3. receipt' \in Receipts
      BY <3>1, <3>2 DEF Receipts, Statuses
    <3> QED
      BY <3>1, <3>2, <3>3 DEF Receipts
  <2>4. Answered /\ Answered' /\ receipt.payload \in Payloads
    BY <2>2, <2>3 DEF Answered, IInv, ReceiptInv
  <2>5. step \in Steps \ {"flag"} /\ PostAt(c, step)'
    BY <2>3 DEF Steps, PostAt
  <2>6. seen' \in [Callers -> Statuses] /\ held' \in [Callers -> Payloads \cup {NoPayload}]
    BY DEF IInv, TypeOK
  <2>7. receipt'.attempts >= receipt.attempts /\ pc[c] # "flag" /\ pc[c] \notin Rest
    BY <2>3
  <2>8. /\ receipt.status = "succeeded" => receipt'.status = "succeeded"
        /\ receipt'.status = "succeeded" =>
             /\ receipt'.payload \in ValidPayloads
             /\ message = receipt'.payload
             /\ patches[receipt'.payload] # "none"
    BY <2>2, <2>3
  <2> QED
    BY <2>1, <2>3, <2>4, <2>5, <2>6, <2>7, <2>8, ReceiptMoves
<1> QED
  BY <1>1, <1>2

LEMMA RejectReceiptIInv == ASSUME IInv, NEW c \in Callers, RejectReceipt(c) PROVE IInv'
  BY ConcludeIInv DEF RejectReceipt, Rest, Diagnostics

LEMMA SucceedIInv == ASSUME IInv, NEW c \in Callers, Succeed(c) PROVE IInv'
<1>1. /\ pc[c] = "succeed" /\ Conclude(c, "succeeded", held[c], "complete")
      /\ UNCHANGED <<turn, answers, thread, stale, seen, held, workers, restarts>>
  BY DEF Succeed
<1>2. /\ held[c] = receipt.payload /\ held[c] \in ValidPayloads /\ message = held[c]
      /\ patches[held[c]] # "none" /\ held[c] \in Payloads
  BY <1>1, ValidPayloadsAssumption DEF IInv, PostInv, PostAt
<1> QED
  BY <1>1, <1>2, ConcludeIInv DEF Rest

(* write_patch, the flag and write_message.                                *)
LEMMA WritePatchIInv == ASSUME IInv, NEW c \in Callers, WritePatch(c) PROVE IInv'
<1>1. /\ pc[c] = "patch" /\ StoreFree /\ held[c] = receipt.payload /\ held[c] \in ValidPayloads
      /\ Answered /\ UNCHANGED <<receipt, turn, message, thread, stale, seen, held, workers, restarts>>
  BY DEF WritePatch, IInv, PostInv, PostAt
<1>2. CASE patches[held[c]] # "none"
  <2>1. PICK step \in {"message", "done"} : pc' = [pc EXCEPT ![c] = step] /\ patches' = patches
    BY <1>2 DEF WritePatch, Goto
  <2>2. PostAt(c, step) /\ step \in Steps \ {"flag"}
    BY <1>1, <1>2 DEF PostAt, Steps
  <2>3. turn' \in TurnStatuses /\ (turn' = "completed" => receipt.status = "succeeded")
    BY <1>1 DEF IInv, TypeOK, ReceiptInv
  <2> QED
    BY <1>1, <2>1, <2>2, <2>3, PostMoves DEF Rest, answers
<1>3. CASE patches[held[c]] = "none"
  <2>1. patches' = [patches EXCEPT ![held[c]] = "proposed"] /\ pc' = [pc EXCEPT ![c] = "flag"]
    BY <1>3 DEF WritePatch, Goto
  <2>2. \A d \in Callers \ {c} : pc'[d] = pc[d] /\ pc[d] \in Rest
    BY <1>1, <2>1 DEF IInv, TypeOK, LoopInv, Rest
  <2>3. pc'[c] = "flag" /\ patches'[held[c]] = "proposed"
    BY <1>1, <2>1 DEF IInv, TypeOK
  <2>4. TypeOK'
    BY <1>1, <2>1 DEF IInv, TypeOK, Steps, workers
  <2>5. ReceiptInv'
    BY <1>1, <2>1 DEF IInv, TypeOK, ReceiptInv, Answered
  <2>6. PostInv'
    BY <1>1, <2>2, <2>3 DEF IInv, PostInv, PostAt, Rest, Answered
  <2>7. LoopInv' /\ StoreInv'
    BY <1>1, <2>2 DEF LoopInv, StoreInv, Rest, StoreFree, workers
  <2>8. AnswerIsRecorded'
    BY <1>1, <2>1 DEF IInv, TypeOK, AnswerIsRecorded
  <2>9. FlagCoversPatch'
    BY <2>3 DEF FlagCoversPatch, StoreFree
  <2> QED
    BY <2>4, <2>5, <2>6, <2>7, <2>8, <2>9 DEF IInv
<1> QED
  BY <1>2, <1>3

LEMMA FlagPatchIInv == ASSUME IInv, NEW c \in Callers, FlagPatch(c) PROVE IInv'
<1>1. /\ pc[c] = "flag" /\ patches[held[c]] = "proposed" /\ held[c] \in ValidPayloads
      /\ held[c] = receipt.payload /\ Answered
      /\ thread' = [thread EXCEPT !.unapplied = TRUE] /\ pc' = [pc EXCEPT ![c] = "message"]
      /\ UNCHANGED <<receipt, turn, answers, stale, seen, held, workers, restarts>>
  BY DEF FlagPatch, Goto, IInv, PostInv, PostAt
<1>2. \A d \in Callers \ {c} : pc'[d] = pc[d] /\ pc[d] \in Rest
  BY <1>1 DEF IInv, TypeOK, LoopInv, Rest
<1>3. pc'[c] = "message" /\ thread'.unapplied
  BY <1>1 DEF IInv, TypeOK
<1>4. TypeOK'
  BY <1>1 DEF IInv, TypeOK, Steps, workers, answers
<1>5. ReceiptInv' /\ AnswerIsRecorded'
  BY <1>1 DEF IInv, ReceiptInv, Answered, AnswerIsRecorded, answers
<1>6. PostInv'
  BY <1>1, <1>2, <1>3 DEF IInv, PostInv, PostAt, Rest, Answered, answers
<1>7. LoopInv' /\ StoreInv'
  BY <1>1, <1>2, <1>3 DEF IInv, LoopInv, StoreInv, Rest, workers
<1>8. FlagCoversPatch'
  BY <1>1, <1>3 DEF FlagCoversPatch, Proposed, answers
<1> QED
  BY <1>4, <1>5, <1>6, <1>7, <1>8 DEF IInv

LEMMA WriteMessageIInv == ASSUME IInv, NEW c \in Callers, WriteMessage(c) PROVE IInv'
<1>1. /\ pc[c] = "message" /\ held[c] = receipt.payload /\ held[c] \in ValidPayloads
      /\ patches[held[c]] # "none" /\ Answered
      /\ UNCHANGED <<receipt, turn, patches, thread, stale, seen, held, workers, restarts>>
  BY DEF WriteMessage, IInv, PostInv, PostAt
<1>2. message' = held[c] /\ (message # NoPayload => message' = message)
  BY <1>1 DEF WriteMessage, IInv, AnswerIsRecorded
<1>3. pc' = [pc EXCEPT ![c] = "succeed"]
  BY <1>2 DEF WriteMessage, Goto
<1>4. pc'[c] = "succeed" /\ \A d \in Callers \ {c} : pc'[d] = pc[d] /\ pc[d] \in Rest
  BY <1>1, <1>3 DEF IInv, TypeOK, LoopInv, Rest
<1>5. TypeOK'
  BY <1>1, <1>2, <1>3 DEF IInv, TypeOK, Steps, workers
<1>6. ReceiptInv' /\ AnswerIsRecorded'
  BY <1>1, <1>2 DEF IInv, ReceiptInv, Answered, AnswerIsRecorded
<1>7. PostInv'
  BY <1>1, <1>2, <1>4 DEF IInv, PostInv, PostAt, Rest, Answered
<1>8. LoopInv' /\ StoreInv'
  BY <1>1, <1>4 DEF IInv, LoopInv, StoreInv, Rest, workers
<1>9. FlagCoversPatch'
  BY <1>1, <1>4 DEF IInv, FlagCoversPatch, StoreFree, Proposed, Rest, workers
<1> QED
  BY <1>5, <1>6, <1>7, <1>8, <1>9 DEF IInv

-----------------------------------------------------------------------------
(* The other requests, the clock and the process.                          *)

LEMMA CancelIInv == ASSUME IInv, CancelCheck \/ CancelTurn PROVE IInv'
<1>1. UNCHANGED <<receipt, answers, thread, stale, posts, deletion, deciding, restarts>>
  BY DEF CancelCheck, CancelTurn
<1>2. turn' \in TurnStatuses /\ cancel' \in {"idle", "checked"} /\ (turn' = "completed" => turn = "completed")
  BY DEF CancelCheck, CancelTurn, IInv, TypeOK, TurnStatuses
<1>3. TypeOK'
  BY <1>1, <1>2 DEF IInv, TypeOK, answers, posts
<1>4. ReceiptInv' /\ AnswerIsRecorded'
  BY <1>1, <1>2 DEF IInv, ReceiptInv, Answered, AnswerIsRecorded, answers
<1>5. PostInv' /\ LoopInv' /\ StoreInv'
  BY <1>1 DEF IInv, PostInv, PostAt, Answered, LoopInv, StoreInv, answers, posts
<1>6. FlagCoversPatch'
  BY <1>1 DEF IInv, FlagCoversPatch, StoreFree, Proposed, answers, posts
<1> QED
  BY <1>3, <1>4, <1>5, <1>6 DEF IInv

LEMMA DeleteIInv == ASSUME IInv, DeleteRead \/ DeleteCheck \/ DeleteThread PROVE IInv'
<1>1. UNCHANGED <<receipt, turn, answers, stale, posts, cancel, deciding, restarts>>
  BY DEF DeleteRead, DeleteCheck, DeleteThread
<1>2. /\ thread' \in [status : {"active", "deleted"}, unapplied : BOOLEAN]
      /\ thread'.unapplied = thread.unapplied
      /\ deletion' \in {"idle", "read", "checked"}
  BY DEF DeleteRead, DeleteCheck, DeleteThread, IInv, TypeOK
<1>3. TypeOK'
  BY <1>1, <1>2 DEF IInv, TypeOK, answers, posts
<1>4. ReceiptInv' /\ AnswerIsRecorded'
  BY <1>1 DEF IInv, ReceiptInv, Answered, AnswerIsRecorded, answers
<1>5. PostInv' /\ LoopInv' /\ StoreInv'
  BY <1>1 DEF IInv, PostInv, PostAt, Answered, LoopInv, StoreInv, answers, posts
<1>6. FlagCoversPatch'
  BY <1>1, <1>2 DEF IInv, FlagCoversPatch, StoreFree, Proposed, answers, posts
<1> QED
  BY <1>3, <1>4, <1>5, <1>6 DEF IInv

(* A decision never touches a patch that is being written.                 *)
LEMMA DecideIInv ==
  ASSUME IInv, NEW p \in ValidPayloads, NEW status \in {"rejected", "stale"}, DecidePatch(p, status)
  PROVE  IInv'
<1>1. /\ StoreFree /\ patches[p] = "proposed" /\ deciding'
      /\ patches' = [patches EXCEPT ![p] = status]
      /\ UNCHANGED <<receipt, turn, message, thread, stale, posts, cancel, deletion, restarts>>
  BY DEF DecidePatch, Proposed
<1>2. \A q \in ValidPayloads : patches'[q] # "none" <=> patches[q] # "none"
  BY <1>1 DEF IInv, TypeOK
<1>3. TypeOK'
  BY <1>1 DEF IInv, TypeOK, posts
<1>4. ReceiptInv' /\ AnswerIsRecorded'
  BY <1>1, <1>2 DEF IInv, ReceiptInv, Answered, AnswerIsRecorded
<1>5. PostInv'
  BY <1>1, <1>2 DEF IInv, PostInv, PostAt, Answered, StoreFree, posts
<1>6. LoopInv' /\ StoreInv' /\ FlagCoversPatch'
  BY <1>1 DEF IInv, LoopInv, StoreInv, FlagCoversPatch, StoreFree, posts
<1> QED
  BY <1>3, <1>4, <1>5, <1>6 DEF IInv

LEMMA UnflagIInv == ASSUME IInv, UnflagPatch PROVE IInv'
<1>1. /\ deciding' = FALSE /\ thread' = [thread EXCEPT !.unapplied = Proposed # {}]
      /\ UNCHANGED <<receipt, turn, answers, stale, posts, cancel, deletion, restarts>>
  BY DEF UnflagPatch
<1>2. TypeOK'
  <2>1. thread' \in [status : {"active", "deleted"}, unapplied : BOOLEAN]
    BY <1>1 DEF IInv, TypeOK
  <2> QED
    BY <1>1, <2>1 DEF IInv, TypeOK, answers, posts
<1>3. ReceiptInv' /\ AnswerIsRecorded'
  BY <1>1 DEF IInv, ReceiptInv, Answered, AnswerIsRecorded, answers
<1>4. PostInv' /\ LoopInv' /\ StoreInv'
  BY <1>1 DEF IInv, PostInv, PostAt, Answered, LoopInv, StoreInv, answers, posts
<1>5. thread'.unapplied <=> Proposed # {}
  BY <1>1 DEF IInv, TypeOK
<1>6. FlagCoversPatch'
  BY <1>1, <1>5 DEF FlagCoversPatch, Proposed, answers
<1> QED
  BY <1>2, <1>3, <1>4, <1>6 DEF IInv

LEMMA SourceMovesOnIInv == ASSUME IInv, SourceMovesOn PROVE IInv'
<1>1. stale' /\ UNCHANGED <<receipt, turn, answers, thread, posts, workers, restarts>>
  BY DEF SourceMovesOn
<1>2. TypeOK'
  BY <1>1 DEF IInv, TypeOK, answers, posts, workers
<1>3. ReceiptInv' /\ AnswerIsRecorded'
  BY <1>1 DEF IInv, ReceiptInv, Answered, AnswerIsRecorded, answers
<1>4. PostInv' /\ LoopInv' /\ StoreInv' /\ FlagCoversPatch'
  BY <1>1 DEF IInv, PostInv, PostAt, Answered, LoopInv, StoreInv, FlagCoversPatch, StoreFree, Proposed,
     answers, posts, workers
<1> QED
  BY <1>2, <1>3, <1>4 DEF IInv

LEMMA ExpireLeaseIInv == ASSUME IInv, ExpireLease PROVE IInv'
<1>1. /\ receipt' = [receipt EXCEPT !.live = FALSE]
      /\ UNCHANGED <<turn, answers, thread, stale, posts, workers, restarts>>
  BY DEF ExpireLease, LeaseExpired
<1>2. /\ receipt' \in Receipts /\ ~receipt'.live /\ receipt'.owner = receipt.owner
      /\ receipt'.status = receipt.status /\ receipt'.attempts = receipt.attempts
      /\ receipt'.payload = receipt.payload
  BY <1>1, ReceiptTypes DEF Receipts
<1>3. TypeOK'
  BY <1>1, <1>2 DEF IInv, TypeOK, answers, posts, workers
<1>4. ReceiptInv' /\ AnswerIsRecorded'
  BY <1>1, <1>2 DEF IInv, ReceiptInv, Answered, AnswerIsRecorded, answers
<1>5. PostInv'
  BY <1>1, <1>2 DEF IInv, PostInv, PostAt, Answered, answers, posts
<1>6. LoopInv' /\ StoreInv' /\ FlagCoversPatch'
  BY <1>1 DEF IInv, LoopInv, StoreInv, FlagCoversPatch, StoreFree, Proposed, answers, posts, workers
<1> QED
  BY <1>3, <1>4, <1>5, <1>6 DEF IInv

LEMMA RestartIInv == ASSUME IInv, Restart PROVE IInv'
<1>1. /\ restarts' = restarts + 1 /\ restarts < MaxRestarts
      /\ pc' = [c \in Callers |-> IF pc[c] = "idle" THEN "idle" ELSE "done"]
      /\ cancel' = "idle" /\ deletion' = "idle" /\ ~deciding' /\ deciding' \in BOOLEAN
      /\ UNCHANGED <<receipt, turn, answers, thread, stale, seen, held>>
  BY DEF Restart
<1>2. \A c \in Callers : pc'[c] \in {"idle", "done"}
  BY <1>1
<1>3. restarts' \in 0 .. MaxRestarts /\ restarts' # 0
  BY <1>1, MaxRestartsAssumption DEF IInv, TypeOK
<1>4. TypeOK'
  BY <1>1, <1>2, <1>3 DEF IInv, TypeOK, Steps, answers
<1>5. ReceiptInv' /\ AnswerIsRecorded'
  BY <1>1 DEF IInv, ReceiptInv, Answered, AnswerIsRecorded, answers
<1>6. PostInv' /\ LoopInv' /\ StoreInv' /\ FlagCoversPatch'
  BY <1>1, <1>2, <1>3 DEF PostInv, PostAt, LoopInv, StoreInv, FlagCoversPatch, Rest
<1> QED
  BY <1>4, <1>5, <1>6 DEF IInv

LEMMA StutterIInv == ASSUME IInv, UNCHANGED vars PROVE IInv'
<1>1. UNCHANGED <<receipt, turn, answers, thread, stale, posts, workers, restarts>>
  BY DEF vars
<1>2. TypeOK'
  BY <1>1 DEF IInv, TypeOK, answers, posts, workers
<1>3. ReceiptInv' /\ AnswerIsRecorded'
  BY <1>1 DEF IInv, ReceiptInv, Answered, AnswerIsRecorded, answers
<1>4. PostInv' /\ LoopInv' /\ StoreInv' /\ FlagCoversPatch'
  BY <1>1 DEF IInv, PostInv, PostAt, Answered, LoopInv, StoreInv, FlagCoversPatch, StoreFree, Proposed,
     answers, posts, workers
<1> QED
  BY <1>2, <1>3, <1>4 DEF IInv

LEMMA AdvanceIInv == ASSUME IInv, NEW c \in Callers, Advance(c) PROVE IInv'
<1>1. CASE Post(c) \/ CreateTurn(c) \/ Begin(c) \/ Stream(c) \/ \E ready \in BOOLEAN : Claim(c, ready)
  BY <1>1, PostIInv, BeginIInv, StreamIInv, ClaimIInv
<1>2. CASE ProviderFails(c) \/ FailTurn(c) \/ \E payload \in Payloads : ProviderAnswers(c, payload)
  BY <1>2, ProviderFailsIInv, SettleTurnIInv, ProviderAnswersIInv
<1>3. CASE Parse(c) \/ RejectReceipt(c) \/ RejectTurn(c) \/ WritePatch(c) \/ FlagPatch(c)
           \/ WriteMessage(c) \/ Succeed(c) \/ CompleteTurn(c)
  BY <1>3, ParseIInv, RejectReceiptIInv, SettleTurnIInv, WritePatchIInv, FlagPatchIInv,
     WriteMessageIInv, SucceedIInv
<1> QED
  BY <1>1, <1>2, <1>3 DEF Advance

LEMMA NextIInv == IInv /\ [Next]_vars => IInv'
<1> SUFFICES ASSUME IInv, [Next]_vars PROVE IInv'
  OBVIOUS
<1>1. CASE \E c \in Callers : Advance(c)
  BY <1>1, AdvanceIInv
<1>2. CASE CancelCheck \/ CancelTurn \/ DeleteRead \/ DeleteCheck \/ DeleteThread
  BY <1>2, CancelIInv, DeleteIInv
<1>3. CASE \E p \in ValidPayloads, status \in {"rejected", "stale"} : DecidePatch(p, status)
  BY <1>3, DecideIInv
<1>4. CASE UnflagPatch \/ SourceMovesOn \/ ExpireLease \/ Restart
  BY <1>4, UnflagIInv, SourceMovesOnIInv, ExpireLeaseIInv, RestartIInv
<1>5. CASE UNCHANGED vars
  BY <1>5, StutterIInv
<1> QED
  BY <1>1, <1>2, <1>3, <1>4, <1>5 DEF Next

(* The inductive invariant of a revise turn, its patches and its thread    *)
(* holds in every state.                                                   *)
THEOREM Invariance == Spec => []IInv
  BY InitIInv, NextIInv, PTL DEF Spec

(* TypeOK: every variable keeps its type; in particular the attempts of a  *)
(* turn stay within max_transport_attempts.                                *)
THEOREM TypeCorrect == Spec => []TypeOK
<1>1. IInv => TypeOK
  BY DEF IInv
<1> QED
  BY <1>1, Invariance, PTL

(* CompletedHasResult: a completed turn has its receipt, its message and   *)
(* the patch of that message, whatever crash, replay or late answer came   *)
(* between.                                                                *)
THEOREM CompletedKeepsResult == Spec => []CompletedHasResult
<1>1. IInv => CompletedHasResult
  BY DEF IInv, ReceiptInv, CompletedHasResult
<1> QED
  BY <1>1, Invariance, PTL

(* AnswerIsRecorded: although no fence stops a late answer, the author     *)
(* only sees the answer the receipt recorded.                              *)
THEOREM AnswerStaysRecorded == Spec => []AnswerIsRecorded
<1>1. IInv => AnswerIsRecorded
  BY DEF IInv
<1> QED
  BY <1>1, Invariance, PTL

(* FlagCoversPatch: without a crash the thread's flag says exactly whether *)
(* a proposal waits, however decisions and replays interleave.             *)
THEOREM FlagStaysTrue == Spec => []FlagCoversPatch
<1>1. IInv => FlagCoversPatch
  BY DEF IInv
<1> QED
  BY <1>1, Invariance, PTL

-----------------------------------------------------------------------------
(* The refinement of ProviderCall.                                         *)

LEMMA InitImplementsCall == Init => Call!Init
  BY DEF Init, AbsentReceipt, Call!Init, Phase

(* Steps that change nothing of the receipt but the lease and the ledger.  *)
LEMMA HiddenSteps ==
  ASSUME receipt'.attempts = receipt.attempts, receipt'.payload = receipt.payload,
         receipt'.status = receipt.status
  PROVE  UNCHANGED Call!callVars
  BY DEF Call!callVars, Phase

LEMMA ConcludeImplements ==
  ASSUME IInv, NEW c \in Callers, NEW status \in {"succeeded", "contract_rejected"}, NEW verdict, NEW step,
         Conclude(c, status, verdict, step),
         status = "succeeded" => receipt.payload \in ValidPayloads
  PROVE  [Call!Next]_Call!callVars
<1>1. CASE receipt' = receipt
  BY <1>1, HiddenSteps
<1>2. CASE receipt' = Concluded(receipt, status, verdict) /\ CanConclude(receipt, status, verdict)
  <2>1. /\ receipt'.status = status /\ receipt.status \in {"returned", status}
        /\ receipt'.attempts = receipt.attempts /\ receipt'.payload = receipt.payload
    BY <1>2, ReceiptTypes DEF Concluded, CanConclude, Receipts
  <2>2. CASE receipt.status = status
    BY <2>1, <2>2, HiddenSteps
  <2>3. CASE receipt.status = "returned" /\ status = "succeeded"
    BY <2>1, <2>3 DEF Phase, Call!Next, Call!Accept
  <2>4. CASE receipt.status = "returned" /\ status = "contract_rejected"
    BY <2>1, <2>4 DEF Phase, Call!Next, Call!Reject
  <2> QED
    BY <2>1, <2>2, <2>3, <2>4
<1> QED
  BY <1>1, <1>2 DEF Conclude

LEMMA StepImplementsCall == IInv /\ [Next]_vars => [Call!Next]_Call!callVars
<1> SUFFICES ASSUME IInv, [Next]_vars PROVE [Call!Next]_Call!callVars
  OBVIOUS
<1>1. CASE UNCHANGED receipt
  BY <1>1, HiddenSteps
<1>2. CASE ExpireLease
  <2>1. /\ receipt'.attempts = receipt.attempts /\ receipt'.payload = receipt.payload
        /\ receipt'.status = receipt.status
    BY <1>2, ReceiptTypes DEF ExpireLease, LeaseExpired, Receipts
  <2> QED
    BY <2>1, HiddenSteps
<1>3. ASSUME NEW c \in Callers, Begin(c), receipt' # receipt PROVE [Call!Next]_Call!callVars
  <2>1. receipt' = [receipt EXCEPT !.status = "pending"] /\ receipt.status = "absent"
    BY <1>3 DEF Begin, Begun
  <2> QED
    BY <2>1, ReceiptTypes DEF Receipts, Phase, Call!callVars
<1>4. ASSUME NEW c \in Callers, NEW ready \in BOOLEAN, Claim(c, ready), receipt' # receipt
      PROVE  [Call!Next]_Call!callVars
  <2>1. receipt' = ClaimedBy(receipt, c) /\ Claimable(receipt, c) /\ receipt.status = "pending"
    BY <1>4 DEF Claim, IInv, PostInv, PostAt
  <2>2. /\ receipt'.attempts = receipt.attempts + 1 /\ receipt.attempts < MaxAttempts
        /\ receipt'.payload = receipt.payload /\ receipt'.status = "pending"
    BY <2>1, ReceiptTypes DEF ClaimedBy, Claimable, Receipts
  <2> QED
    BY <2>1, <2>2 DEF Phase, Call!Next, Call!Call
<1>5. ASSUME NEW c \in Callers, ProviderFails(c), receipt' # receipt PROVE [Call!Next]_Call!callVars
  <2>1. receipt' = Released(receipt, c, NoFence)
    BY <1>5 DEF ProviderFails
  <2>2. /\ receipt'.attempts = receipt.attempts /\ receipt'.payload = receipt.payload
        /\ receipt'.status = receipt.status
    BY <2>1, ReceiptTypes DEF Released, Receipts
  <2> QED
    BY <2>2, HiddenSteps
<1>6. ASSUME NEW c \in Callers, NEW payload \in Payloads, ProviderAnswers(c, payload), receipt' # receipt
      PROVE  [Call!Next]_Call!callVars
  <2>1. receipt' = Returned(receipt, c, NoFence, payload) /\ receipt.status = "pending"
    BY <1>6 DEF ProviderAnswers, Returned
  <2>2. /\ receipt'.attempts = receipt.attempts /\ receipt'.payload = payload
        /\ receipt'.status = "returned"
    BY <2>1, ReceiptTypes DEF Returned, Receipts
  <2>3. receipt.attempts > 0
    BY <1>6 DEF ProviderAnswers, IInv, PostInv, PostAt
  <2> QED
    BY <2>1, <2>2, <2>3 DEF Phase, Call!Next, Call!Answer
<1>7. ASSUME NEW c \in Callers, RejectReceipt(c) PROVE [Call!Next]_Call!callVars
  BY <1>7, ConcludeImplements DEF RejectReceipt
<1>8. ASSUME NEW c \in Callers, Succeed(c) PROVE [Call!Next]_Call!callVars
  <2>1. receipt.payload \in ValidPayloads
    BY <1>8 DEF Succeed, IInv, PostInv, PostAt
  <2> QED
    BY <1>8, <2>1, ConcludeImplements DEF Succeed
<1>9. \/ UNCHANGED receipt \/ ExpireLease
      \/ \E c \in Callers :
           \/ Begin(c) \/ (\E ready \in BOOLEAN : Claim(c, ready)) \/ ProviderFails(c)
           \/ (\E payload \in Payloads : ProviderAnswers(c, payload)) \/ RejectReceipt(c) \/ Succeed(c)
  BY DEF Next, vars, Advance, Post, CreateTurn, Stream, FailTurn, Parse, RejectTurn, WritePatch, FlagPatch,
     WriteMessage, CompleteTurn, CancelCheck, CancelTurn, DeleteRead, DeleteCheck, DeleteThread,
     DecidePatch, UnflagPatch, SourceMovesOn, Restart
<1> QED
  BY <1>1, <1>2, <1>3, <1>4, <1>5, <1>6, <1>7, <1>8, <1>9

(* ImplementsProviderCall: a bounded number of calls, none after a         *)
(* recorded return, and one verdict, although no answer is fenced and the  *)
(* ledger may become malformed.                                            *)
THEOREM RefinesProviderCall == Spec => ImplementsProviderCall
  BY InitIInv, NextIInv, InitImplementsCall, StepImplementsCall, PTL
  DEF Spec, ImplementsProviderCall, Call!Spec
=============================================================================
