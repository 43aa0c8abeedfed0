--------------------------- MODULE WritebackProofs ---------------------------
(***************************************************************************)
(* Machine-checked proofs about Writeback, for every set of payloads and   *)
(* every number of calls, rounds and faults.                               *)
(***************************************************************************)
EXTENDS Writeback, TLAPS

Proposing == {"propose", "execute", "claim", "waiting", "judge", "bind", "attach"}
Flushing == {"flush", "canon", "wiki", "projected"}

(* Where the receipt is while the node works, and that facts, once they    *)
(* are attached, stay.                                                     *)
PlaceInv ==
  /\ node.at \in Proposing => intent.status = "pending_evidence"
  /\ node.at \in Flushing => intent.status \in {"queued", "canon_committed"}
  /\ node.at = "failed" => intent.status \in {"pending_evidence", "queued", "canon_committed"}
  /\ intent.status \in {"absent", "pending_evidence"} => intent.transaction = NoPayload
  /\ intent.status \in {"queued", "canon_committed", "committed"} => intent.transaction # NoPayload

(* There is one pending operation at a time, and while the node is between *)
(* proposal and attachment it is the node's.                               *)
OpsInv ==
  /\ \A k \in Keys : ops[k].leased => ops[k].status = "pending"
  /\ \A k, l \in Pending : k = l
  /\ node.at \in Proposing \ {"propose"} => Pending \subseteq {node.key}
  /\ node.at \in {"claim", "waiting"} => Op.status = "pending"
  /\ node.at = "judge" => Op.status \in {"returned", "succeeded", "contract_rejected"}
  /\ node.at \in {"bind", "attach"} => Op.status = "succeeded" /\ Op.payload \in WellFormed
  /\ node.at = "attach" => Op.payload \in Bindable /\ Op.payload \in evidence

(* The Canon holds the attached facts or none, and the Wiki no others.     *)
FactsInv ==
  /\ intent.transaction \in Bindable \cup {NoPayload}
  /\ canon \subseteq {intent.transaction} /\ wiki \subseteq canon
  /\ node.at \in {"canon", "wiki", "projected"} => canon = {intent.transaction}
  /\ node.at = "projected" => wiki = {intent.transaction}

(* The decision loop never runs ahead of the rounds that were applied, and *)
(* a round begins on the decision that grants it.                          *)
DecisionInv ==
  /\ \A n \in Decisions : answers[n] = "retry_writeback" => n <= MaxRounds
  /\ IF node.at = "commit" /\ node.retry
       THEN /\ intent.status = "needs_action"
            /\ node.number = intent.recoveries + 2
            /\ answers[intent.recoveries + 1] = "retry_writeback"
       ELSE node.number <= Replayed + 1

IInv ==
  TypeOK /\ PlaceInv /\ OpsInv /\ FactsInv /\ DecisionInv /\ EachRoundIsGranted /\ QueuedIsProposed

-----------------------------------------------------------------------------
LEMMA InitIInv == Init => IInv
<1> SUFFICES ASSUME Init PROVE IInv
  OBVIOUS
<1> USE BoundsAssumption, NoPayloadAssumption DEF Init
<1>1. NoOp \in Ops /\ Key(0, 1) \in Keys
  BY DEF NoOp, Ops, OpStatuses, Corrections, Keys, Key
<1>2. TypeOK
  BY <1>1 DEF TypeOK, NoIntent, IntentStatuses, IdleNode, NodeSteps, Corrections
<1>3. PlaceInv /\ FactsInv
  BY DEF PlaceInv, FactsInv, NoIntent, IdleNode, Proposing, Flushing
<1>4. OpsInv
  BY DEF OpsInv, Pending, NoOp, IdleNode, Proposing
<1>5. DecisionInv /\ EachRoundIsGranted /\ QueuedIsProposed
  BY DEF DecisionInv, EachRoundIsGranted, QueuedIsProposed, Replayed, NoIntent, IdleNode
<1> QED
  BY <1>2, <1>3, <1>4, <1>5 DEF IInv

(* The parts of the state, for the lemmas below.                           *)
LEMMA Types ==
  ASSUME IInv
  PROVE  /\ node.key \in Keys /\ Op \in Ops /\ Op.calls \in Nat
         /\ intent.recoveries \in Nat /\ Replayed \in Nat /\ node.number \in Nat
         /\ MaxRounds \in Nat /\ MaxCalls \in Nat
         /\ Pending \subseteq Keys
  BY BoundsAssumption DEF IInv, TypeOK, Op, Ops, Replayed, Pending

-----------------------------------------------------------------------------
(* Steps of the author and the decision loop, which leave the operations   *)
(* and the stores alone.                                                   *)
LEMMA DecideIInv ==
  ASSUME IInv, NEW action \in {"retry_writeback", "cancel"}, Decide(action)
  PROVE  IInv'
<1> USE DEF Decide
<1>1. TypeOK'
  BY DEF IInv, TypeOK, stores, Decisions
<1>2. PlaceInv' /\ FactsInv'
  BY DEF IInv, PlaceInv, FactsInv, stores
<1>3. OpsInv' /\ QueuedIsProposed'
  BY DEF IInv, OpsInv, QueuedIsProposed, Op, Pending, stores
<1>4. \A n \in Decisions : answers[n] # "none" => answers'[n] = answers[n]
  BY DEF IInv, TypeOK
<1>5. asked \in Decisions /\ answers' = [answers EXCEPT ![asked] = action]
  BY BoundsAssumption DEF IInv, TypeOK, Decisions
<1>6. EachRoundIsGranted'
  <2>1. intent.recoveries \in 0 .. MaxRounds /\ MaxRounds \in Nat
    BY BoundsAssumption DEF IInv, TypeOK
  <2>2. \A n \in 1 .. intent.recoveries : n \in Decisions /\ answers[n] = "retry_writeback"
    BY <2>1 DEF IInv, EachRoundIsGranted, Decisions
  <2> QED
    BY <1>4, <2>2 DEF EachRoundIsGranted
<1>7. DecisionInv'
  BY <1>5 DEF IInv, TypeOK, DecisionInv, Replayed
<1> QED
  BY <1>1, <1>2, <1>3, <1>6, <1>7 DEF IInv

(* A step that only moves the node, keeping every part of the invariant    *)
(* but those that speak of where the node is.                              *)
LEMMA NodeMoves ==
  ASSUME IInv, UNCHANGED <<intent, ops, stores, answers>>
  PROVE  EachRoundIsGranted' /\ QueuedIsProposed'
  BY DEF IInv, EachRoundIsGranted, QueuedIsProposed, Pending, stores

NodeType ==
  [at : NodeSteps, given : 0 .. MaxRounds + 1, number : 1 .. MaxRounds + 2,
   retry : BOOLEAN, correction : Corrections, key : Keys, error : Errors \cup {"none"}]

LEMMA IdleNodeType == IdleNode \in NodeType
<1>1. Key(0, 1) \in Keys
  BY BoundsAssumption DEF Keys, Key
<1> QED
  BY <1>1, BoundsAssumption DEF IdleNode, NodeType, NodeSteps, Corrections

LEMMA EnterIInv == ASSUME IInv, Enter PROVE IInv'
<1> USE DEF Enter
<1>1. IdleNode \in NodeType
  BY IdleNodeType
<1>2. TypeOK'
  <2>1. node' \in NodeType
    BY <1>1 DEF IInv, TypeOK, NodeType, NodeSteps
  <2> QED
    BY <2>1 DEF IInv, TypeOK, NodeType, stores, graph
<1>3. PlaceInv' /\ FactsInv'
  BY DEF IInv, PlaceInv, FactsInv, stores, IdleNode, Proposing, Flushing
<1>4. OpsInv'
  BY DEF IInv, OpsInv, Pending, IdleNode, Proposing
<1>5. DecisionInv'
  BY Types DEF IInv, DecisionInv, Replayed, IdleNode, graph
<1> QED
  BY <1>2, <1>3, <1>4, <1>5, NodeMoves DEF IInv, graph

LEMMA IdleIInv ==
  ASSUME IInv, UNCHANGED <<intent, ops, stores, answers>>, node' = IdleNode,
         asked' \in 0 .. MaxRounds + 1, faults' \in 0 .. MaxFaults
  PROVE  IInv'
<1>1. Key(0, 1) \in Keys
  BY BoundsAssumption DEF Keys, Key
<1>2. TypeOK'
  BY <1>1, BoundsAssumption DEF IInv, TypeOK, stores, IdleNode, NodeSteps, Corrections
<1>3. PlaceInv' /\ FactsInv'
  BY DEF IInv, PlaceInv, FactsInv, stores, IdleNode, Proposing, Flushing
<1>4. OpsInv'
  BY DEF IInv, OpsInv, Pending, IdleNode, Proposing
<1>5. DecisionInv'
  BY Types DEF IInv, DecisionInv, Replayed, IdleNode
<1> QED
  BY <1>2, <1>3, <1>4, <1>5, NodeMoves DEF IInv

LEMMA CrashIInv == ASSUME IInv, Crash PROVE IInv'
<1>1. asked \in 0 .. MaxRounds + 1 /\ faults + 1 \in 0 .. MaxFaults
  BY BoundsAssumption DEF Crash, IInv, TypeOK
<1> QED
  BY <1>1, IdleIInv DEF Crash

LEMMA InterruptIInv == ASSUME IInv, Interrupt PROVE IInv'
<1>1. asked' \in 0 .. MaxRounds + 1
  <2>1. intent.status = "needs_action" => Replayed = intent.recoveries
    BY Types DEF Replayed
  <2>2. node.at = "decide" /\ node.number <= Replayed + 1
    BY DEF Interrupt, Deciding, IInv, DecisionInv
  <2>3. intent.recoveries \in 0 .. MaxRounds /\ Replayed <= intent.recoveries + 1
    BY Types DEF IInv, TypeOK, Replayed
  <2> QED
    BY <2>1, <2>2, <2>3, Types DEF Interrupt, Deciding
<1> QED
  BY <1>1, IdleIInv DEF Interrupt, IInv, TypeOK

(* The node moves on with its decisions, or stops.                         *)
LEMMA SettledIInv == ASSUME IInv, Settled PROVE IInv'
<1> USE DEF Settled, GoTo
<1>1. node.at = "commit" /\ node' = [node EXCEPT !.at = "decide"]
      /\ UNCHANGED <<intent, ops, stores, answers, asked, faults>>
  BY DEF graph
<1>2. TypeOK'
  BY <1>1 DEF IInv, TypeOK, stores, NodeSteps
<1>3. PlaceInv' /\ FactsInv'
  BY <1>1, <1>2 DEF IInv, PlaceInv, FactsInv, TypeOK, stores, Proposing, Flushing
<1>4. OpsInv'
  BY <1>1 DEF IInv, OpsInv, TypeOK, Pending, Proposing
<1>5. DecisionInv'
  BY <1>1 DEF IInv, DecisionInv, TypeOK, Replayed
<1> QED
  BY <1>1, <1>2, <1>3, <1>4, <1>5, NodeMoves DEF IInv

LEMMA ReplayRetryIInv == ASSUME IInv, ReplayRetry PROVE IInv'
<1>1. /\ node.at = "decide" /\ node.number <= node.given /\ node.number <= Replayed
      /\ node' = [node EXCEPT !.number = node.number + 1]
      /\ UNCHANGED <<intent, ops, stores, answers, asked, faults>>
  BY DEF ReplayRetry, Given, Deciding, graph
<1>2. TypeOK'
  BY <1>1, Types DEF IInv, TypeOK, stores
<1>3. PlaceInv' /\ FactsInv'
  BY <1>1 DEF IInv, PlaceInv, FactsInv, TypeOK, stores, Proposing, Flushing
<1>4. OpsInv'
  BY <1>1 DEF IInv, OpsInv, TypeOK, Pending, Proposing
<1>5. DecisionInv'
  BY <1>1, Types DEF IInv, DecisionInv, TypeOK, Replayed
<1> QED
  BY <1>1, <1>2, <1>3, <1>4, <1>5, NodeMoves DEF IInv

LEMMA RetryIInv == ASSUME IInv, Retry PROVE IInv'
<1>1. /\ node.at = "decide" /\ node.number <= node.given /\ node.number > Replayed
      /\ intent.status = "needs_action" \/ node.number <= Replayed
      /\ answers[node.number] = "retry_writeback"
      /\ node' = [node EXCEPT !.at = "commit", !.number = node.number + 1, !.retry = TRUE]
      /\ UNCHANGED <<intent, ops, stores, answers, asked, faults>>
  BY DEF Retry, Given, Deciding, graph
<1>2. TypeOK'
  <2>1. node.number + 1 \in 1 .. MaxRounds + 2
    BY <1>1, BoundsAssumption DEF IInv, TypeOK
  <2>2. node' \in NodeType
    BY <1>1, <2>1 DEF IInv, TypeOK, NodeType, NodeSteps
  <2> QED
    BY <1>1, <2>2 DEF IInv, TypeOK, NodeType, stores
<1>3. PlaceInv' /\ FactsInv'
  BY <1>1 DEF IInv, PlaceInv, FactsInv, TypeOK, stores, Proposing, Flushing
<1>4. OpsInv'
  BY <1>1 DEF IInv, OpsInv, TypeOK, Pending, Proposing
<1>5. DecisionInv'
  <2>1. intent.status = "needs_action" /\ Replayed = intent.recoveries
    BY <1>1, Types DEF Replayed
  <2>2. node.number = intent.recoveries + 1
    BY <1>1, <2>1, Types DEF IInv, DecisionInv
  <2> QED
    BY <1>1, <2>1, <2>2, Types DEF IInv, DecisionInv, TypeOK
<1> QED
  BY <1>1, <1>2, <1>3, <1>4, <1>5, NodeMoves DEF IInv

LEMMA EndIInv == ASSUME IInv, End PROVE IInv'
<1>1. /\ node.at = "decide" /\ node' = [node EXCEPT !.at = "ended"]
      /\ UNCHANGED <<intent, ops, stores, answers, asked, faults>>
  BY DEF End, GoTo, graph
<1>2. TypeOK'
  BY <1>1 DEF IInv, TypeOK, stores, NodeSteps
<1>3. PlaceInv' /\ FactsInv'
  BY <1>1 DEF IInv, PlaceInv, FactsInv, TypeOK, stores, Proposing, Flushing
<1>4. OpsInv'
  BY <1>1 DEF IInv, OpsInv, TypeOK, Pending, Proposing
<1>5. DecisionInv'
  BY <1>1 DEF IInv, DecisionInv, TypeOK, Replayed
<1> QED
  BY <1>1, <1>2, <1>3, <1>4, <1>5, NodeMoves DEF IInv

-----------------------------------------------------------------------------
(* Steps of the service and the Provider operation.                        *)

LEMMA BeginIntentIInv == ASSUME IInv, BeginIntent PROVE IInv'
<1>1. /\ node.at = "commit" /\ node' = [node EXCEPT !.at = "propose"]
      /\ intent.status = "absent" /\ intent' = [intent EXCEPT !.status = "pending_evidence"]
      /\ UNCHANGED <<ops, stores, answers, asked, faults>>
  BY DEF BeginIntent, GoTo, graph
<1>2. TypeOK'
  BY <1>1 DEF IInv, TypeOK, stores, NodeSteps, IntentStatuses
<1>3. PlaceInv' /\ FactsInv'
  BY <1>1 DEF IInv, PlaceInv, FactsInv, TypeOK, stores, Proposing, Flushing
<1>4. OpsInv' /\ QueuedIsProposed'
  BY <1>1 DEF IInv, OpsInv, QueuedIsProposed, PlaceInv, TypeOK, Pending, Proposing
<1>5. DecisionInv' /\ EachRoundIsGranted'
  BY <1>1 DEF IInv, DecisionInv, EachRoundIsGranted, TypeOK, Replayed
<1> QED
  BY <1>2, <1>3, <1>4, <1>5 DEF IInv

LEMMA BeginRecoveryIInv == ASSUME IInv, BeginRecovery PROVE IInv'
<1> DEFINE fresh == intent.transaction = NoPayload
<1>1. /\ node.at = "commit" /\ node.retry /\ intent.status = "needs_action"
      /\ node' = [node EXCEPT !.at = IF fresh THEN "propose" ELSE "flush",
                              !.correction = intent.error]
      /\ intent' = [intent EXCEPT !.status = IF fresh THEN "pending_evidence" ELSE "queued",
                                  !.recoveries = intent.recoveries + 1,
                                  !.error = "none"]
      /\ UNCHANGED <<ops, stores, answers, asked, faults>>
  BY DEF BeginRecovery, AfterBegin, graph
<1>2. /\ answers[intent.recoveries + 1] = "retry_writeback"
      /\ node.number = intent.recoveries + 2
  BY <1>1 DEF IInv, DecisionInv
<1>3. intent.recoveries + 1 \in 0 .. MaxRounds
  BY <1>2, Types DEF IInv, TypeOK, DecisionInv, Decisions
<1>4. TypeOK'
  BY <1>1, <1>3 DEF IInv, TypeOK, stores, NodeSteps, IntentStatuses, Corrections
<1>5. PlaceInv' /\ FactsInv'
  BY <1>1 DEF IInv, PlaceInv, FactsInv, TypeOK, stores, Proposing, Flushing
<1>6. OpsInv' /\ QueuedIsProposed'
  BY <1>1 DEF IInv, OpsInv, QueuedIsProposed, PlaceInv, TypeOK, Pending, Proposing, stores
<1>7. EachRoundIsGranted'
  BY <1>1, <1>2, <1>3, Types DEF IInv, EachRoundIsGranted, TypeOK
<1>8. DecisionInv'
  BY <1>1, <1>2, Types DEF IInv, DecisionInv, TypeOK, Replayed
<1> QED
  BY <1>4, <1>5, <1>6, <1>7, <1>8 DEF IInv

LEMMA TakeUpIInv == ASSUME IInv, TakeUp PROVE IInv'
<1>1. /\ node.at = "commit"
      /\ node' = [node EXCEPT !.at = IF intent.transaction = NoPayload THEN "propose" ELSE "flush"]
      /\ intent.status \in {"pending_evidence", "queued", "canon_committed"}
      /\ UNCHANGED <<intent, ops, stores, answers, asked, faults>>
  BY DEF TakeUp, AfterBegin, GoTo, graph
<1>2. TypeOK'
  BY <1>1 DEF IInv, TypeOK, stores, NodeSteps
<1>3. PlaceInv' /\ FactsInv'
  BY <1>1 DEF IInv, PlaceInv, FactsInv, TypeOK, stores, Proposing, Flushing
<1>4. OpsInv'
  BY <1>1 DEF IInv, OpsInv, TypeOK, Pending, Proposing
<1>5. DecisionInv'
  BY <1>1 DEF IInv, DecisionInv, TypeOK, Replayed
<1> QED
  BY <1>1, <1>2, <1>3, <1>4, <1>5, NodeMoves DEF IInv

LEMMA MarkNeedsActionIInv == ASSUME IInv, MarkNeedsAction PROVE IInv'
<1>1. /\ node.at = "failed" /\ node' = [node EXCEPT !.at = "decide"]
      /\ intent' = [intent EXCEPT !.status = "needs_action", !.error = node.error]
      /\ UNCHANGED <<ops, stores, answers, asked, faults>>
  BY DEF MarkNeedsAction, GoTo, graph
<1>2. TypeOK'
  BY <1>1 DEF IInv, TypeOK, stores, NodeSteps, IntentStatuses
<1>3. PlaceInv' /\ FactsInv'
  BY <1>1 DEF IInv, PlaceInv, FactsInv, TypeOK, stores, Proposing, Flushing
<1>4. OpsInv' /\ QueuedIsProposed'
  BY <1>1 DEF IInv, OpsInv, QueuedIsProposed, TypeOK, Pending, Proposing, stores
<1>5. DecisionInv' /\ EachRoundIsGranted'
  BY <1>1, Types DEF IInv, DecisionInv, EachRoundIsGranted, PlaceInv, TypeOK, Replayed
<1> QED
  BY <1>2, <1>3, <1>4, <1>5 DEF IInv

LEMMA ProposeIInv == ASSUME IInv, Propose PROVE IInv'
<1>1. Key(intent.recoveries, 1) \in Keys /\ Pending \subseteq Keys
  BY Types DEF IInv, TypeOK, Keys, Key
<1>2. PICK key \in Keys, correction \in Corrections :
        /\ node' = [node EXCEPT !.at = "execute", !.key = key, !.correction = correction]
        /\ Pending \subseteq {key}
  <2>1. CASE \E k \in Pending : node' = [node EXCEPT !.at = "execute", !.key = k,
                                                    !.correction = ops[k].prompt]
    <3>1. PICK k \in Pending : node' = [node EXCEPT !.at = "execute", !.key = k,
                                                   !.correction = ops[k].prompt]
      BY <2>1
    <3>2. ops[k].prompt \in Corrections /\ Pending \subseteq {k}
      BY <1>1 DEF IInv, TypeOK, Ops, OpsInv
    <3> QED
      BY <1>1, <3>1, <3>2
  <2>2. CASE /\ Pending = {}
             /\ node' = [node EXCEPT !.at = "execute", !.key = Key(intent.recoveries, 1)]
    <3>1. node.correction \in Corrections
      BY DEF IInv, TypeOK
    <3>2. node' = [node EXCEPT !.at = "execute", !.key = Key(intent.recoveries, 1),
                               !.correction = node.correction]
      BY <2>2 DEF IInv, TypeOK
    <3> QED
      BY <1>1, <2>2, <3>1, <3>2
  <2> QED
    BY <2>1, <2>2 DEF Propose
<1>3. node.at = "propose" /\ UNCHANGED <<intent, ops, stores, answers, asked, faults>>
  BY DEF Propose, graph
<1>4. TypeOK'
  BY <1>2, <1>3 DEF IInv, TypeOK, stores, NodeSteps
<1>5. PlaceInv' /\ FactsInv'
  BY <1>2, <1>3 DEF IInv, PlaceInv, FactsInv, TypeOK, stores, Proposing, Flushing
<1>6. OpsInv'
  BY <1>2, <1>3 DEF IInv, OpsInv, TypeOK, Pending, Proposing
<1>7. DecisionInv'
  BY <1>2, <1>3 DEF IInv, DecisionInv, TypeOK, Replayed
<1> QED
  BY <1>3, <1>4, <1>5, <1>6, <1>7, NodeMoves DEF IInv

(* A step in which only the node moves on, in the same operation.          *)
LEMMA NodeStepIInv ==
  ASSUME IInv, UNCHANGED <<intent, ops, stores, answers, asked, faults>>,
         NEW step \in NodeSteps, NEW error \in Errors \cup {"none"},
         node' = [node EXCEPT !.at = step, !.error = error],
         node.at \in Proposing \cup Flushing,
         step \in (Proposing \ {"propose"}) \cup {"failed"},
         step \in Proposing => node.at \in Proposing \ {"propose"},
         step \in {"claim", "waiting"} => Op.status = "pending",
         step = "judge" => Op.status \in {"returned", "succeeded", "contract_rejected"},
         step \notin {"bind", "attach"}
  PROVE  IInv'
<1>1. TypeOK'
  BY DEF IInv, TypeOK, stores
<1>2. PlaceInv' /\ FactsInv'
  BY DEF IInv, PlaceInv, FactsInv, TypeOK, stores, Proposing, Flushing
<1>3. OpsInv'
  BY DEF IInv, OpsInv, TypeOK, Pending, Proposing, Op
<1>4. DecisionInv'
  BY DEF IInv, DecisionInv, TypeOK, Replayed, Proposing, Flushing
<1> QED
  BY <1>1, <1>2, <1>3, <1>4, NodeMoves DEF IInv

LEMMA FindOperationIInv == ASSUME IInv, FindOperation PROVE IInv'
<1>1. /\ node.at = "execute" /\ Op.status # "absent" /\ Op.status \in OpStatuses
      /\ UNCHANGED <<intent, ops, stores, answers, asked, faults>>
  BY Types DEF FindOperation, Executing, graph, Ops
<1>2. node.error \in Errors \cup {"none"}
  BY DEF IInv, TypeOK
<1>3. CASE Op.prompt # node.correction
  <2>1. node' = [node EXCEPT !.at = "failed", !.error = "conflict"]
    BY <1>3 DEF FindOperation, Raise
  <2> QED
    BY <1>1, <2>1, NodeStepIInv DEF NodeSteps, Errors, Proposing
<1>4. CASE Op.prompt = node.correction
  <2> DEFINE step == IF Op.status = "pending" THEN "claim" ELSE "judge"
  <2>1. node' = [node EXCEPT !.at = step]
    BY <1>4 DEF FindOperation, GoTo
  <2>2. node' = [node EXCEPT !.at = step, !.error = node.error]
    BY <2>1 DEF IInv, TypeOK
  <2> QED
    BY <1>1, <1>2, <2>2, NodeStepIInv DEF NodeSteps, Proposing, OpStatuses
<1> QED
  BY <1>3, <1>4

LEMMA DiskFailsIInv == ASSUME IInv, DiskFails PROVE IInv'
<1>1. /\ node.at \in {"bind", "attach", "flush", "canon", "wiki"}
      /\ node' = [node EXCEPT !.at = "failed", !.error = "disk"]
      /\ faults' \in 0 .. MaxFaults
      /\ UNCHANGED <<intent, ops, stores, answers, asked>>
  BY BoundsAssumption DEF DiskFails, Raise, IInv, TypeOK
<1>2. TypeOK'
  BY <1>1 DEF IInv, TypeOK, stores, NodeSteps, Errors
<1>3. PlaceInv' /\ FactsInv'
  BY <1>1 DEF IInv, PlaceInv, FactsInv, TypeOK, stores, Proposing, Flushing
<1>4. OpsInv'
  BY <1>1 DEF IInv, OpsInv, TypeOK, Pending, Proposing
<1>5. DecisionInv'
  BY <1>1 DEF IInv, DecisionInv, TypeOK, Replayed
<1> QED
  BY <1>1, <1>2, <1>3, <1>4, <1>5, NodeMoves DEF IInv

(* A step in which the node's operation changes, and the node moves on.    *)
LEMMA OpStepIInv ==
  ASSUME IInv, UNCHANGED <<intent, stores, answers, asked, faults>>,
         node.at \in Proposing \ {"propose"},
         NEW op \in Ops, ops' = [ops EXCEPT ![node.key] = op],
         op.leased => op.status = "pending",
         NEW step \in (Proposing \ {"propose", "attach"}) \cup {"failed"},
         NEW error \in Errors \cup {"none"},
         node' = [node EXCEPT !.at = step, !.error = error],
         step \in {"claim", "waiting"} => op.status = "pending",
         step = "judge" => op.status \in {"returned", "succeeded", "contract_rejected"},
         step = "bind" => op.status = "succeeded" /\ op.payload \in WellFormed
  PROVE  IInv'
<1>1. TypeOK'
  BY DEF IInv, TypeOK, stores, NodeSteps, Proposing
<1>2. PlaceInv' /\ FactsInv'
  BY DEF IInv, PlaceInv, FactsInv, TypeOK, stores, Proposing, Flushing
<1>3. Pending \subseteq {node.key} /\ Pending' \subseteq {node.key} /\ node'.key = node.key
  BY DEF IInv, OpsInv, TypeOK, Pending
<1>4. Op' = op /\ \A k \in Keys \ {node.key} : ops'[k] = ops[k]
  BY DEF IInv, TypeOK, Op
<1>5. OpsInv'
  <2>1. node'.at = step
    BY DEF IInv, TypeOK
  <2>2. \A k \in Keys : ops'[k].leased => ops'[k].status = "pending"
    BY <1>4, Types DEF IInv, OpsInv, TypeOK
  <2> QED
    BY <1>3, <1>4, <2>1, <2>2 DEF OpsInv, Proposing
<1>6. QueuedIsProposed'
  BY DEF IInv, PlaceInv, QueuedIsProposed
<1>7. DecisionInv' /\ EachRoundIsGranted'
  BY DEF IInv, DecisionInv, EachRoundIsGranted, TypeOK, Replayed, Proposing
<1> QED
  BY <1>1, <1>2, <1>5, <1>6, <1>7 DEF IInv

LEMMA BeginOperationIInv == ASSUME IInv, BeginOperation PROVE IInv'
<1> DEFINE op == [NoOp EXCEPT !.status = "pending", !.prompt = node.correction]
<1>1. op \in Ops /\ op.status = "pending"
  <2>1. node.correction \in Corrections /\ 0 \in 0 .. MaxCalls
    BY BoundsAssumption DEF IInv, TypeOK
  <2> QED
    BY <2>1 DEF NoOp, Ops, OpStatuses
<1>2. node.error \in Errors \cup {"none"} /\ node' = [node EXCEPT !.at = "claim", !.error = node.error]
  BY DEF BeginOperation, GoTo, IInv, TypeOK
<1>3. /\ node.at = "execute" /\ ops' = [ops EXCEPT ![node.key] = op]
      /\ UNCHANGED <<intent, stores, answers, asked, faults>>
  BY DEF BeginOperation, Executing, graph
<1> QED
  BY <1>1, <1>2, <1>3, OpStepIInv DEF Proposing

LEMMA ClaimIInv == ASSUME IInv, Claim PROVE IInv'
<1>1. /\ node.at = "claim" /\ Op.status = "pending" /\ Op \in Ops
      /\ UNCHANGED <<intent, stores, answers, asked, faults>>
  BY Types DEF Claim, graph, IInv, OpsInv
<1>2. ASSUME NEW error \in {"busy", "exhausted"}, Raise(error), UNCHANGED ops PROVE IInv'
  BY <1>1, <1>2, NodeStepIInv DEF Raise, NodeSteps, Errors, Proposing
<1>3. ASSUME Op.calls < MaxCalls, GoTo("waiting"),
             ops' = [ops EXCEPT ![node.key].calls = @ + 1, ![node.key].leased = TRUE]
      PROVE  IInv'
  <2> DEFINE op == [Op EXCEPT !.calls = Op.calls + 1, !.leased = TRUE]
  <2>1. op \in Ops /\ op.status = "pending"
    <3>1. Op.calls + 1 \in 0 .. MaxCalls
      BY <1>1, <1>3, BoundsAssumption DEF Ops
    <3> QED
      BY <1>1, <3>1 DEF Ops
  <2>2. ops' = [ops EXCEPT ![node.key] = op]
    BY <1>3, Types DEF Op, IInv, TypeOK
  <2>3. node.error \in Errors \cup {"none"} /\ node' = [node EXCEPT !.at = "waiting", !.error = node.error]
    BY <1>3 DEF GoTo, IInv, TypeOK
  <2> QED
    BY <1>1, <2>1, <2>2, <2>3, OpStepIInv DEF Proposing
<1> QED
  BY <1>2, <1>3 DEF Claim

LEMMA ProviderAnswersIInv ==
  ASSUME IInv, NEW payload \in Payloads, ProviderAnswers(payload) PROVE IInv'
<1> DEFINE op == [Op EXCEPT !.status = "returned", !.payload = payload, !.leased = FALSE]
<1>1. node.at = "waiting" /\ UNCHANGED <<intent, stores, answers, asked, faults>>
  BY DEF ProviderAnswers, graph
<1>2. op \in Ops /\ op.status = "returned" /\ ~op.leased
  BY Types DEF Ops, OpStatuses
<1>3. ops' = [ops EXCEPT ![node.key] = op]
  BY Types DEF ProviderAnswers, Op, IInv, TypeOK
<1>4. node.error \in Errors \cup {"none"} /\ node' = [node EXCEPT !.at = "judge", !.error = node.error]
  BY DEF ProviderAnswers, GoTo, IInv, TypeOK
<1> QED
  BY <1>1, <1>2, <1>3, <1>4, OpStepIInv DEF Proposing

LEMMA ProviderFailsIInv == ASSUME IInv, ProviderFails PROVE IInv'
<1> DEFINE op == [Op EXCEPT !.leased = FALSE]
<1>1. node.at = "waiting" /\ UNCHANGED <<intent, stores, answers, asked, faults>>
  BY DEF ProviderFails, graph
<1>2. op \in Ops /\ ~op.leased
  BY Types DEF Ops
<1>3. ops' = [ops EXCEPT ![node.key] = op]
  BY Types DEF ProviderFails, Op, IInv, TypeOK
<1>4. node' = [node EXCEPT !.at = "failed", !.error = "transport"]
  BY DEF ProviderFails, Raise
<1> QED
  BY <1>1, <1>2, <1>3, <1>4, OpStepIInv DEF Proposing, Errors

LEMMA SucceedIInv == ASSUME IInv, Succeed PROVE IInv'
<1> DEFINE op == [Op EXCEPT !.status = "succeeded"]
<1>1. /\ node.at = "judge" /\ Op.payload \in WellFormed /\ Op.status \in {"returned", "succeeded"}
      /\ UNCHANGED <<intent, stores, answers, asked, faults>>
  BY DEF Succeed, graph
<1>2. op \in Ops /\ op.status = "succeeded" /\ op.payload = Op.payload /\ op.leased = Op.leased
  BY Types DEF Ops, OpStatuses
<1>3. ~Op.leased
  BY <1>1, Types DEF IInv, OpsInv, Op
<1>4. ops' = [ops EXCEPT ![node.key] = op]
  BY Types DEF Succeed, Op, IInv, TypeOK
<1>5. node.error \in Errors \cup {"none"} /\ node' = [node EXCEPT !.at = "bind", !.error = node.error]
  BY DEF Succeed, GoTo, IInv, TypeOK
<1> QED
  BY <1>1, <1>2, <1>3, <1>4, <1>5, OpStepIInv DEF Proposing

(* After a rejected contract nothing is pending, and the node turns to the *)
(* second attempt of the round or gives up.                                *)
LEMMA CorrectIInv ==
  ASSUME IInv, NEW correction \in Corrections, Correct(correction), node.at = "judge",
         UNCHANGED <<intent, stores, answers, asked, faults>>,
         NEW op \in Ops, ops' = [ops EXCEPT ![node.key] = op],
         op.status \in {"returned", "contract_rejected"}, ~op.leased
  PROVE  IInv'
<1>1. CASE node.key.contract # 1
  <2>1. node' = [node EXCEPT !.at = "failed", !.error = "contract"]
    BY <1>1 DEF Correct, Raise
  <2> QED
    BY <2>1, OpStepIInv DEF Errors, Proposing
<1>2. CASE node.key.contract = 1
  <2> DEFINE key == Key(intent.recoveries, 2)
  <2>1. node' = [node EXCEPT !.at = "execute", !.key = key, !.correction = correction]
    BY <1>2 DEF Correct
  <2>2. key \in Keys
    BY DEF Key, Keys, IInv, TypeOK
  <2>3. TypeOK'
    BY <2>1, <2>2 DEF IInv, TypeOK, stores, NodeSteps
  <2>4. PlaceInv' /\ FactsInv'
    BY <2>1 DEF IInv, PlaceInv, FactsInv, TypeOK, stores, Proposing, Flushing
  <2>5. Pending \subseteq {node.key} /\ Pending' = {}
    BY DEF IInv, OpsInv, TypeOK, Pending, Proposing
  <2>6. OpsInv'
    <3>1. node'.at = "execute"
      BY <2>1 DEF IInv, TypeOK
    <3>2. \A k \in Keys : ops'[k].leased => ops'[k].status = "pending"
      BY Types DEF IInv, OpsInv, TypeOK
    <3> QED
      BY <2>5, <3>1, <3>2 DEF OpsInv
  <2>7. QueuedIsProposed'
    BY DEF IInv, PlaceInv, QueuedIsProposed, Proposing
  <2>8. DecisionInv' /\ EachRoundIsGranted'
    BY <2>1 DEF IInv, DecisionInv, EachRoundIsGranted, TypeOK, Replayed
  <2> QED
    BY <2>3, <2>4, <2>6, <2>7, <2>8 DEF IInv
<1> QED
  BY <1>1, <1>2

LEMMA AlreadyRejectedIInv == ASSUME IInv, AlreadyRejected PROVE IInv'
<1>1. /\ node.at = "judge" /\ Op.status = "contract_rejected" /\ Correct("diagnostic")
      /\ UNCHANGED <<intent, ops, stores, answers, asked, faults>>
  BY DEF AlreadyRejected, graph
<1>2. ops' = [ops EXCEPT ![node.key] = Op] /\ Op \in Ops /\ ~Op.leased
  BY <1>1, Types DEF IInv, TypeOK, OpsInv, Op
<1> QED
  BY <1>1, <1>2, CorrectIInv DEF Corrections

LEMMA RejectContractIInv == ASSUME IInv, RejectContract PROVE IInv'
<1> DEFINE op == [Op EXCEPT !.status = "contract_rejected"]
<1>1. /\ node.at = "judge" /\ Op.status = "returned" /\ Correct("rules")
      /\ UNCHANGED <<intent, stores, answers, asked, faults>>
  BY DEF RejectContract, graph
<1>2. op \in Ops /\ op.status = "contract_rejected" /\ op.leased = Op.leased /\ ~Op.leased
  BY <1>1, Types DEF Ops, OpStatuses, IInv, OpsInv, Op
<1>3. ops' = [ops EXCEPT ![node.key] = op]
  BY Types DEF RejectContract, Op, IInv, TypeOK
<1> QED
  BY <1>1, <1>2, <1>3, CorrectIInv DEF Corrections

(* The lease of a dead run runs out, wherever the node is.                 *)
LEMMA ExpireLeaseIInv == ASSUME IInv, NEW k \in Keys, ExpireLease(k) PROVE IInv'
<1> DEFINE op == [ops[k] EXCEPT !.leased = FALSE]
<1>1. /\ ops' = [ops EXCEPT ![k] = op] /\ op \in Ops /\ ~op.leased
      /\ UNCHANGED <<intent, stores, answers, asked, faults, node>>
  <2>1. ops[k] \in Ops
    BY DEF IInv, TypeOK
  <2>2. op \in Ops /\ ~op.leased
    BY <2>1 DEF Ops
  <2>3. ops' = [ops EXCEPT ![k] = op]
    BY DEF ExpireLease, IInv, TypeOK
  <2>4. UNCHANGED <<intent, stores, answers, asked, faults, node>>
    BY DEF ExpireLease, graph
  <2> QED
    BY <2>2, <2>3, <2>4
<1>2. \A l \in Keys : /\ ops'[l].status = ops[l].status /\ ops'[l].payload = ops[l].payload
                      /\ ops'[l].leased => ops[l].leased
  BY <1>1 DEF IInv, TypeOK, Ops
<1>3. Pending' = Pending
  BY <1>2 DEF Pending
<1>4. TypeOK'
  BY <1>1 DEF IInv, TypeOK, stores
<1>5. PlaceInv' /\ FactsInv' /\ DecisionInv' /\ EachRoundIsGranted'
  BY <1>1 DEF IInv, PlaceInv, FactsInv, DecisionInv, EachRoundIsGranted, Replayed, stores
<1>6. OpsInv' /\ QueuedIsProposed'
  BY <1>1, <1>2, <1>3, Types DEF IInv, OpsInv, QueuedIsProposed, Op, stores
<1> QED
  BY <1>4, <1>5, <1>6 DEF IInv

-----------------------------------------------------------------------------
(* From the bound facts to the Canon and the Wiki.                         *)

LEMMA BindIInv == ASSUME IInv, Bind PROVE IInv'
<1>1. /\ node.at = "bind" /\ UNCHANGED <<intent, ops, canon, wiki, answers, asked, faults>>
      /\ Op.status = "succeeded" /\ Op.payload \in WellFormed
  BY DEF Bind, graph, IInv, OpsInv
<1>2. PICK step \in {"attach", "failed"}, error \in Errors \cup {"none"} :
        /\ node' = [node EXCEPT !.at = step, !.error = error]
        /\ evidence \subseteq evidence' /\ evidence' \subseteq Bindable
        /\ step = "attach" => Op.payload \in Bindable /\ Op.payload \in evidence'
  <2>1. CASE Op.payload \in Bindable
    <3>1. node' = [node EXCEPT !.at = "attach", !.error = node.error]
      BY <2>1 DEF Bind, GoTo, IInv, TypeOK
    <3>2. node.error \in Errors \cup {"none"}
      BY DEF IInv, TypeOK
    <3>3. evidence' = evidence \cup {Op.payload} /\ evidence \subseteq Bindable
      BY <2>1 DEF Bind, IInv, TypeOK
    <3> QED
      BY <2>1, <3>1, <3>2, <3>3
  <2>2. CASE Op.payload \notin Bindable
    BY <2>2 DEF Bind, Raise, Errors, IInv, TypeOK
  <2> QED
    BY <2>1, <2>2
<1>3. TypeOK'
  BY <1>1, <1>2 DEF IInv, TypeOK, NodeSteps
<1>4. PlaceInv' /\ FactsInv'
  BY <1>1, <1>2 DEF IInv, PlaceInv, FactsInv, TypeOK, Proposing, Flushing
<1>5. OpsInv'
  BY <1>1, <1>2 DEF IInv, OpsInv, TypeOK, Pending, Op, Proposing
<1>6. QueuedIsProposed'
  BY <1>1 DEF IInv, PlaceInv, QueuedIsProposed, Proposing
<1>7. DecisionInv' /\ EachRoundIsGranted'
  BY <1>1, <1>2 DEF IInv, DecisionInv, EachRoundIsGranted, TypeOK, Replayed
<1> QED
  BY <1>3, <1>4, <1>5, <1>6, <1>7 DEF IInv

LEMMA AttachEvidenceIInv == ASSUME IInv, AttachEvidence PROVE IInv'
<1>1. /\ node.at = "attach" /\ node' = [node EXCEPT !.at = "flush"]
      /\ intent' = [intent EXCEPT !.status = "queued", !.transaction = Op.payload, !.error = "none"]
      /\ UNCHANGED <<ops, stores, answers, asked, faults>>
  BY DEF AttachEvidence, GoTo, graph
<1>2. /\ intent.status = "pending_evidence" /\ intent.transaction = NoPayload
      /\ canon = {} /\ wiki = {}
  BY <1>1, NoPayloadAssumption, PayloadsAssumption
  DEF IInv, TypeOK, PlaceInv, FactsInv, Proposing
<1>3. /\ node.key \in Keys /\ Op.status = "succeeded"
      /\ Op.payload \in Bindable /\ Op.payload \in evidence /\ Op.payload # NoPayload
  BY <1>1, NoPayloadAssumption, PayloadsAssumption DEF IInv, TypeOK, OpsInv
<1>4. Pending = {}
  BY <1>1, <1>3 DEF IInv, OpsInv, Pending, Op, Proposing
<1>5. TypeOK'
  BY <1>1, <1>3, PayloadsAssumption DEF IInv, TypeOK, stores, NodeSteps, IntentStatuses
<1>6. PlaceInv' /\ FactsInv'
  BY <1>1, <1>2, <1>3 DEF IInv, PlaceInv, FactsInv, TypeOK, stores, Proposing, Flushing
<1>7. OpsInv'
  BY <1>1, <1>4 DEF IInv, OpsInv, TypeOK, Pending, Proposing
<1>8. QueuedIsProposed'
  BY <1>1, <1>3, <1>4 DEF IInv, TypeOK, QueuedIsProposed, Pending, Op, stores
<1>9. DecisionInv' /\ EachRoundIsGranted'
  BY <1>1, <1>2 DEF IInv, DecisionInv, EachRoundIsGranted, TypeOK, Replayed
<1> QED
  BY <1>5, <1>6, <1>7, <1>8, <1>9 DEF IInv

(* A step of the flush: the receipt moves between the statuses that stand  *)
(* for attached facts, and the stores take the facts in.                   *)
LEMMA FlushStepIInv ==
  ASSUME IInv, UNCHANGED <<ops, evidence, answers, asked, faults>>,
         node.at \in Flushing,
         NEW step \in {"canon", "wiki", "projected", "decide"},
         node' = [node EXCEPT !.at = step],
         NEW status \in {"queued", "canon_committed", "committed"},
         NEW error \in Errors \cup {"none"},
         intent' = [intent EXCEPT !.status = status, !.error = error],
         status = "committed" => step = "decide",
         canon' \subseteq {intent.transaction}, wiki' \subseteq canon',
         step \in {"canon", "wiki", "projected"} => canon' = {intent.transaction},
         step = "projected" => wiki' = {intent.transaction}
  PROVE  IInv'
<1>1. intent.status \in {"queued", "canon_committed"} /\ intent.transaction # NoPayload
  BY DEF IInv, PlaceInv
<1>2. intent.transaction \in Bindable
  BY <1>1 DEF IInv, FactsInv
<1>3. TypeOK'
  <2>1. canon' \subseteq Bindable /\ wiki' \subseteq Bindable
    BY <1>2
  <2>2. node' \in NodeType
    BY DEF IInv, TypeOK, NodeType, NodeSteps
  <2>3. intent' \in [status      : IntentStatuses,
                     transaction : Payloads \cup {NoPayload},
                     recoveries  : 0 .. MaxRounds,
                     error       : Errors \cup {"none"}]
    BY DEF IInv, TypeOK, IntentStatuses
  <2> QED
    BY <2>1, <2>2, <2>3 DEF IInv, TypeOK, NodeType
<1>4. PlaceInv' /\ FactsInv'
  BY <1>1, <1>2 DEF IInv, PlaceInv, FactsInv, TypeOK, Proposing, Flushing
<1>5. OpsInv' /\ QueuedIsProposed'
  BY DEF IInv, OpsInv, QueuedIsProposed, TypeOK, Pending, Proposing
<1>6. DecisionInv' /\ EachRoundIsGranted'
  BY <1>1 DEF IInv, DecisionInv, EachRoundIsGranted, TypeOK, Replayed, Flushing
<1> QED
  BY <1>3, <1>4, <1>5, <1>6 DEF IInv

LEMMA CanonCommitIInv == ASSUME IInv, CanonCommit PROVE IInv'
<1>1. intent' = [intent EXCEPT !.status = intent.status, !.error = intent.error]
  BY DEF CanonCommit, IInv, TypeOK
<1>2. /\ intent.status \in {"queued", "canon_committed"}
      /\ intent.error \in Errors \cup {"none"}
  BY DEF CanonCommit, IInv, TypeOK, PlaceInv, Flushing
<1>3. canon' = {intent.transaction} /\ wiki' \subseteq canon'
  BY DEF CanonCommit, IInv, FactsInv
<1> QED
  BY <1>1, <1>2, <1>3, FlushStepIInv DEF CanonCommit, GoTo, graph, Flushing

LEMMA CanonCommittedIInv == ASSUME IInv, CanonCommitted PROVE IInv'
<1>1. canon' = {intent.transaction} /\ wiki' \subseteq canon'
  BY DEF CanonCommitted, IInv, FactsInv, stores
<1> QED
  BY <1>1, FlushStepIInv DEF CanonCommitted, GoTo, graph, stores, Flushing

LEMMA WikiProjectIInv == ASSUME IInv, WikiProject PROVE IInv'
<1>1. intent' = [intent EXCEPT !.status = intent.status, !.error = intent.error]
  BY DEF WikiProject, IInv, TypeOK
<1>2. /\ intent.status \in {"queued", "canon_committed"}
      /\ intent.error \in Errors \cup {"none"}
  BY DEF WikiProject, IInv, TypeOK, PlaceInv, Flushing
<1>3. canon' = {intent.transaction} /\ wiki' = {intent.transaction}
  BY DEF WikiProject, IInv, FactsInv
<1> QED
  BY <1>1, <1>2, <1>3, FlushStepIInv DEF WikiProject, GoTo, graph, Flushing

LEMMA CommitIInv == ASSUME IInv, Commit PROVE IInv'
<1>1. canon' = {intent.transaction} /\ wiki' \subseteq canon'
  BY DEF Commit, IInv, FactsInv, stores
<1> QED
  BY <1>1, FlushStepIInv DEF Commit, GoTo, graph, stores, Flushing

LEMMA CancelIInv == ASSUME IInv, Cancel PROVE IInv'
<1>1. /\ node.at = "decide" /\ node' = [node EXCEPT !.at = "ended"]
      /\ UNCHANGED <<ops, stores, answers, asked, faults>>
  BY DEF Cancel, Given, Deciding, GoTo, graph
<1>2. PICK status \in {intent.status, "cancelled"} : intent' = [intent EXCEPT !.status = status]
  <2>1. intent = [intent EXCEPT !.status = intent.status]
    BY DEF IInv, TypeOK
  <2> QED
    BY <2>1 DEF Cancel
<1>3. TypeOK'
  BY <1>1, <1>2 DEF IInv, TypeOK, stores, NodeSteps, IntentStatuses
<1>4. PlaceInv' /\ FactsInv'
  BY <1>1, <1>2 DEF IInv, PlaceInv, FactsInv, TypeOK, stores, Proposing, Flushing
<1>5. OpsInv' /\ QueuedIsProposed'
  BY <1>1, <1>2 DEF IInv, OpsInv, QueuedIsProposed, TypeOK, Pending, Proposing, stores
<1>6. EachRoundIsGranted'
  BY <1>1, <1>2 DEF IInv, EachRoundIsGranted, TypeOK
<1>7. DecisionInv'
  BY <1>1, <1>2, Types DEF IInv, DecisionInv, TypeOK, Replayed
<1> QED
  BY <1>3, <1>4, <1>5, <1>6, <1>7 DEF IInv

LEMMA StutterIInv == ASSUME IInv, UNCHANGED vars PROVE IInv'
<1>1. UNCHANGED <<intent, ops, evidence, canon, wiki, answers, asked, node, faults>>
  BY DEF vars
<1>2. TypeOK' /\ PlaceInv' /\ FactsInv'
  BY <1>1 DEF IInv, TypeOK, PlaceInv, FactsInv
<1>3. OpsInv' /\ QueuedIsProposed'
  BY <1>1 DEF IInv, OpsInv, QueuedIsProposed, Pending, Op
<1>4. DecisionInv' /\ EachRoundIsGranted'
  BY <1>1 DEF IInv, DecisionInv, EachRoundIsGranted, Replayed
<1> QED
  BY <1>2, <1>3, <1>4 DEF IInv

LEMMA NextIInv == IInv /\ [Next]_vars => IInv'
<1> SUFFICES ASSUME IInv, [Next]_vars PROVE IInv'
  OBVIOUS
<1>1. CASE UNCHANGED vars
  BY <1>1, StutterIInv
<1>2. CASE \E action \in {"retry_writeback", "cancel"} : Decide(action)
  BY <1>2, DecideIInv
<1>3. CASE Enter \/ BeginIntent \/ Settled \/ BeginRecovery \/ TakeUp \/ MarkNeedsAction
  BY <1>3, EnterIInv, BeginIntentIInv, SettledIInv, BeginRecoveryIInv, TakeUpIInv,
     MarkNeedsActionIInv
<1>4. CASE Propose \/ BeginOperation \/ FindOperation \/ Claim
  BY <1>4, ProposeIInv, BeginOperationIInv, FindOperationIInv, ClaimIInv
<1>5. CASE \E payload \in Payloads : ProviderAnswers(payload)
  BY <1>5, ProviderAnswersIInv
<1>6. CASE ProviderFails \/ AlreadyRejected \/ RejectContract \/ Succeed \/ Bind \/ AttachEvidence
  BY <1>6, ProviderFailsIInv, AlreadyRejectedIInv, RejectContractIInv, SucceedIInv, BindIInv,
     AttachEvidenceIInv
<1>7. CASE CanonCommit \/ CanonCommitted \/ WikiProject \/ Commit
  BY <1>7, CanonCommitIInv, CanonCommittedIInv, WikiProjectIInv, CommitIInv
<1>8. CASE Interrupt \/ ReplayRetry \/ Retry \/ Cancel \/ End \/ DiskFails \/ Crash
  BY <1>8, InterruptIInv, ReplayRetryIInv, RetryIInv, CancelIInv, EndIInv, DiskFailsIInv, CrashIInv
<1>9. CASE \E k \in Keys : ExpireLease(k)
  BY <1>9, ExpireLeaseIInv
<1> QED
  BY <1>1, <1>2, <1>3, <1>4, <1>5, <1>6, <1>7, <1>8, <1>9 DEF Next

(* The inductive invariant of Phase32WritebackService.commit and the       *)
(* decision loop holds in every state, whatever dies or is retried.        *)
THEOREM Invariance == Spec => []IInv
  BY InitIInv, NextIInv, PTL DEF Spec

(* TypeOK: every variable keeps its type.                                  *)
THEOREM TypeCorrect == Spec => []TypeOK
<1>1. IInv => TypeOK
  BY DEF IInv
<1> QED
  BY <1>1, Invariance, PTL

(* EachRoundIsGranted: every recovery round of a unit is one the author    *)
(* granted, however often the node runs again.                             *)
THEOREM RoundsAreGranted == Spec => []EachRoundIsGranted
<1>1. IInv => EachRoundIsGranted
  BY DEF IInv
<1> QED
  BY <1>1, Invariance, PTL

(* QueuedIsProposed: attached facts come from an operation that succeeded, *)
(* with their Evidence on disk and nothing of the unit left pending.       *)
THEOREM QueuedStaysProposed == Spec => []QueuedIsProposed
<1>1. IInv => QueuedIsProposed
  BY DEF IInv
<1> QED
  BY <1>1, Invariance, PTL

-----------------------------------------------------------------------------
(* Once facts are attached nothing of the operations changes.              *)
LEMMA StepKeepsAttached ==
  IInv /\ [Next]_vars => [intent.transaction # NoPayload => UNCHANGED <<ops, intent.transaction>>]_vars
<1> SUFFICES ASSUME IInv, Next, intent.transaction # NoPayload
             PROVE  UNCHANGED <<ops, intent.transaction>>
  BY DEF vars
<1>1. node.at \notin Proposing
  BY DEF IInv, PlaceInv
<1>2. \A k \in Keys : ~ops[k].leased
  BY DEF IInv, OpsInv, QueuedIsProposed, Pending
<1>3. CASE (\E action \in {"retry_writeback", "cancel"} : Decide(action)) \/ Enter \/ Settled \/ TakeUp
           \/ CanonCommit \/ WikiProject \/ Interrupt \/ ReplayRetry \/ Retry \/ End \/ DiskFails \/ Crash
  BY <1>3 DEF Decide, Enter, Settled, TakeUp, CanonCommit, WikiProject, Interrupt, ReplayRetry, Retry,
     End, DiskFails, Crash
<1>4. CASE BeginIntent \/ BeginRecovery \/ MarkNeedsAction \/ CanonCommitted \/ Commit \/ Cancel
  BY <1>4 DEF BeginIntent, BeginRecovery, MarkNeedsAction, CanonCommitted, Commit, Cancel, IInv, TypeOK
<1>5. CASE Propose \/ BeginOperation \/ FindOperation \/ Claim
           \/ (\E payload \in Payloads : ProviderAnswers(payload)) \/ ProviderFails \/ AlreadyRejected
           \/ RejectContract \/ Succeed \/ Bind \/ AttachEvidence
  BY <1>1, <1>5 DEF Proposing, Propose, BeginOperation, Executing, FindOperation, Claim, ProviderAnswers,
     ProviderFails, AlreadyRejected, RejectContract, Succeed, Bind, AttachEvidence
<1>6. CASE \E k \in Keys : ExpireLease(k)
  BY <1>2, <1>6 DEF ExpireLease
<1> QED
  BY <1>3, <1>4, <1>5, <1>6 DEF Next

(* AttachedIsFinal: after attach_evidence, whatever dies or is retried, no *)
(* operation of the unit changes again and the transaction stays.          *)
THEOREM AttachedStaysFinal == Spec => AttachedIsFinal
  BY InitIInv, NextIInv, StepKeepsAttached, PTL DEF Spec, AttachedIsFinal

-----------------------------------------------------------------------------
(* The refinement of UnitWriteback.                                        *)

LEMMA InitImplements == Init => Promise!Init
  BY DEF Init, Promise!Init, NoIntent

(* Steps that the promise does not see.                                    *)
LEMMA HiddenSteps ==
  ASSUME IInv, UNCHANGED <<stores, answers>>,
         \/ UNCHANGED intent
         \/ BeginIntent \/ BeginRecovery \/ MarkNeedsAction \/ AttachEvidence \/ CanonCommitted
  PROVE  UNCHANGED Promise!writebackVars
<1>1. {intent.status, intent'.status} \cap {"committed", "cancelled"} = {} \/ UNCHANGED intent
  BY DEF BeginIntent, BeginRecovery, MarkNeedsAction, AttachEvidence, CanonCommitted,
     IInv, TypeOK, PlaceInv, Proposing, Flushing
<1> QED
  BY <1>1 DEF Promise!writebackVars, stores

LEMMA StepImplements == IInv /\ [Next]_vars => [Promise!Next]_(Promise!writebackVars)
<1> SUFFICES ASSUME IInv, [Next]_vars
             PROVE  Promise!Next \/ UNCHANGED Promise!writebackVars
  OBVIOUS
<1> USE DEF Promise!Next, Promise!writebackVars
<1>1. CASE UNCHANGED vars
  BY <1>1 DEF vars
<1>2. ASSUME NEW action \in {"retry_writeback", "cancel"}, Decide(action)
      PROVE  Promise!Next \/ UNCHANGED Promise!writebackVars
  <2> DEFINE withdrawn == \E n \in Decisions : answers[n] = "cancel"
  <2>1. asked \in Decisions /\ answers[asked] = "none"
        /\ answers' = [answers EXCEPT ![asked] = action]
        /\ UNCHANGED <<intent, canon, wiki>>
    BY <1>2, BoundsAssumption DEF Decide, stores, IInv, TypeOK, Decisions
  <2>2. withdrawn => withdrawn'
    BY <2>1 DEF IInv, TypeOK
  <2>3. CASE withdrawn' = withdrawn
    BY <2>1, <2>3
  <2>4. CASE ~withdrawn /\ withdrawn'
    BY <2>1, <2>4 DEF Promise!Withdraw
  <2> QED
    BY <2>2, <2>3, <2>4
<1>3. CASE Enter \/ Settled \/ TakeUp \/ Propose \/ BeginOperation \/ FindOperation \/ Claim
           \/ (\E payload \in Payloads : ProviderAnswers(payload)) \/ ProviderFails \/ AlreadyRejected
           \/ RejectContract \/ Succeed \/ Interrupt \/ ReplayRetry \/ Retry \/ End \/ DiskFails \/ Crash
           \/ (\E k \in Keys : ExpireLease(k))
  BY <1>3, HiddenSteps DEF Enter, Settled, TakeUp, Propose, BeginOperation, FindOperation, Claim,
     ProviderAnswers, ProviderFails, AlreadyRejected, RejectContract, Succeed, Interrupt, ReplayRetry,
     Retry, End, DiskFails, Crash, ExpireLease, graph
<1>4. CASE BeginIntent \/ BeginRecovery \/ MarkNeedsAction \/ AttachEvidence \/ CanonCommitted
  <2>1. UNCHANGED <<stores, answers>>
    BY <1>4 DEF BeginIntent, BeginRecovery, MarkNeedsAction, AttachEvidence, CanonCommitted, graph
  <2> QED
    BY <1>4, <2>1, HiddenSteps
<1>5. CASE Bind
  BY <1>5 DEF Bind, graph
<1>6. CASE CanonCommit
  <2>1. /\ intent.status \in {"queued", "canon_committed"} /\ canon \subseteq {intent.transaction}
        /\ intent.transaction \in Bindable
        /\ canon' = canon \cup {intent.transaction} /\ UNCHANGED <<intent, wiki, answers>>
    BY <1>6 DEF CanonCommit, graph, IInv, PlaceInv, FactsInv, Flushing
  <2>2. CASE canon = {}
    BY <2>1, <2>2 DEF Promise!CommitFacts
  <2>3. CASE canon # {}
    BY <2>1, <2>3
  <2> QED
    BY <2>2, <2>3
<1>7. CASE WikiProject
  <2>1. /\ intent.status \in {"queued", "canon_committed"} /\ canon = {intent.transaction}
        /\ wiki' = canon /\ UNCHANGED <<intent, canon, answers>>
    BY <1>7 DEF WikiProject, graph, IInv, PlaceInv, FactsInv, Flushing
  <2> QED
    BY <2>1 DEF Promise!Project
<1>8. CASE Commit
  <2>1. /\ intent.status \in {"queued", "canon_committed"} /\ intent'.status = "committed"
        /\ canon # {} /\ wiki = canon /\ UNCHANGED <<canon, wiki, answers>>
    BY <1>8 DEF Commit, graph, stores, IInv, TypeOK, PlaceInv, FactsInv, Flushing
  <2> QED
    BY <2>1 DEF Promise!Complete
<1>9. CASE Cancel
  <2>1. /\ UNCHANGED <<canon, wiki, answers>>
        /\ \E n \in Decisions : answers[n] = "cancel"
    <3>1. node.number \in Nat /\ node.number >= 1 /\ node.number <= node.given
          /\ node.given \in 0 .. MaxRounds + 1 /\ answers[node.number] = "cancel"
      BY <1>9 DEF Cancel, Given, IInv, TypeOK
    <3>2. node.number \in Decisions
      BY <3>1, BoundsAssumption DEF Decisions
    <3> QED
      BY <1>9, <3>1, <3>2 DEF Cancel, graph, stores
  <2>2. CASE intent.status \in {"committed", "cancelled"}
    BY <1>9, <2>1, <2>2 DEF Cancel, IInv, TypeOK
  <2>3. CASE intent.status \notin {"committed", "cancelled"}
    BY <1>9, <2>1, <2>3 DEF Cancel, IInv, TypeOK, Promise!Cancel
  <2> QED
    BY <2>2, <2>3
<1> QED
  BY <1>1, <1>2, <1>3, <1>4, <1>5, <1>6, <1>7, <1>8, <1>9 DEF Next

(* ImplementsUnitWriteback: the stores and the author's answers, whatever  *)
(* dies, is retried or comes late, make the promised writeback.            *)
THEOREM RefinesUnitWriteback == Spec => ImplementsUnitWriteback
  BY InitIInv, NextIInv, InitImplements, StepImplements, PTL
  DEF Spec, ImplementsUnitWriteback, Promise!Spec
=============================================================================
