------------------------------ MODULE Writeback ------------------------------
(***************************************************************************)
(* The formal writeback of one accepted Script or Text unit: the loop of   *)
(* commit_candidate over writeback decisions, Phase32WritebackService and  *)
(* the outbox, Canon and Wiki stores, with the Provider operations that    *)
(* propose the unit's facts.  The node may die between any two writes; it  *)
(* is then run again from its beginning with the same decisions, which     *)
(* LangGraph replays in order.                                             *)
(*                                                                         *)
(* The execution lock admits one run of the node at a time, so a Provider  *)
(* operation is shared only with runs that died.  A proposal bundle, the   *)
(* facts bound from it and the transaction over them (all deterministic)   *)
(* are one value, a payload.  A prompt is identified by the correction it  *)
(* carries, since the rest is frozen with the source.                      *)
(***************************************************************************)
EXTENDS Naturals

CONSTANTS
  Payloads,    \* what the Provider may propose
  WellFormed,  \* the bundles that satisfy the proposal contract
  Bindable,    \* those whose claims bind to the source
  NoPayload,
  MaxCalls,    \* max_transport_attempts
  MaxRounds,   \* bound on the recoveries the author grants
  MaxFaults    \* bound on crashes and disk errors

ASSUME PayloadsAssumption == Bindable \subseteq WellFormed /\ WellFormed \subseteq Payloads
ASSUME NoPayloadAssumption == NoPayload \notin Payloads
ASSUME BoundsAssumption == MaxCalls \in Nat \ {0} /\ MaxRounds \in Nat /\ MaxFaults \in Nat

VARIABLES
  intent,    \* the outbox receipt
  ops,       \* the Provider operations, by recovery round and contract attempt
  evidence, canon, wiki,
  answers,   \* the author's command for each writeback decision
  asked,     \* the decision the graph waits for; 0: the accept of the unit
  node,      \* the commit node
  faults

vars == <<intent, ops, evidence, canon, wiki, answers, asked, node, faults>>

(* _writeback_operation_key.                                               *)
Keys == [round : 0 .. MaxRounds, contract : {1, 2}]
Key(round, contract) == [round |-> round, contract |-> contract]

Decisions == 1 .. MaxRounds + 1

IntentStatuses ==
  {"absent", "pending_evidence", "queued", "canon_committed", "committed", "needs_action", "cancelled"}

Errors == {"transport", "busy", "exhausted", "conflict", "contract", "binding", "disk"}

(* What the correction of a prompt says: nothing, the error of the last    *)
(* round, the rules recomputed from a rejected payload, or the message a   *)
(* rejected receipt was stored with.                                       *)
Corrections == Errors \cup {"none", "rules", "diagnostic"}

OpStatuses == {"absent", "pending", "returned", "succeeded", "contract_rejected"}

Ops ==
  [status : OpStatuses, prompt : Corrections, calls : 0 .. MaxCalls,
   leased : BOOLEAN, payload : Payloads \cup {NoPayload}]

NoOp ==
  [status |-> "absent", prompt |-> "none", calls |-> 0, leased |-> FALSE, payload |-> NoPayload]

NoIntent ==
  [status |-> "absent", transaction |-> NoPayload, recoveries |-> 0, error |-> "none"]

NodeSteps ==
  {"idle", "commit", "propose", "execute", "claim", "waiting", "judge", "bind", "attach",
   "failed", "flush", "canon", "wiki", "projected", "decide", "ended"}

IdleNode ==
  [at |-> "idle", given |-> 0, number |-> 1, retry |-> FALSE,
   correction |-> "none", key |-> Key(0, 1), error |-> "none"]

TypeOK ==
  /\ intent \in [status      : IntentStatuses,
                 transaction : Payloads \cup {NoPayload},
                 recoveries  : 0 .. MaxRounds,
                 error       : Errors \cup {"none"}]
  /\ ops \in [Keys -> Ops]
  /\ evidence \subseteq Bindable /\ canon \subseteq Bindable /\ wiki \subseteq Bindable
  /\ answers \in [Decisions -> {"none", "retry_writeback", "cancel"}]
  /\ asked \in 0 .. MaxRounds + 1
  /\ node \in [at : NodeSteps, given : 0 .. MaxRounds + 1, number : 1 .. MaxRounds + 2,
               retry : BOOLEAN, correction : Corrections, key : Keys,
               error : Errors \cup {"none"}]
  /\ faults \in 0 .. MaxFaults

Init ==
  /\ intent = NoIntent
  /\ ops = [k \in Keys |-> NoOp]
  /\ evidence = {} /\ canon = {} /\ wiki = {}
  /\ answers = [n \in Decisions |-> "none"]
  /\ asked = 0
  /\ node = IdleNode
  /\ faults = 0

stores == <<evidence, canon, wiki>>
graph  == <<answers, asked, faults>>

GoTo(step) == node' = [node EXCEPT !.at = step]
Raise(error) == node' = [node EXCEPT !.at = "failed", !.error = error]

-----------------------------------------------------------------------------
(* The author and the graph.                                               *)

(* The decision receipt: one command for each decision, for good.          *)
Decide(action) ==
  /\ node.at = "idle"
  /\ asked # 0
  /\ answers[asked] = "none"
  /\ action = "retry_writeback" => asked <= MaxRounds
  /\ answers' = [answers EXCEPT ![asked] = action]
  /\ UNCHANGED <<intent, ops, stores, asked, node, faults>>

(* Mutant: a run of the node retries what needs action without being told. *)
EnterRetrying ==
  /\ node.at = "idle"
  /\ asked # 0 => answers[asked] # "none"
  /\ node' = [IdleNode EXCEPT !.at = "commit", !.given = asked, !.retry = TRUE]
  /\ UNCHANGED <<intent, ops, stores, graph>>

(* The node runs, for the first time or again, with the decisions so far.  *)
Enter ==
  /\ node.at = "idle"
  /\ asked # 0 => answers[asked] # "none"
  /\ node' = [IdleNode EXCEPT !.at = "commit", !.given = asked]
  /\ UNCHANGED <<intent, ops, stores, graph>>

-----------------------------------------------------------------------------
(* Phase32WritebackService.commit.                                         *)

BeginIntent ==
  /\ node.at = "commit"
  /\ intent.status = "absent"
  /\ intent' = [intent EXCEPT !.status = "pending_evidence"]
  /\ GoTo("propose")
  /\ UNCHANGED <<ops, stores, graph>>

Settled ==
  /\ node.at = "commit"
  /\ intent.status \in {"committed", "cancelled"} \/ (intent.status = "needs_action" /\ ~node.retry)
  /\ GoTo("decide")
  /\ UNCHANGED <<intent, ops, stores, graph>>

(* Mutant: facts that are attached are proposed again.                     *)
AlwaysPropose == "propose"

(* Facts that were attached are flushed, and never proposed again.         *)
AfterBegin == IF intent.transaction = NoPayload THEN "propose" ELSE "flush"

BeginRecovery ==
  /\ node.at = "commit"
  /\ intent.status = "needs_action"
  /\ node.retry
  /\ intent' = [intent EXCEPT
       !.status     = IF intent.transaction = NoPayload THEN "pending_evidence" ELSE "queued",
       !.recoveries = @ + 1,
       !.error      = "none"]
  /\ node' = [node EXCEPT !.at = AfterBegin, !.correction = intent.error]
  /\ UNCHANGED <<ops, stores, graph>>

(* A run that died is taken up where the receipt says.  The error of the   *)
(* round was cleared when it began: its correction is gone.                *)
TakeUp ==
  /\ node.at = "commit"
  /\ intent.status \in {"pending_evidence", "queued", "canon_committed"}
  /\ GoTo(AfterBegin)
  /\ UNCHANGED <<intent, ops, stores, graph>>

MarkNeedsAction ==
  /\ node.at = "failed"
  /\ intent' = [intent EXCEPT !.status = "needs_action", !.error = node.error]
  /\ GoTo("decide")
  /\ UNCHANGED <<ops, stores, graph>>

-----------------------------------------------------------------------------
(* _proposal and _execute_provider_request.                                *)

(* _pending_writeback_operation.                                           *)
Pending == {k \in Keys : ops[k].status = "pending"}

(* Mutant: an operation left pending is not looked for.                    *)
ProposeAnew ==
  /\ node.at = "propose"
  /\ node' = [node EXCEPT !.at = "execute", !.key = Key(intent.recoveries, 1)]
  /\ UNCHANGED <<intent, ops, stores, graph>>

(* A pending operation is replayed, with its frozen prompt, before a new   *)
(* one is minted.                                                          *)
Propose ==
  /\ node.at = "propose"
  /\ \/ \E k \in Pending :
          node' = [node EXCEPT !.at = "execute", !.key = k, !.correction = ops[k].prompt]
     \/ /\ Pending = {}
        /\ node' = [node EXCEPT !.at = "execute", !.key = Key(intent.recoveries, 1)]
  /\ UNCHANGED <<intent, ops, stores, graph>>

Executing == node.at = "execute"
Op == ops[node.key]

BeginOperation ==
  /\ Executing
  /\ Op.status = "absent"
  /\ ops' = [ops EXCEPT ![node.key] =
               [NoOp EXCEPT !.status = "pending", !.prompt = node.correction]]
  /\ GoTo("claim")
  /\ UNCHANGED <<intent, stores, graph>>

(* begin finds the operation: with another prompt its signature differs.   *)
FindOperation ==
  /\ Executing
  /\ Op.status # "absent"
  /\ IF Op.prompt # node.correction THEN Raise("conflict")
     ELSE GoTo(IF Op.status = "pending" THEN "claim" ELSE "judge")
  /\ UNCHANGED <<intent, ops, stores, graph>>

Claim ==
  /\ node.at = "claim"
  /\ \/ Op.leased /\ Raise("busy") /\ UNCHANGED ops
     \/ ~Op.leased /\ Op.calls = MaxCalls /\ Raise("exhausted") /\ UNCHANGED ops
     \/ /\ ~Op.leased /\ Op.calls < MaxCalls
        /\ ops' = [ops EXCEPT ![node.key].calls = @ + 1, ![node.key].leased = TRUE]
        /\ GoTo("waiting")
  /\ UNCHANGED <<intent, stores, graph>>

ProviderAnswers(payload) ==
  /\ node.at = "waiting"
  /\ ops' = [ops EXCEPT ![node.key].status = "returned", ![node.key].payload = payload,
                        ![node.key].leased = FALSE]
  /\ GoTo("judge")
  /\ UNCHANGED <<intent, stores, graph>>

ProviderFails ==
  /\ node.at = "waiting"
  /\ ops' = [ops EXCEPT ![node.key].leased = FALSE]
  /\ Raise("transport")
  /\ UNCHANGED <<intent, stores, graph>>

(* One correction, under the present round, then the contract has failed.  *)
Correct(correction) ==
  IF node.key.contract = 1
    THEN node' = [node EXCEPT !.at = "execute", !.key = Key(intent.recoveries, 2),
                              !.correction = correction]
    ELSE Raise("contract")

AlreadyRejected ==
  /\ node.at = "judge"
  /\ Op.status = "contract_rejected"
  /\ Correct("diagnostic")
  /\ UNCHANGED <<intent, ops, stores, graph>>

RejectContract ==
  /\ node.at = "judge"
  /\ Op.status = "returned" /\ Op.payload \notin WellFormed
  /\ ops' = [ops EXCEPT ![node.key].status = "contract_rejected"]
  /\ Correct("rules")
  /\ UNCHANGED <<intent, stores, graph>>

Succeed ==
  /\ node.at = "judge"
  /\ Op.status \in {"returned", "succeeded"} /\ Op.payload \in WellFormed
  /\ ops' = [ops EXCEPT ![node.key].status = "succeeded"]
  /\ GoTo("bind")
  /\ UNCHANGED <<intent, stores, graph>>

(* Mutant: claims are recorded as Evidence before they are bound.          *)
BindAnything ==
  /\ node.at = "bind"
  /\ evidence' = evidence \cup {Op.payload}
  /\ GoTo("attach")
  /\ UNCHANGED <<intent, ops, canon, wiki, graph>>

(* bind_writeback_proposals, then the Evidence records.                    *)
Bind ==
  /\ node.at = "bind"
  /\ IF Op.payload \in Bindable
       THEN evidence' = evidence \cup {Op.payload} /\ GoTo("attach")
       ELSE evidence' = evidence /\ Raise("binding")
  /\ UNCHANGED <<intent, ops, canon, wiki, graph>>

AttachEvidence ==
  /\ node.at = "attach"
  /\ intent' = [intent EXCEPT !.status = "queued", !.transaction = Op.payload, !.error = "none"]
  /\ GoTo("flush")
  /\ UNCHANGED <<ops, stores, graph>>

-----------------------------------------------------------------------------
(* Phase32WritebackOutbox.flush, write by write.                           *)

CanonCommit ==
  /\ node.at = "flush"
  /\ canon' = canon \cup {intent.transaction}
  /\ GoTo("canon")
  /\ UNCHANGED <<intent, ops, evidence, wiki, graph>>

(* Mutant: a writeback is taken for complete once the Canon has it.        *)
CanonCommittedOnly ==
  /\ node.at = "canon"
  /\ intent' = [intent EXCEPT !.status = "canon_committed", !.error = "none"]
  /\ GoTo("projected")
  /\ UNCHANGED <<ops, stores, graph>>

CanonCommitted ==
  /\ node.at = "canon"
  /\ intent' = [intent EXCEPT !.status = "canon_committed", !.error = "none"]
  /\ GoTo("wiki")
  /\ UNCHANGED <<ops, stores, graph>>

WikiProject ==
  /\ node.at = "wiki"
  /\ wiki' = wiki \cup {intent.transaction}
  /\ GoTo("projected")
  /\ UNCHANGED <<intent, ops, evidence, canon, graph>>

Commit ==
  /\ node.at = "projected"
  /\ intent' = [intent EXCEPT !.status = "committed", !.error = "none"]
  /\ GoTo("decide")
  /\ UNCHANGED <<ops, stores, graph>>

-----------------------------------------------------------------------------
(* The decision loop of commit_candidate.                                  *)

(* Decisions already applied are replayed: each recovery, and the cancel.  *)
Replayed == intent.recoveries + (IF intent.status = "cancelled" THEN 1 ELSE 0)
Deciding ==
  /\ node.at = "decide"
  /\ node.number <= Replayed \/ intent.status = "needs_action"
Given(action) == Deciding /\ node.number <= node.given /\ answers[node.number] = action

Interrupt ==
  /\ Deciding
  /\ node.number > node.given
  /\ asked' = node.number
  /\ node' = IdleNode
  /\ UNCHANGED <<intent, ops, stores, answers, faults>>

ReplayRetry ==
  /\ Given("retry_writeback")
  /\ node.number <= Replayed
  /\ node' = [node EXCEPT !.number = @ + 1]
  /\ UNCHANGED <<intent, ops, stores, graph>>

Retry ==
  /\ Given("retry_writeback")
  /\ node.number > Replayed
  /\ node' = [node EXCEPT !.at = "commit", !.number = @ + 1, !.retry = TRUE]
  /\ UNCHANGED <<intent, ops, stores, graph>>

Cancel ==
  /\ Given("cancel")
  /\ intent' = IF intent.status = "committed" THEN intent
               ELSE [intent EXCEPT !.status = "cancelled"]
  /\ GoTo("ended")
  /\ UNCHANGED <<ops, stores, graph>>

End ==
  /\ node.at = "decide"
  /\ ~Deciding
  /\ GoTo("ended")
  /\ UNCHANGED <<intent, ops, stores, graph>>

-----------------------------------------------------------------------------
(* Faults.                                                                 *)

(* A store raises: commit and flush catch it and ask the author.           *)
DiskFails ==
  /\ node.at \in {"bind", "attach", "flush", "canon", "wiki"}
  /\ faults < MaxFaults
  /\ faults' = faults + 1
  /\ Raise("disk")
  /\ UNCHANGED <<intent, ops, stores, answers, asked>>

(* The process dies, or an error leaves the node.                          *)
Crash ==
  /\ node.at \notin {"idle", "ended"}
  /\ faults < MaxFaults
  /\ faults' = faults + 1
  /\ node' = IdleNode
  /\ UNCHANGED <<intent, ops, stores, answers, asked>>

(* The lease of a run that died runs out.                                  *)
ExpireLease(k) ==
  /\ ops[k].leased
  /\ node.at # "waiting"
  /\ ops' = [ops EXCEPT ![k].leased = FALSE]
  /\ UNCHANGED <<intent, stores, graph, node>>

-----------------------------------------------------------------------------
Next ==
  \/ \E action \in {"retry_writeback", "cancel"} : Decide(action)
  \/ Enter
  \/ BeginIntent \/ Settled \/ BeginRecovery \/ TakeUp \/ MarkNeedsAction
  \/ Propose \/ BeginOperation \/ FindOperation \/ Claim
  \/ \E payload \in Payloads : ProviderAnswers(payload)
  \/ ProviderFails \/ AlreadyRejected \/ RejectContract \/ Succeed \/ Bind \/ AttachEvidence
  \/ CanonCommit \/ CanonCommitted \/ WikiProject \/ Commit
  \/ Interrupt \/ ReplayRetry \/ Retry \/ Cancel \/ End
  \/ DiskFails \/ Crash
  \/ \E k \in Keys : ExpireLease(k)

Spec == Init /\ [][Next]_vars

-----------------------------------------------------------------------------
(* Properties.                                                             *)

(* commit and the comment on replays (route_graph.py): however often the   *)
(* node runs again, a recovery round is one the author granted, and        *)
(* granted once.                                                           *)
EachRoundIsGranted == \A n \in 1 .. intent.recoveries : answers[n] = "retry_writeback"

(* _proposal: what is queued for the Canon comes from an operation that    *)
(* succeeded, its Evidence is on disk, and no operation of the unit is     *)
(* left pending, so that usage and cost are final.                         *)
QueuedIsProposed ==
  intent.transaction # NoPayload =>
    /\ \E k \in Keys : ops[k].status = "succeeded" /\ ops[k].payload = intent.transaction
    /\ intent.transaction \in evidence
    /\ Pending = {}

(* commit: once facts are attached, whatever dies or is retried, the       *)
(* Provider is not asked again.                                            *)
AttachedIsFinal ==
  [][intent.transaction # NoPayload => UNCHANGED <<ops, intent.transaction>>]_vars

(* The stores and the author's answers, seen together, are the promised    *)
(* writeback.                                                              *)
Promise == INSTANCE UnitWriteback WITH
  Facts     <- Bindable,
  status    <- IF intent.status \in {"committed", "cancelled"} THEN intent.status ELSE "open",
  canon     <- canon,
  wiki      <- wiki,
  withdrawn <- \E n \in Decisions : answers[n] = "cancel"

ImplementsUnitWriteback == Promise!Spec
==============================================================================
