----------------------------- MODULE RunExecution -----------------------------
(***************************************************************************)
(* One Run driven by author commands: Phase32RunExecutionService.start,    *)
(* resume and recover, the route graph they step, and the three durable    *)
(* things a step touches one after the other: the decision receipt, the    *)
(* LangGraph checkpoint and the Run record.  The process may die between   *)
(* any two of them.                                                        *)
(*                                                                         *)
(* The execution lock admits one command at a time, so at most one step    *)
(* (job) runs.  LangGraph is external: a checkpoint is written when a node *)
(* completes or interrupts, a node that fails is left where it was, an     *)
(* interrupt stays listed until its stage has ended, and a resume value    *)
(* that is not consumed by a completed node is lost.                       *)
(*                                                                         *)
(* An operation key, the candidate Artifact its Provider operation yields  *)
(* (always the same one, see ProviderOperation) and the decision on that   *)
(* candidate (decision_id is run:stage:artifact_ref) determine each other, *)
(* so one value, a draft, stands for all three.  A candidate the author    *)
(* edited or repaired carries the texts put in its place.  A unit is one   *)
(* commit of the route: a stage, or one unit of a sequential stage, so the *)
(* domain revision is the number of committed units.                       *)
(*                                                                         *)
(* A contract repair (Phase32ContractRepairService) replaces a Provider    *)
(* return that was rejected by a text of the author's: it is recorded,     *)
(* then the graph is stepped with a driver that hands it out instead of    *)
(* calling the Provider.                                                   *)
(***************************************************************************)
EXTENDS Naturals, Sequences, FiniteSets

CONSTANTS
  Route,         \* the stage of each unit, in route order
  Mandatory,     \* mandatory_decision_stages
  Editable,      \* stages open to author editing
  RedraftLimit,  \* directed_redraft_limit_by_stage
  Directions,    \* directions the author writes
  NoDirection,   \* the empty direction
  Edits,         \* texts an accept may put in place of its candidate
  NoEdit,
  RepairIds,     \* repair ids, each bound to the text it was first sent with
  NoDraft,
  MaxFaults      \* bound on crashes and technical failures

Units == 1 .. Len(Route)
Stages == {Route[u] : u \in Units}

ASSUME RouteAssumption ==
  /\ Route \in Seq(Stages) /\ Route # <<>>
  /\ Mandatory \subseteq Stages /\ Editable \subseteq Stages
  /\ RedraftLimit \in [Stages -> Nat]
  /\ NoDirection \notin Directions /\ NoEdit \notin Edits /\ Edits \cap RepairIds = {}
  /\ MaxFaults \in Nat

Drafts ==
  [unit      : Units,
   attempt   : Nat \ {0},
   direction : Directions \cup {NoDirection},
   texts     : Seq(Edits \cup RepairIds)]

ASSUME NoDraftAssumption == NoDraft \notin Drafts

Commands ==
  [draft     : Drafts,
   action    : {"accept", "regenerate", "cancel"},
   direction : Directions \cup {NoDirection},
   edit      : Edits \cup {NoEdit}]

NoCommand ==
  [draft |-> NoDraft, action |-> "none", direction |-> NoDirection, edit |-> NoEdit]

(* materialize_accept_candidate: the candidate an accept commits.          *)
Accepts(command) ==
  IF command.edit = NoEdit THEN command.draft
  ELSE [command.draft EXCEPT !.texts = Append(@, command.edit)]

(* The candidate that repairs a rejected return.                           *)
RepairOf(key, id) == [key EXCEPT !.texts = <<id>>]

(* The routing state that both the checkpoint and the record hold.         *)
RunStates ==
  [status    : {"created", "running", "awaiting_decision", "failed", "completed", "cancelled"},
   artifacts : Seq(Drafts),
   attempts  : [Stages -> Nat],
   redrafts  : Nat,
   candidate : Drafts \cup {NoDraft},
   action    : {"none", "accept", "regenerate", "cancel"},
   direction : Directions \cup {NoDirection}]

VARIABLES
  record,      \* the repository's projection: state, pending decision, failure
  checkpoint,  \* LangGraph: the next node, the graph state, its interrupt
  receipts,    \* decision receipts: the commands begun and succeeded
  drafted,     \* operation keys that yielded a candidate
  rejected,    \* operation keys whose output broke the contract
  latest,      \* the one that had its verdict last
  repairs,     \* repair receipts, by their candidates
  job,         \* the command being executed
  faults

operations == <<drafted, rejected, latest>>
vars == <<record, checkpoint, receipts, operations, repairs, job, faults>>

Nodes == {"started", "generate", "decision", "commit", "finished", "done"}
Phases == {"input", "bind", "graph", "project", "settle", "failing", "reconcile"}
Failures == {"none", "transport", "contract", "mismatch", "other"}

NoJob ==
  [phase |-> "none", command |-> NoCommand, repair |-> NoDraft, spent |-> FALSE,
   value |-> "none", failure |-> "none"]
NoReceipts == [begun |-> {}, succeeded |-> {}]

TypeOK ==
  /\ record \in [state   : RunStates,
                 pending : Drafts \cup {NoDraft},
                 used    : Nat,
                 failure : Failures]
  /\ checkpoint \in [node : Nodes, state : RunStates, asked : BOOLEAN, listed : BOOLEAN]
  /\ receipts \in [begun : SUBSET Commands, succeeded : SUBSET Commands]
  /\ receipts.succeeded \subseteq receipts.begun
  /\ \A c, d \in receipts.begun : c.draft = d.draft => c = d
  /\ drafted \subseteq Drafts /\ rejected \subseteq Drafts
  /\ drafted \cap rejected = {} /\ latest \in drafted \cup rejected \cup {NoDraft}
  /\ repairs \in [begun : SUBSET Drafts, succeeded : SUBSET Drafts]
  /\ repairs.succeeded \subseteq repairs.begun
  /\ job \in [phase   : Phases \cup {"none"},
              command : Commands \cup {NoCommand},
              repair  : repairs.begun \cup {NoDraft},
              spent   : BOOLEAN,
              value   : {"none", "this", "next"},
              failure : Failures]
  /\ faults \in 0 .. MaxFaults

(* initial_route_run_state.                                                *)
InitialState ==
  [status    |-> "created",
   artifacts |-> <<>>,
   attempts  |-> [s \in Stages |-> 0],
   redrafts  |-> 0,
   candidate |-> NoDraft,
   action    |-> "none",
   direction |-> NoDirection]

Init ==
  /\ record = [state |-> InitialState, pending |-> NoDraft, used |-> 0, failure |-> "none"]
  /\ checkpoint = [node |-> "started", state |-> InitialState, asked |-> FALSE, listed |-> FALSE]
  /\ receipts = NoReceipts
  /\ drafted = {} /\ rejected = {} /\ latest = NoDraft
  /\ repairs = NoReceipts
  /\ job = NoJob
  /\ faults = 0

(* The unit a state works on, and its stage.                               *)
Unit(state) == Len(state.artifacts) + 1
Stage(state) == Route[Unit(state)]

(* _operation_key.                                                         *)
Key(state, direction) ==
  [unit      |-> Unit(state),
   attempt   |-> state.attempts[Stage(state)] + state.redrafts + 1,
   direction |-> direction,
   texts     |-> <<>>]

Larger(m, n) == IF m > n THEN m ELSE n

-----------------------------------------------------------------------------
(* Commands.                                                               *)

(* Mutant: start asks only whether a decision is pending.                  *)
StartAnyRun ==
  /\ job = NoJob
  /\ record.state.status # "awaiting_decision"
  /\ Len(record.state.artifacts) < Len(Route)
  /\ job' = [NoJob EXCEPT !.phase = "input"]
  /\ UNCHANGED <<record, checkpoint, receipts, operations, repairs, faults>>

(* start on a created or running Run; on any other it returns what is      *)
(* there, or refuses.                                                      *)
Start ==
  /\ job = NoJob
  /\ record.state.status \in {"created", "running"}
  /\ job' = [NoJob EXCEPT !.phase = "input"]
  /\ UNCHANGED <<record, checkpoint, receipts, operations, repairs, faults>>

(* Mutant: the command is not compared with the one the receipt holds.     *)
SubmitAnother(command) ==
  /\ job = NoJob
  /\ record.pending = command.draft
  /\ command.action = "regenerate" <=> command.direction # NoDirection
  /\ command.edit # NoEdit => command.action = "accept" /\ Stage(record.state) \in Editable
  /\ command.action = "regenerate" => record.used < RedraftLimit[Stage(record.state)]
  /\ command \notin receipts.succeeded
  /\ receipts' = [receipts EXCEPT !.begun = @ \cup {command}]
  /\ job' = [NoJob EXCEPT !.phase = "bind", !.command = command]
  /\ UNCHANGED <<record, checkpoint, operations, repairs, faults>>

(* resume with a command for the pending decision: it must be allowed, and *)
(* the same as the one the decision's receipt already holds, if any.       *)
Submit(command) ==
  /\ job = NoJob
  /\ record.pending = command.draft
  /\ command.action = "regenerate" <=> command.direction # NoDirection
  /\ command.edit # NoEdit => command.action = "accept" /\ Stage(record.state) \in Editable
  /\ command.action = "regenerate" => record.used < RedraftLimit[Stage(record.state)]
  /\ \A c \in receipts.begun : c.draft = command.draft => c = command
  /\ command \notin receipts.succeeded
  /\ receipts' = [receipts EXCEPT !.begun = @ \cup {command}]
  /\ job' = [NoJob EXCEPT !.phase = "bind", !.command = command]
  /\ UNCHANGED <<record, checkpoint, operations, repairs, faults>>

(* resume with a command whose decision has gone: only the receipt is      *)
(* completed.                                                              *)
SubmitAgain(command) ==
  /\ job = NoJob
  /\ command \in receipts.begun \ receipts.succeeded
  /\ record.pending # command.draft
  /\ receipts' = [receipts EXCEPT !.succeeded = @ \cup {command}]
  /\ UNCHANGED <<record, checkpoint, operations, repairs, job, faults>>

(* Mutant: the redraft limit of a recovery is off by one.                  *)
RecoverOnceMore(direction) ==
  LET state == record.state
      stage == Stage(state)
      used  == Larger(state.attempts[stage], state.redrafts)
  IN  /\ job = NoJob
      /\ state.status = "failed"
      /\ record.failure = "contract"
      /\ used <= RedraftLimit[stage]
      /\ record' = [state   |-> [state EXCEPT !.status = "running",
                                              !.attempts[stage] = used + 1,
                                              !.redrafts = 0,
                                              !.candidate = NoDraft,
                                              !.action = "none",
                                              !.direction = direction],
                    pending |-> NoDraft,
                    used    |-> 0,
                    failure |-> "none"]
      /\ job' = [NoJob EXCEPT !.phase = "input"]
      /\ UNCHANGED <<checkpoint, receipts, operations, repairs, faults>>

(* recover, under a recovery id of its own: a Run that failed on the       *)
(* contract is set running again for one more directed attempt.  (A        *)
(* repeated id never steps the graph.)                                     *)
Recover(direction) ==
  LET state == record.state
      stage == Stage(state)
      used  == Larger(state.attempts[stage], state.redrafts)
  IN  /\ job = NoJob
      /\ state.status = "failed"
      /\ record.failure = "contract"
      /\ used < RedraftLimit[stage]
      /\ record' = [state   |-> [state EXCEPT !.status = "running",
                                              !.attempts[stage] = used + 1,
                                              !.redrafts = 0,
                                              !.candidate = NoDraft,
                                              !.action = "none",
                                              !.direction = direction],
                    pending |-> NoDraft,
                    used    |-> 0,
                    failure |-> "none"]
      /\ job' = [NoJob EXCEPT !.phase = "input"]
      /\ UNCHANGED <<checkpoint, receipts, operations, repairs, faults>>

-----------------------------------------------------------------------------
(* Contract repairs.                                                       *)

BrokeContract == record.state.status = "failed" /\ record.failure = "contract"

(* inspect, then begin, neither of them under the execution lock: the      *)
(* latest operation of the stage that failed was rejected, and the author  *)
(* decides on that stage.                                                  *)
BeginRepair(id) ==
  /\ BrokeContract
  /\ latest \in rejected /\ Route[latest.unit] = Stage(record.state)
  /\ Stage(record.state) \in Mandatory
  /\ \A candidate \in repairs.begun : candidate.texts # <<id>>
  /\ repairs' = [repairs EXCEPT !.begun = @ \cup {RepairOf(latest, id)}]
  /\ UNCHANGED <<record, checkpoint, receipts, operations, job, faults>>

(* resume_phase32_contract_repair, by the request that began the repair or *)
(* by one sent again, at the revision the repair was begun at.             *)
Resumes(candidate) ==
  /\ job = NoJob
  /\ candidate \in repairs.begun \ repairs.succeeded
  /\ candidate.unit = Unit(record.state)

RepairIsPending(candidate) ==
  /\ Resumes(candidate)
  /\ record.state.status = "awaiting_decision" /\ record.pending = candidate
  /\ repairs' = [repairs EXCEPT !.succeeded = @ \cup {candidate}]
  /\ UNCHANGED <<record, checkpoint, receipts, operations, job, faults>>

(* The regeneration that failed is replayed from its receipt.              *)
ReplayRegeneration(candidate) ==
  /\ Resumes(candidate) /\ BrokeContract
  /\ record.state.action = "regenerate"
  /\ \E command \in receipts.succeeded :
       /\ command.action = "regenerate" /\ command.draft = record.state.candidate
       /\ job' = [NoJob EXCEPT !.phase = "bind", !.command = command, !.repair = candidate]
  /\ UNCHANGED <<record, checkpoint, receipts, operations, repairs, faults>>

(* Mutant: every repair starts its stage again, as a recovery does.        *)
RetryAsRecover(candidate) ==
  /\ Resumes(candidate) /\ BrokeContract
  /\ record' = [state   |-> [record.state EXCEPT !.status = "running",
                                                 !.candidate = NoDraft,
                                                 !.redrafts = 0,
                                                 !.action = "none"],
                pending |-> NoDraft,
                used    |-> 0,
                failure |-> "none"]
  /\ job' = [NoJob EXCEPT !.phase = "input", !.repair = candidate]
  /\ UNCHANGED <<checkpoint, receipts, operations, repairs, faults>>

(* _project_local_retry: the stage is generated again.                     *)
RetryLocally(candidate) ==
  /\ Resumes(candidate) /\ BrokeContract
  /\ record.state.action \in {"none", "accept"}
  /\ record' = [state   |-> [record.state EXCEPT !.status = "running",
                                                 !.candidate = NoDraft,
                                                 !.action = "none"],
                pending |-> NoDraft,
                used    |-> 0,
                failure |-> "none"]
  /\ job' = [NoJob EXCEPT !.phase = "input", !.repair = candidate]
  /\ UNCHANGED <<checkpoint, receipts, operations, repairs, faults>>

-----------------------------------------------------------------------------
(* Entering the graph.                                                     *)

(* Mutant: a restart begins with the Run's initial state, not its record's. *)
EnterAnew ==
  /\ job.phase = "input"
  /\ checkpoint' = [node |-> "started", state |-> InitialState, asked |-> FALSE, listed |-> FALSE]
  /\ job' = [job EXCEPT !.phase = "graph"]
  /\ UNCHANGED <<record, receipts, operations, repairs, faults>>

(* ainvoke with a state: unfinished tasks are dropped and the graph starts *)
(* again at the stage the record is at.                                    *)
EnterFresh ==
  /\ job.phase = "input"
  /\ checkpoint' = [node |-> "started", state |-> record.state, asked |-> FALSE, listed |-> FALSE]
  /\ job' = [job EXCEPT !.phase = "graph"]
  /\ UNCHANGED <<record, receipts, operations, repairs, faults>>

(* _resume_by_interrupt_id: the command is bound to the interrupt the      *)
(* checkpoint lists.  That is the active one, or one that its node has     *)
(* already passed and nothing will consume.  Without any, the command      *)
(* becomes a plain resume value and the next interrupt takes it.           *)
EnterWithCommand ==
  /\ job.phase = "bind"
  /\ job' = [job EXCEPT !.phase = "graph",
                        !.value = IF checkpoint.asked THEN "this"
                                  ELSE IF checkpoint.listed THEN "none"
                                  ELSE "next"]
  /\ UNCHANGED <<record, checkpoint, receipts, operations, repairs, faults>>

-----------------------------------------------------------------------------
(* The nodes of a stage.                                                   *)

Running(node) == job.phase = "graph" /\ checkpoint.node = node

Move(node, state) ==
  checkpoint' = [checkpoint EXCEPT !.node = node, !.state = state, !.asked = FALSE]

Fail(failure) == job' = [job EXCEPT !.phase = "failing", !.failure = failure]

StageStarted ==
  /\ Running("started")
  /\ Move("generate", [checkpoint.state EXCEPT !.status = "running"])
  /\ UNCHANGED <<record, receipts, operations, repairs, job, faults>>

(* The decision node interrupts only for a mandatory stage, and has an     *)
(* answer when the step brought a value for it.                            *)
Deciding == Running("decision") /\ Stage(checkpoint.state) \in Mandatory
HasAnswer == job.value # "none"

(* Mutant: the value's decision id is not checked.                         *)
AnswersAny ==
  job.command.action = "regenerate" =>
    checkpoint.state.redrafts < RedraftLimit[Stage(checkpoint.state)]

(* The checks on the value: the decision's id (and with it its revision),  *)
(* then the redraft limit.                                                 *)
Answers ==
  /\ job.command.draft = checkpoint.state.candidate
  /\ job.command.action = "regenerate" =>
       checkpoint.state.redrafts < RedraftLimit[Stage(checkpoint.state)]

Answered(action) == Deciding /\ HasAnswer /\ Answers /\ job.command.action = action

(* The direction of the generate_stage call a running node makes: the      *)
(* generate node's, or the one the decision node calls to regenerate.      *)
Calls(direction) ==
  \/ Running("generate") /\ direction = checkpoint.state.direction
  \/ Answered("regenerate") /\ direction = job.command.direction

(* The driver of a repair makes no Provider operation.                     *)
Wants(direction) == Calls(direction) /\ job.repair = NoDraft

(* Mutant: the return of a rejected receipt is replayed as a candidate.    *)
ReturnsAny(draft, direction) ==
  /\ Calls(direction)
  /\ IF job.repair = NoDraft
       THEN draft = Key(checkpoint.state, direction) /\ draft \in drafted \cup rejected
       ELSE draft = job.repair /\ ~job.spent

(* The driver of a repair returns its candidate, once.                     *)
Returns(draft, direction) ==
  /\ Calls(direction)
  /\ IF job.repair = NoDraft
       THEN draft = Key(checkpoint.state, direction) /\ draft \in drafted
       ELSE draft = job.repair /\ ~job.spent

Spend == [job EXCEPT !.spent = job.repair # NoDraft]

(* generate_stage gets a verdict, once per key: it is durable before the   *)
(* node completes.                                                         *)
Draft(direction) ==
  LET key == Key(checkpoint.state, direction)
  IN  /\ Wants(direction)
      /\ latest' = key
      /\ key \notin drafted \cup rejected
      /\ \/ drafted' = drafted \cup {key} /\ UNCHANGED rejected
         \/ rejected' = rejected \cup {key} /\ UNCHANGED drafted
      /\ UNCHANGED <<record, checkpoint, receipts, repairs, job, faults>>

(* The operation's return broke the contract, or the driver of a repair is *)
(* called a second time; what it raises then names the contract, too.      *)
DraftRejected(direction) ==
  /\ Calls(direction)
  /\ IF job.repair = NoDraft THEN Key(checkpoint.state, direction) \in rejected ELSE job.spent
  /\ Fail("contract")
  /\ UNCHANGED <<record, checkpoint, receipts, operations, repairs, faults>>

(* generate_candidate and validate_candidate.                              *)
Generated(draft) ==
  /\ Running("generate")
  /\ Returns(draft, checkpoint.state.direction)
  /\ Move("decision", [checkpoint.state EXCEPT !.candidate = draft])
  /\ job' = Spend
  /\ UNCHANGED <<record, receipts, operations, repairs, faults>>

AutoContinue ==
  /\ Running("decision")
  /\ ~Deciding
  /\ Move("commit", [checkpoint.state EXCEPT !.action = "accept", !.redrafts = 0])
  /\ UNCHANGED <<record, receipts, operations, repairs, job, faults>>

Ask ==
  /\ Deciding
  /\ ~HasAnswer
  /\ checkpoint' = [checkpoint EXCEPT !.asked = TRUE, !.listed = TRUE]
  /\ job' = [job EXCEPT !.phase = "project"]
  /\ UNCHANGED <<record, receipts, operations, repairs, faults>>

Mismatch ==
  /\ Deciding
  /\ HasAnswer
  /\ ~Answers
  /\ Fail("mismatch")
  /\ UNCHANGED <<record, checkpoint, receipts, operations, repairs, faults>>

Accepted ==
  /\ Answered("accept")
  /\ Move("commit", [checkpoint.state EXCEPT !.candidate = Accepts(job.command),
                                             !.action = "accept",
                                             !.redrafts = 0])
  /\ job' = [job EXCEPT !.value = "none"]
  /\ UNCHANGED <<record, receipts, operations, repairs, faults>>

Regenerated(draft) ==
  /\ Answered("regenerate")
  /\ Returns(draft, job.command.direction)
  /\ Move("decision", [checkpoint.state EXCEPT !.candidate = draft,
                                               !.action = "regenerate",
                                               !.redrafts = @ + 1])
  /\ job' = [Spend EXCEPT !.value = "none"]
  /\ UNCHANGED <<record, receipts, operations, repairs, faults>>

Cancelled ==
  /\ Answered("cancel")
  /\ Move("done", [checkpoint.state EXCEPT !.status = "cancelled",
                                           !.action = "cancel",
                                           !.redrafts = 0])
  /\ job' = [job EXCEPT !.value = "none"]
  /\ UNCHANGED <<record, receipts, operations, repairs, faults>>

(* commit_candidate: a sequential stage goes on with its next unit.        *)
Commit ==
  LET state == checkpoint.state
      unit  == Unit(state)
      more  == unit < Len(Route) /\ Route[unit + 1] = Route[unit]
  IN  /\ Running("commit")
      /\ Move(IF more THEN "generate" ELSE "finished",
              [state EXCEPT !.artifacts = Append(@, state.candidate),
                            !.candidate = NoDraft,
                            !.direction = NoDirection,
                            !.action    = "none",
                            !.redrafts  = 0])
      /\ UNCHANGED <<record, receipts, operations, repairs, job, faults>>

(* stage_finished and the edge to the next stage.  The next stage is a new *)
(* task of the graph: the interrupt of this one is no longer listed, and a *)
(* plain resume value may or may not outlive the step between the two.     *)
StageFinished ==
  LET last == Len(checkpoint.state.artifacts) = Len(Route)
  IN  /\ Running("finished")
      /\ checkpoint' = [checkpoint EXCEPT !.node = IF last THEN "done" ELSE "started",
                                          !.state.status = IF last THEN "completed" ELSE "running",
                                          !.listed = FALSE]
      /\ \/ job' = job
         \/ job.value = "next" /\ job' = [job EXCEPT !.value = "none"]
      /\ UNCHANGED <<record, receipts, operations, repairs, faults>>

(* The graph has run to its end.                                           *)
GraphEnds ==
  /\ Running("done")
  /\ job' = [job EXCEPT !.phase = "project"]
  /\ UNCHANGED <<record, checkpoint, receipts, operations, repairs, faults>>

(* A node raises: a transport, timeout or disk error that may be retried,  *)
(* or, in the commit (no cover selected, a delivery that cannot be built), *)
(* an error that ends the Run.                                             *)
NodeFails(failure) ==
  /\ \/ failure = "transport" /\ \E node \in {"generate", "decision", "commit"} : Running(node)
     \/ failure = "other" /\ Running("commit")
  /\ faults < MaxFaults
  /\ faults' = faults + 1
  /\ Fail(failure)
  /\ UNCHANGED <<record, checkpoint, receipts, operations, repairs>>

-----------------------------------------------------------------------------
(* Leaving the graph.                                                      *)

(* project_phase32_read_model and commit_projection.                       *)
Project ==
  LET asked == checkpoint.asked
      state == checkpoint.state
  IN  /\ job.phase = "project"
      /\ record' = [state   |-> IF asked THEN [state EXCEPT !.status = "awaiting_decision"] ELSE state,
                    pending |-> IF asked THEN state.candidate ELSE NoDraft,
                    used    |-> IF asked THEN state.redrafts ELSE 0,
                    failure |-> "none"]
      /\ job' = [job EXCEPT !.phase = "settle"]
      /\ UNCHANGED <<checkpoint, receipts, operations, repairs, faults>>

Succeeded(command) ==
  IF command = NoCommand THEN receipts
                         ELSE [receipts EXCEPT !.succeeded = @ \cup {command}]

(* The decision's receipt succeeds, or the repair's: _complete wants a     *)
(* decision to have come of it.                                            *)
Settle ==
  /\ job.phase = "settle"
  /\ receipts' = Succeeded(job.command)
  /\ repairs' = IF job.repair # NoDraft /\ record.pending # NoDraft
                  THEN [repairs EXCEPT !.succeeded = @ \cup {job.repair}]
                  ELSE repairs
  /\ job' = NoJob
  /\ UNCHANGED <<record, checkpoint, operations, faults>>

(* Mutant: every retryable failure keeps the pending decision.             *)
ProjectFailureKeeping ==
  LET state == checkpoint.state
      retry == job.failure = "transport"
  IN  /\ job.phase = "failing"
      /\ record' = [state   |-> IF retry THEN state ELSE [state EXCEPT !.status = "failed"],
                    pending |-> IF retry THEN record.pending ELSE NoDraft,
                    used    |-> IF retry THEN record.used ELSE 0,
                    failure |-> job.failure]
      /\ job' = [job EXCEPT !.phase = "reconcile"]
      /\ UNCHANGED <<checkpoint, receipts, operations, repairs, faults>>

(* project_phase32_execution_failure: the record moves to where the        *)
(* checkpoint stopped.  A retryable failure keeps the pending decision     *)
(* while the revision is the same; any other fails the Run, and counts a   *)
(* regeneration that failed as a redraft.                                  *)
ProjectFailure ==
  LET state    == checkpoint.state
      retry    == job.failure = "transport"
      kept     == retry /\ Len(state.artifacts) = Len(record.state.artifacts)
      redraft  == /\ job.command.action = "regenerate"
                  /\ record.pending = job.command.draft
                  /\ Stage(state) = Stage(record.state)
      redrafts == IF redraft THEN Larger(state.redrafts, record.used + 1) ELSE state.redrafts
  IN  /\ job.phase = "failing"
      /\ record' = [state   |-> IF retry THEN state
                                ELSE [state EXCEPT
                                        !.status = "failed",
                                        !.action = IF redraft THEN "regenerate" ELSE @,
                                        !.redrafts = redrafts],
                    pending |-> IF kept THEN record.pending ELSE NoDraft,
                    used    |-> IF kept THEN record.used ELSE 0,
                    failure |-> job.failure]
      /\ job' = [job EXCEPT !.phase = "reconcile"]
      /\ UNCHANGED <<checkpoint, receipts, operations, repairs, faults>>

(* _reconcile_consumed_decision: the failed step's command is complete     *)
(* when its decision has gone and the revision moved on, or a regeneration *)
(* failed for good.                                                        *)
ReconcileConsumed ==
  LET command == job.command
      gone    == record.pending # command.draft
      moved   == Len(record.state.artifacts) >= command.draft.unit
      lost    == command.action = "regenerate" /\ record.state.status = "failed"
  IN  /\ job.phase = "reconcile"
      /\ receipts' = IF command # NoCommand /\ gone /\ (moved \/ lost)
                       THEN Succeeded(command)
                       ELSE receipts
      /\ job' = NoJob
      /\ UNCHANGED <<record, checkpoint, operations, repairs, faults>>

(* The process dies or the request is cancelled (CancelledError is no      *)
(* Exception): the rest of the step does not happen.                       *)
Crash ==
  /\ job # NoJob
  /\ faults < MaxFaults
  /\ faults' = faults + 1
  /\ job' = NoJob
  /\ UNCHANGED <<record, checkpoint, receipts, operations, repairs>>

-----------------------------------------------------------------------------
(* The commands a client may submit.                                       *)
Submittable ==
  [draft     : {record.pending} \ {NoDraft},
   action    : {"accept", "regenerate", "cancel"},
   direction : Directions \cup {NoDirection},
   edit      : Edits \cup {NoEdit}]

Command ==
  \/ Start
  \/ \E c \in Submittable : Submit(c)
  \/ \E c \in receipts.begun : SubmitAgain(c)
  \/ \E d \in Directions : Recover(d)
  \/ \E id \in RepairIds : BeginRepair(id)
  \/ \E c \in repairs.begun : RepairIsPending(c) \/ ReplayRegeneration(c) \/ RetryLocally(c)

GraphStep ==
  \/ StageStarted
  \/ \E d \in Directions \cup {NoDirection} : Draft(d) \/ DraftRejected(d)
  \/ \E draft \in drafted \cup rejected \cup repairs.begun : Generated(draft) \/ Regenerated(draft)
  \/ AutoContinue
  \/ Ask
  \/ Mismatch
  \/ Accepted
  \/ Cancelled
  \/ Commit
  \/ StageFinished
  \/ GraphEnds

Step ==
  \/ EnterFresh
  \/ EnterWithCommand
  \/ GraphStep
  \/ Project
  \/ Settle
  \/ ProjectFailure
  \/ ReconcileConsumed

Fault ==
  \/ \E failure \in {"transport", "other"} : NodeFails(failure)
  \/ Crash

Next == Command \/ Step \/ Fault

Spec == Init /\ [][Next]_vars

-----------------------------------------------------------------------------
(* Properties.                                                             *)

Granted == {Accepts(c) : c \in {d \in receipts.begun : d.action = "accept"}}

(* review_decision: whatever is lost, repeated or bound to the wrong       *)
(* interrupt, a unit of a mandatory stage is committed only if the author  *)
(* accepted that very candidate, or put that very edit in its place, and a *)
(* Run is cancelled only if the author cancelled one of its decisions.     *)
OnlyTheAuthorDecides ==
  LET state == checkpoint.state
  IN  /\ \A u \in DOMAIN state.artifacts :
           Route[u] \in Mandatory => state.artifacts[u] \in Granted /\ state.artifacts[u].unit = u
      /\ state.status = "cancelled" => \E c \in receipts.begun : c.action = "cancel"

(* commit_projection, project_phase32_execution_failure and the restart    *)
(* from the record: the record never holds a unit the checkpoint does not, *)
(* so a restart repeats work but never skips any.                          *)
CheckpointLeads ==
  LET told == record.state.artifacts
      held == checkpoint.state.artifacts
  IN  /\ Len(told) <= Len(held)
      /\ SubSeq(held, 1, Len(told)) = told

(* _retain_pending_decision: a decision kept over a retryable failure is   *)
(* still one on the unit the Run is at.                                    *)
PendingIsCurrent ==
  record.pending # NoDraft => record.pending.unit = Unit(record.state)

(* _operation_key, recover and the redraft limit: however redrafts,        *)
(* recoveries and restarts follow each other, a unit costs a bounded       *)
(* number of Provider operations.  Each of the n values of its attempts    *)
(* may see a draft for each of the n values of the redrafts, and a redraft *)
(* of a redraft and so on of each of them, and of each repaired candidate. *)
DraftsAreBounded ==
  \A u \in Units :
    LET n == RedraftLimit[Route[u]] + 1
        repaired == {candidate \in repairs.begun : candidate.unit = u}
    IN  Cardinality({key \in drafted \cup rejected : key.unit = u})
          <= n * n + (Cardinality(repaired) + 1) * ((n * n * (n - 1)) \div 2)

(* generate_stage and the repair driver: a return that broke the contract  *)
(* is never committed; in its place there is a text of the author's, under *)
(* a repair that was recorded for that very return.                        *)
CommittedHasOrigin ==
  \A u \in DOMAIN checkpoint.state.artifacts :
    LET draft == checkpoint.state.artifacts[u]
        source == [draft EXCEPT !.texts = <<>>]
    IN  source \in drafted \/ \E id \in RepairIds :
          /\ draft.texts # <<>> /\ draft.texts[1] = id
          /\ source \in rejected /\ RepairOf(source, id) \in repairs.begun

(* _project_local_retry and the replay of a failed regeneration: neither   *)
(* the resumption of a repair nor the decision on its candidate gives back *)
(* a redraft that was spent.                                               *)
RepairKeepsRedrafts ==
  [][ /\ job.repair = NoDraft /\ job'.repair # NoDraft
          => record'.state.redrafts >= record.state.redrafts
      /\ job.repair # NoDraft /\ record'.pending = job.repair
          => record'.used >= record.state.redrafts ]_vars

(* The Run, as its record and receipts show it, is the route its author    *)
(* was promised.                                                           *)
Promise == INSTANCE CreationRoute WITH
  status    <- IF record.state.status \in {"completed", "cancelled"}
                 THEN record.state.status ELSE "open",
  artifacts <- record.state.artifacts,
  granted   <- Granted,
  withdrawn <- \E c \in receipts.begun : c.action = "cancel"

ImplementsRoute == Promise!Spec

(* What the documents say, and the code does not keep.                     *)


(* A command is consumed by the decision it was given for and by no other, *)
(* whenever the process died after the graph had taken it.                 *)
CommandMeetsItsDecision == record.failure # "mismatch"

(* The decision a Run waits for is one the author can still answer: its    *)
(* receipt does not already hold another decision's outcome.               *)
PendingIsAnswerable ==
  \A c \in receipts.succeeded :
    record.state.status = "awaiting_decision" => c.draft # record.pending
=============================================================================
