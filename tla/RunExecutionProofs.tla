-------------------------- MODULE RunExecutionProofs --------------------------
(***************************************************************************)
(* Machine-checked proofs about RunExecution, for every route, every       *)
(* author and every number of faults.                                      *)
(***************************************************************************)
EXTENDS RunExecution, FiniteSetTheorems, TLAPS

Drafting == {"generate", "decision"}
Working == {"generate", "decision", "commit"}
Entering == {"bind", "graph", "project", "failing"}
Closed == {"completed", "cancelled"}

CancelGiven == \E c \in receipts.begun : c.action = "cancel"

(* Where a candidate comes from: an operation's output, or the author's    *)
(* repair of a rejected one.                                               *)
Source(draft) == [draft EXCEPT !.texts = <<>>]
HasOrigin(draft) ==
  \/ Source(draft) \in drafted
  \/ \E id \in RepairIds :
       /\ draft.texts # <<>> /\ draft.texts[1] = id
       /\ Source(draft) \in rejected /\ RepairOf(Source(draft), id) \in repairs.begun

(* Operations are keyed without texts; a repair names a rejected one, on a *)
(* stage the author decides.                                               *)
OriginInv ==
  /\ \A key \in drafted \cup rejected : key.texts = <<>>
  /\ \A c \in repairs.begun :
       /\ Route[c.unit] \in Mandatory
       /\ \E key \in rejected, id \in RepairIds : c = RepairOf(key, id)

(* Each node of the graph is only reached with the state it expects.       *)
NodeInv ==
  LET node == checkpoint.node
      state == checkpoint.state
  IN  /\ Len(state.artifacts) <= Len(Route)
      /\ node \in Working \cup {"started"} => Len(state.artifacts) < Len(Route)
      /\ node = "started" => state.status \in {"created", "running"}
      /\ node \in Working \cup {"finished"} => state.status = "running"
      /\ node = "done" => state.status \in Closed
      /\ node = "done" /\ state.status = "completed" => Len(state.artifacts) = Len(Route)
      /\ state.status = "cancelled" => CancelGiven
      /\ checkpoint.asked => node = "decision"

(* The candidate of a decision or a commit is one for the unit it is on,   *)
(* and at the commit of a decided stage the author granted it.             *)
CandidateInv ==
  LET state == checkpoint.state
  IN  /\ checkpoint.node \in {"decision", "commit"} =>
           /\ state.candidate \in Drafts
           /\ state.candidate.unit = Unit(state)
           /\ HasOrigin(state.candidate)
      /\ checkpoint.node = "commit" /\ Stage(state) \in Mandatory => state.candidate \in Granted

CommittedInv ==
  \A u \in DOMAIN checkpoint.state.artifacts :
    LET draft == checkpoint.state.artifacts[u]
    IN  /\ draft.unit = u
        /\ Route[u] \in Mandatory => draft \in Granted
        /\ HasOrigin(draft)

(* The record is behind the checkpoint, in the same unit as long as a Run  *)
(* that broke its contract has not been set running again.                 *)
RecordInv ==
  /\ Len(record.state.artifacts) <= Len(checkpoint.state.artifacts)
  /\ \A u \in DOMAIN record.state.artifacts :
       record.state.artifacts[u] = checkpoint.state.artifacts[u]
  /\ record.state.status \notin Closed => Len(record.state.artifacts) < Len(Route)
  /\ record.pending # NoDraft =>
       record.pending.unit = Unit(record.state) /\ record.state.status \notin Closed
  /\ BrokeContract =>
       /\ record.pending = NoDraft
       /\ Len(record.state.artifacts) = Len(checkpoint.state.artifacts)
       /\ checkpoint.node \in Drafting

(* A step runs on an open Run; one that finds the contract broken replays  *)
(* a regeneration, with a repair for the unit the Run is at.               *)
JobInv ==
  /\ job.command # NoCommand => job.command \in receipts.begun
  /\ job.phase = "input" => record.state.status \in {"created", "running"}
  /\ job.phase \in Entering => record.state.status \notin Closed
  /\ job.phase = "project" => checkpoint.asked \/ checkpoint.node = "done"
  /\ job.phase = "failing" =>
       /\ checkpoint.node \in Working
       /\ job.failure = "contract" => checkpoint.node \in Drafting

RepairInv ==
  /\ job.phase \in Entering /\ BrokeContract =>
       /\ job.repair # NoDraft /\ job.command.action = "regenerate"
       /\ job.repair.unit = Unit(checkpoint.state)
  /\ job.repair # NoDraft /\ job.phase = "input" => job.repair.unit = Unit(record.state)
  /\ job.repair # NoDraft /\ job.phase = "bind" => BrokeContract
  /\ job.repair # NoDraft /\ ~job.spent /\ job.phase = "graph" =>
       /\ job.repair.unit = Unit(checkpoint.state)
       /\ \/ checkpoint.node \in {"started", "generate"}
          \/ checkpoint.node = "decision" /\ job.command.action = "regenerate"

IInv ==
  /\ TypeOK /\ OriginInv /\ NodeInv /\ CandidateInv /\ CommittedInv /\ RecordInv
  /\ JobInv /\ RepairInv

-----------------------------------------------------------------------------
(* The types, variable by variable.                                        *)
RecordType ==
  [state : RunStates, pending : Drafts \cup {NoDraft}, used : Nat, failure : Failures]
CheckpointType == [node : Nodes, state : RunStates, asked : BOOLEAN, listed : BOOLEAN]
JobType ==
  [phase : Phases \cup {"none"}, command : Commands \cup {NoCommand}, repair : Drafts \cup {NoDraft},
   spent : BOOLEAN, value : {"none", "this", "next"}, failure : Failures]

ReceiptsType ==
  /\ receipts \in [begun : SUBSET Commands, succeeded : SUBSET Commands]
  /\ receipts.succeeded \subseteq receipts.begun
  /\ \A c, d \in receipts.begun : c.draft = d.draft => c = d
OperationsType ==
  /\ drafted \subseteq Drafts /\ rejected \subseteq Drafts
  /\ drafted \cap rejected = {} /\ latest \in drafted \cup rejected \cup {NoDraft}
RepairsType ==
  /\ repairs \in [begun : SUBSET Drafts, succeeded : SUBSET Drafts]
  /\ repairs.succeeded \subseteq repairs.begun

LEMMA TypeParts ==
  TypeOK <=> /\ record \in RecordType /\ checkpoint \in CheckpointType
             /\ ReceiptsType /\ OperationsType /\ RepairsType
             /\ job \in JobType /\ job.repair \in repairs.begun \cup {NoDraft}
             /\ faults \in 0 .. MaxFaults
<1> USE DEF TypeOK, RecordType, CheckpointType, JobType, ReceiptsType, OperationsType, RepairsType
<1>1. ASSUME TypeOK PROVE job \in JobType /\ job.repair \in repairs.begun \cup {NoDraft}
  BY <1>1
<1>2. ASSUME job \in JobType, job.repair \in repairs.begun \cup {NoDraft}
      PROVE  job \in [phase   : Phases \cup {"none"},
                      command : Commands \cup {NoCommand},
                      repair  : repairs.begun \cup {NoDraft},
                      spent   : BOOLEAN,
                      value   : {"none", "this", "next"},
                      failure : Failures]
  BY <1>2
<1> QED
  BY <1>1, <1>2

LEMMA TypeOfNext ==
  ASSUME record' \in RecordType, checkpoint' \in CheckpointType,
         ReceiptsType', OperationsType', RepairsType',
         job' \in JobType, job'.repair \in repairs'.begun \cup {NoDraft},
         faults' \in 0 .. MaxFaults
  PROVE  TypeOK'
<1> USE DEF TypeOK, RecordType, CheckpointType, JobType, ReceiptsType, OperationsType, RepairsType
<1>1. job' \in [phase   : Phases \cup {"none"},
               command : Commands \cup {NoCommand},
               repair  : repairs'.begun \cup {NoDraft},
               spent   : BOOLEAN,
               value   : {"none", "this", "next"},
               failure : Failures]
  OBVIOUS
<1> QED
  BY <1>1

LEMMA NoJobType == NoJob \in JobType /\ NoJob.repair = NoDraft /\ NoJob.phase = "none"
                     /\ NoJob.command = NoCommand
  BY DEF NoJob, JobType, Phases, Failures

(* What a state's fields may become.                                       *)
LEMMA StateFields ==
  ASSUME NEW s \in RunStates
  PROVE  /\ s.artifacts \in Seq(Drafts) /\ Len(s.artifacts) \in Nat
         /\ DOMAIN s.artifacts = 1 .. Len(s.artifacts)
         /\ s.attempts \in [Stages -> Nat] /\ s.redrafts \in Nat
         /\ s.candidate \in Drafts \cup {NoDraft} /\ s.direction \in Directions \cup {NoDirection}
         /\ Unit(s) = Len(s.artifacts) + 1
  BY DEF RunStates, Unit

LEMMA RouteFacts == Len(Route) \in Nat /\ Units = 1 .. Len(Route) /\ \A u \in Units : Route[u] \in Stages
  BY RouteAssumption DEF Units, Stages

LEMMA StageInRoute ==
  ASSUME NEW s \in RunStates, Len(s.artifacts) < Len(Route)
  PROVE  Unit(s) \in Units /\ Stage(s) \in Stages
  BY RouteFacts, StateFields DEF Stage

LEMMA LargerIsNat ==
  ASSUME NEW m \in Nat, NEW n \in Nat
  PROVE  Larger(m, n) \in Nat /\ Larger(m, n) >= m /\ Larger(m, n) >= n
  BY DEF Larger

(* What only grows, and what rests on it.                                  *)
LEMMA GrantsGrow ==
  ASSUME receipts.begun \subseteq receipts'.begun
  PROVE  Granted \subseteq Granted' /\ (CancelGiven => CancelGiven')
  BY DEF Granted, CancelGiven

LEMMA OriginsGrow ==
  ASSUME drafted \subseteq drafted', rejected \subseteq rejected', repairs.begun \subseteq repairs'.begun
  PROVE  \A draft : HasOrigin(draft) => HasOrigin(draft)'
  BY DEF HasOrigin

Grows ==
  /\ receipts.begun \subseteq receipts'.begun
  /\ drafted \subseteq drafted' /\ rejected \subseteq rejected'
  /\ repairs.begun \subseteq repairs'.begun

LEMMA CheckpointKeeps ==
  ASSUME IInv, Grows, UNCHANGED checkpoint
  PROVE  NodeInv' /\ CandidateInv' /\ CommittedInv'
<1>1. Granted \subseteq Granted' /\ (CancelGiven => CancelGiven')
  BY GrantsGrow DEF Grows
<1>2. \A draft : HasOrigin(draft) => HasOrigin(draft)'
  BY OriginsGrow DEF Grows
<1>3. NodeInv'
  BY <1>1 DEF IInv, NodeInv
<1>4. CandidateInv'
  BY <1>1, <1>2 DEF IInv, CandidateInv
<1>5. CommittedInv'
  BY <1>1, <1>2 DEF IInv, CommittedInv
<1> QED
  BY <1>3, <1>4, <1>5

LEMMA OriginKeeps ==
  ASSUME IInv, UNCHANGED <<operations, repairs>>
  PROVE  OriginInv'
  BY DEF IInv, OriginInv, operations

LEMMA RecordKeeps ==
  ASSUME IInv, UNCHANGED <<record, checkpoint>>
  PROVE  RecordInv'
  BY DEF IInv, RecordInv, BrokeContract

-----------------------------------------------------------------------------
(* Init.                                                                   *)
LEMMA InitialStateType == InitialState \in RunStates /\ InitialState.artifacts = <<>>
                            /\ InitialState.status = "created"
  BY DEF InitialState, RunStates

LEMMA InitIInv == Init => IInv
<1> SUFFICES ASSUME Init PROVE IInv
  OBVIOUS
<1> USE DEF Init
<1>1. 0 < Len(Route) /\ Len(Route) \in Nat
  BY RouteAssumption, RouteFacts
<1>2. /\ record.state = InitialState /\ record.pending = NoDraft /\ record.failure = "none"
      /\ checkpoint.node = "started" /\ checkpoint.state = InitialState /\ checkpoint.asked = FALSE
  OBVIOUS
<1>3. TypeOK
  <2>1. record \in RecordType /\ checkpoint \in CheckpointType
    BY InitialStateType DEF RecordType, CheckpointType, Nodes, Failures
  <2>2. ReceiptsType /\ OperationsType /\ RepairsType
    BY DEF ReceiptsType, OperationsType, RepairsType, NoReceipts
  <2>3. faults \in 0 .. MaxFaults
    BY RouteAssumption
  <2> QED
    BY <2>1, <2>2, <2>3, NoJobType, TypeParts
<1>4. OriginInv
  BY DEF OriginInv, NoReceipts
<1>5. NodeInv
  BY <1>1, <1>2, InitialStateType DEF NodeInv, Working, Closed
<1>6. CandidateInv
  BY <1>2 DEF CandidateInv
<1>7. CommittedInv
  BY <1>2, InitialStateType DEF CommittedInv
<1>8. RecordInv
  BY <1>1, <1>2, InitialStateType DEF RecordInv, BrokeContract, Closed
<1>9. JobInv /\ RepairInv
  BY NoJobType DEF JobInv, RepairInv, Entering
<1> QED
  BY <1>3, <1>4, <1>5, <1>6, <1>7, <1>8, <1>9 DEF IInv

-----------------------------------------------------------------------------
(* Commands.                                                               *)
LEMMA StartIInv == ASSUME IInv, Start PROVE IInv'
<1> USE DEF Start
<1>1. Grows
  BY DEF Grows, operations
<1>2. /\ job'.phase = "input" /\ job'.repair = NoDraft /\ job'.command = NoCommand
      /\ job' \in JobType
  BY NoJobType DEF JobType, Phases
<1>3. TypeOK'
  BY <1>2, TypeParts, TypeOfNext DEF IInv, ReceiptsType, OperationsType, RepairsType, operations
<1>4. OriginInv' /\ NodeInv' /\ CandidateInv' /\ CommittedInv' /\ RecordInv'
  BY <1>1, CheckpointKeeps, OriginKeeps, RecordKeeps
<1>5. JobInv' /\ RepairInv'
  BY <1>2 DEF JobInv, RepairInv, Entering
<1> QED
  BY <1>3, <1>4, <1>5 DEF IInv

LEMMA SubmitIInv == ASSUME IInv, NEW command \in Commands, Submit(command) PROVE IInv'
<1> USE DEF Submit
<1>1. receipts'.begun = receipts.begun \cup {command} /\ receipts'.succeeded = receipts.succeeded
  BY DEF IInv, TypeOK
<1>2. Grows
  BY <1>1 DEF Grows, operations
<1>3. /\ job'.phase = "bind" /\ job'.repair = NoDraft /\ job'.command = command
      /\ job' \in JobType
  BY NoJobType DEF JobType, Phases
<1>4. TypeOK'
  <2>1. ReceiptsType'
    BY <1>1, TypeParts DEF IInv, ReceiptsType
  <2> QED
    BY <1>3, <2>1, TypeParts, TypeOfNext DEF IInv, OperationsType, RepairsType, operations
<1>5. OriginInv' /\ NodeInv' /\ CandidateInv' /\ CommittedInv' /\ RecordInv'
  BY <1>2, CheckpointKeeps, OriginKeeps, RecordKeeps
<1>6. record.pending # NoDraft
  BY NoDraftAssumption DEF Commands
<1>7. JobInv'
  BY <1>1, <1>3, <1>6 DEF IInv, RecordInv, JobInv, Entering
<1>8. RepairInv'
  BY <1>3, <1>6 DEF IInv, RecordInv, RepairInv, BrokeContract
<1> QED
  BY <1>4, <1>5, <1>7, <1>8 DEF IInv

(* Steps that leave the job and the Run alone.                             *)
LEMMA JobKeeps ==
  ASSUME IInv, UNCHANGED <<record, checkpoint, job>>, receipts.begun \subseteq receipts'.begun
  PROVE  JobInv' /\ RepairInv'
<1>1. JobInv'
  BY DEF IInv, JobInv
<1>2. RepairInv'
  BY DEF IInv, RepairInv, BrokeContract
<1> QED
  BY <1>1, <1>2

LEMMA SubmitAgainIInv == ASSUME IInv, NEW command \in receipts.begun, SubmitAgain(command) PROVE IInv'
<1> USE DEF SubmitAgain
<1>1. receipts'.begun = receipts.begun /\ receipts'.succeeded = receipts.succeeded \cup {command}
  BY DEF IInv, TypeOK
<1>2. Grows
  BY <1>1 DEF Grows, operations
<1>3. TypeOK'
  <2>1. ReceiptsType'
    BY <1>1, TypeParts DEF IInv, ReceiptsType
  <2> QED
    BY <2>1, TypeParts, TypeOfNext DEF IInv, OperationsType, RepairsType, operations
<1>4. OriginInv' /\ NodeInv' /\ CandidateInv' /\ CommittedInv' /\ RecordInv' /\ JobInv' /\ RepairInv'
  BY <1>1, <1>2, CheckpointKeeps, OriginKeeps, RecordKeeps, JobKeeps
<1> QED
  BY <1>3, <1>4 DEF IInv

(* A stopped Run is set running again for the stage its record is at.      *)
LEMMA Rerun ==
  ASSUME IInv, BrokeContract, UNCHANGED <<checkpoint, receipts, operations, repairs>>,
         NEW state \in RunStates, state.artifacts = record.state.artifacts, state.status = "running",
         record' = [state |-> state, pending |-> NoDraft, used |-> 0, failure |-> "none"]
  PROVE  /\ record' \in RecordType
         /\ OriginInv' /\ NodeInv' /\ CandidateInv' /\ CommittedInv' /\ RecordInv'
<1>1. Grows
  BY DEF Grows, operations
<1>2. record' \in RecordType
  BY DEF RecordType, Failures
<1>3. OriginInv' /\ NodeInv' /\ CandidateInv' /\ CommittedInv'
  BY <1>1, CheckpointKeeps, OriginKeeps
<1>4. /\ record'.state = state /\ record'.pending = NoDraft /\ record'.failure = "none"
      /\ record.state.status = "failed"
  BY DEF BrokeContract
<1>5. RecordInv'
  BY <1>4 DEF IInv, RecordInv, BrokeContract, Closed
<1> QED
  BY <1>2, <1>3, <1>5

LEMMA RecoverIInv == ASSUME IInv, NEW direction \in Directions, Recover(direction) PROVE IInv'
<1> DEFINE s == record.state
           stage == Stage(s)
           used == Larger(s.attempts[stage], s.redrafts)
           s1 == [s EXCEPT !.status = "running", !.attempts[stage] = used + 1, !.redrafts = 0,
                           !.candidate = NoDraft, !.action = "none", !.direction = direction]
<1>1. BrokeContract
  BY DEF Recover, BrokeContract
<1>2. s \in RunStates
  BY DEF IInv, TypeOK
<1>3. stage \in Stages
  BY <1>1, <1>2, StageInRoute DEF IInv, RecordInv, Closed, BrokeContract
<1>4. used \in Nat
  BY <1>2, <1>3, StateFields, LargerIsNat
<1>5. s1 \in RunStates /\ s1.artifacts = s.artifacts /\ s1.status = "running"
  <2>1. [s.attempts EXCEPT ![stage] = used + 1] \in [Stages -> Nat]
    BY <1>2, <1>3, <1>4, StateFields
  <2> HIDE DEF used, stage
  <2> QED
    BY <1>2, <2>1 DEF RunStates
<1>6. record' = [state |-> s1, pending |-> NoDraft, used |-> 0, failure |-> "none"]
  BY DEF Recover
<1>7. job' = [NoJob EXCEPT !.phase = "input"] /\ UNCHANGED <<checkpoint, receipts, operations, repairs, faults>>
  BY DEF Recover
<1> HIDE DEF s1
<1>8. /\ record' \in RecordType
      /\ OriginInv' /\ NodeInv' /\ CandidateInv' /\ CommittedInv' /\ RecordInv'
  BY <1>1, <1>5, <1>6, <1>7, Rerun
<1>9. /\ job'.phase = "input" /\ job'.repair = NoDraft /\ job'.command = NoCommand
      /\ job' \in JobType
  BY <1>7, NoJobType DEF JobType, Phases
<1>10. TypeOK'
  BY <1>7, <1>8, <1>9, TypeParts, TypeOfNext DEF IInv, ReceiptsType, OperationsType, RepairsType, operations
<1>11. JobInv' /\ RepairInv'
  BY <1>5, <1>6, <1>9 DEF JobInv, RepairInv, Entering
<1> QED
  BY <1>8, <1>10, <1>11 DEF IInv

-----------------------------------------------------------------------------
(* Contract repairs.                                                       *)
LEMMA RepairFacts ==
  ASSUME NEW key \in Drafts, NEW id \in RepairIds
  PROVE  /\ RepairOf(key, id) \in Drafts
         /\ RepairOf(key, id).unit = key.unit
         /\ RepairOf(key, id).texts = <<id>>
         /\ key.texts = <<>> => Source(RepairOf(key, id)) = key
<1>1. key = [unit |-> key.unit, attempt |-> key.attempt, direction |-> key.direction, texts |-> key.texts]
  BY DEF Drafts
<1>2. <<id>> \in Seq(Edits \cup RepairIds)
  OBVIOUS
<1> QED
  BY <1>1, <1>2 DEF Drafts, RepairOf, Source

LEMMA BeginRepairIInv == ASSUME IInv, NEW id \in RepairIds, BeginRepair(id) PROVE IInv'
<1> USE DEF BeginRepair
<1>1. latest \in rejected /\ latest \in Drafts /\ Route[latest.unit] \in Mandatory
  BY DEF IInv, TypeOK
<1>2. /\ repairs'.begun = repairs.begun \cup {RepairOf(latest, id)}
      /\ repairs'.succeeded = repairs.succeeded
  BY DEF IInv, TypeOK
<1>3. Grows
  BY <1>2 DEF Grows, operations
<1>4. RepairOf(latest, id) \in Drafts /\ RepairOf(latest, id).unit = latest.unit
  BY <1>1, RepairFacts
<1>5. TypeOK'
  <2>1. RepairsType'
    BY <1>2, <1>4, TypeParts DEF IInv, RepairsType
  <2> QED
    BY <1>2, <2>1, TypeParts, TypeOfNext DEF IInv, OperationsType, ReceiptsType, operations
<1>6. OriginInv'
  BY <1>1, <1>2, <1>4 DEF IInv, OriginInv, operations
<1>7. NodeInv' /\ CandidateInv' /\ CommittedInv' /\ RecordInv' /\ JobInv' /\ RepairInv'
  BY <1>3, CheckpointKeeps, RecordKeeps, JobKeeps
<1> QED
  BY <1>5, <1>6, <1>7 DEF IInv

LEMMA RepairIsPendingIInv ==
  ASSUME IInv, NEW candidate \in repairs.begun, RepairIsPending(candidate) PROVE IInv'
<1> USE DEF RepairIsPending
<1>1. repairs'.begun = repairs.begun /\ repairs'.succeeded = repairs.succeeded \cup {candidate}
  BY DEF IInv, TypeOK
<1>2. Grows
  BY <1>1 DEF Grows, operations
<1>3. TypeOK'
  <2>1. RepairsType'
    BY <1>1, TypeParts DEF IInv, RepairsType
  <2> QED
    BY <1>1, <2>1, TypeParts, TypeOfNext DEF IInv, OperationsType, ReceiptsType, operations
<1>4. OriginInv'
  BY <1>1 DEF IInv, OriginInv, operations
<1>5. NodeInv' /\ CandidateInv' /\ CommittedInv' /\ RecordInv' /\ JobInv' /\ RepairInv'
  BY <1>2, CheckpointKeeps, RecordKeeps, JobKeeps
<1> QED
  BY <1>3, <1>4, <1>5 DEF IInv

LEMMA BegunRepair ==
  ASSUME IInv, NEW candidate \in repairs.begun
  PROVE  candidate \in Drafts /\ candidate # NoDraft /\ Route[candidate.unit] \in Mandatory
  BY NoDraftAssumption DEF IInv, TypeOK, OriginInv

LEMMA ReplayRegenerationIInv ==
  ASSUME IInv, NEW candidate \in repairs.begun, ReplayRegeneration(candidate) PROVE IInv'
<1> USE DEF ReplayRegeneration
<1>1. Grows
  BY DEF Grows, operations
<1>2. BrokeContract /\ candidate.unit = Unit(record.state)
  BY DEF Resumes
<1>3. PICK command \in receipts.succeeded :
        /\ command.action = "regenerate"
        /\ job' = [NoJob EXCEPT !.phase = "bind", !.command = command, !.repair = candidate]
  OBVIOUS
<1>4. command \in receipts.begun /\ command \in Commands
  BY DEF IInv, TypeOK
<1>5. /\ job'.phase = "bind" /\ job'.command = command /\ job'.repair = candidate
      /\ job' \in JobType
  BY <1>3, <1>4, NoJobType, BegunRepair DEF JobType, Phases
<1>6. TypeOK'
  BY <1>5, TypeParts, TypeOfNext DEF IInv, ReceiptsType, OperationsType, RepairsType, operations
<1>7. OriginInv' /\ NodeInv' /\ CandidateInv' /\ CommittedInv' /\ RecordInv'
  BY <1>1, CheckpointKeeps, OriginKeeps, RecordKeeps
<1>8. JobInv'
  BY <1>2, <1>4, <1>5 DEF JobInv, BrokeContract, Closed
<1>9. candidate.unit = Unit(checkpoint.state)
  BY <1>2 DEF IInv, RecordInv, Unit
<1>10. RepairInv'
  BY <1>2, <1>3, <1>5, <1>9, BegunRepair DEF RepairInv, BrokeContract, Entering
<1> QED
  BY <1>6, <1>7, <1>8, <1>10 DEF IInv

LEMMA RetryLocallyIInv ==
  ASSUME IInv, NEW candidate \in repairs.begun, RetryLocally(candidate) PROVE IInv'
<1> DEFINE s1 == [record.state EXCEPT !.status = "running", !.candidate = NoDraft, !.action = "none"]
<1>1. BrokeContract /\ candidate.unit = Unit(record.state)
  BY DEF RetryLocally, Resumes
<1>2. s1 \in RunStates /\ s1.artifacts = record.state.artifacts /\ s1.status = "running"
  <2>1. record.state \in RunStates
    BY DEF IInv, TypeOK
  <2> QED
    BY <2>1 DEF RunStates
<1>3. record' = [state |-> s1, pending |-> NoDraft, used |-> 0, failure |-> "none"]
  BY DEF RetryLocally
<1>4. /\ job' = [NoJob EXCEPT !.phase = "input", !.repair = candidate]
      /\ UNCHANGED <<checkpoint, receipts, operations, repairs, faults>>
  BY DEF RetryLocally
<1> HIDE DEF s1
<1>5. /\ record' \in RecordType
      /\ OriginInv' /\ NodeInv' /\ CandidateInv' /\ CommittedInv' /\ RecordInv'
  BY <1>1, <1>2, <1>3, <1>4, Rerun
<1>6. /\ job'.phase = "input" /\ job'.repair = candidate /\ job'.command = NoCommand
      /\ job' \in JobType
  BY <1>4, NoJobType, BegunRepair DEF JobType, Phases
<1>7. TypeOK'
  BY <1>4, <1>5, <1>6, TypeParts, TypeOfNext DEF IInv, ReceiptsType, OperationsType, RepairsType, operations
<1>8. JobInv'
  BY <1>2, <1>3, <1>6 DEF JobInv, Entering
<1>9. RepairInv'
  BY <1>1, <1>2, <1>3, <1>6 DEF RepairInv, Entering, Unit
<1> QED
  BY <1>5, <1>7, <1>8, <1>9 DEF IInv

-----------------------------------------------------------------------------
(* Entering the graph.                                                     *)
LEMMA EnterFreshIInv == ASSUME IInv, EnterFresh PROVE IInv'
<1> USE DEF EnterFresh
<1>1. Granted' = Granted /\ (CancelGiven => CancelGiven') /\ \A draft : HasOrigin(draft) => HasOrigin(draft)'
  BY GrantsGrow, OriginsGrow DEF operations, Granted
<1>2. /\ checkpoint'.node = "started" /\ checkpoint'.state = record.state /\ checkpoint'.asked = FALSE
      /\ record.state.status \in {"created", "running"} /\ record' = record
  BY DEF IInv, JobInv
<1>3. job' = [job EXCEPT !.phase = "graph"] /\ job \in JobType
  BY TypeParts DEF IInv
<1>4. /\ job'.phase = "graph" /\ job'.command = job.command /\ job'.repair = job.repair
      /\ job' \in JobType
  <2>1. job' \in JobType
    BY <1>3 DEF JobType, Phases
  <2> QED
    BY <1>3, <2>1 DEF JobType
<1>5. TypeOK'
  <2>1. checkpoint' \in CheckpointType
    BY DEF IInv, TypeOK, CheckpointType, Nodes
  <2> QED
    BY <1>4, <2>1, TypeParts, TypeOfNext DEF IInv, ReceiptsType, OperationsType, RepairsType, operations
<1>6. OriginInv'
  BY OriginKeeps
<1>7. Len(record.state.artifacts) < Len(Route) /\ ~BrokeContract
  BY <1>2 DEF IInv, RecordInv, Closed, BrokeContract
<1>8. /\ DOMAIN record.state.artifacts \subseteq DOMAIN checkpoint.state.artifacts
      /\ Len(record.state.artifacts) \in Nat
  <2>1. record.state \in RunStates /\ checkpoint.state \in RunStates
    BY DEF IInv, TypeOK
  <2>2. Len(record.state.artifacts) <= Len(checkpoint.state.artifacts)
    BY DEF IInv, RecordInv
  <2> QED
    BY <2>1, <2>2, StateFields
<1>9. NodeInv'
  BY <1>2, <1>7, <1>8, RouteFacts DEF NodeInv, Working
<1>10. CandidateInv'
  BY <1>2 DEF CandidateInv
<1>11. CommittedInv'
  BY <1>1, <1>2, <1>8 DEF IInv, CommittedInv, RecordInv
<1>12. RecordInv'
  BY <1>2, <1>7, <1>8 DEF IInv, RecordInv, BrokeContract
<1>13. JobInv'
  BY <1>2, <1>4 DEF IInv, JobInv, Closed
<1>14. RepairInv'
  BY <1>2, <1>4, <1>7 DEF IInv, RepairInv, BrokeContract
<1> QED
  BY <1>5, <1>6, <1>9, <1>10, <1>11, <1>12, <1>13, <1>14 DEF IInv

LEMMA EnterWithCommandIInv == ASSUME IInv, EnterWithCommand PROVE IInv'
<1> USE DEF EnterWithCommand
<1>1. Grows
  BY DEF Grows, operations
<1>2. /\ job'.phase = "graph" /\ job'.command = job.command /\ job'.repair = job.repair
      /\ job'.spent = job.spent /\ job' \in JobType /\ job.phase = "bind"
  <2>1. job \in JobType
    BY TypeParts DEF IInv
  <2>2. job' \in JobType
    BY <2>1 DEF JobType, Phases
  <2> QED
    BY <2>1, <2>2 DEF JobType
<1>3. TypeOK'
  BY <1>2, TypeParts, TypeOfNext DEF IInv, ReceiptsType, OperationsType, RepairsType, operations
<1>4. OriginInv' /\ NodeInv' /\ CandidateInv' /\ CommittedInv' /\ RecordInv'
  BY <1>1, CheckpointKeeps, OriginKeeps, RecordKeeps
<1>5. JobInv'
  BY <1>2 DEF IInv, JobInv, Entering
<1>6. RepairInv'
  BY <1>2 DEF IInv, RepairInv, RecordInv, BrokeContract, Entering, Drafting
<1> QED
  BY <1>3, <1>4, <1>5, <1>6 DEF IInv

-----------------------------------------------------------------------------
(* The nodes of a stage.                                                   *)
LEMMA MoveFacts ==
  ASSUME IInv, NEW node \in Nodes, NEW state \in RunStates, Move(node, state)
  PROVE  /\ checkpoint'.node = node /\ checkpoint'.state = state /\ checkpoint'.asked = FALSE
         /\ checkpoint' \in CheckpointType
  BY DEF IInv, TypeOK, Move, CheckpointType

(* A node that leaves the committed units alone.                           *)
LEMMA SameUnits ==
  ASSUME IInv, UNCHANGED <<record, receipts, operations, repairs>>,
         checkpoint'.state.artifacts = checkpoint.state.artifacts,
         BrokeContract => checkpoint'.node \in Drafting
  PROVE  /\ OriginInv' /\ CommittedInv' /\ RecordInv'
         /\ Unit(checkpoint'.state) = Unit(checkpoint.state)
         /\ Stage(checkpoint'.state) = Stage(checkpoint.state)
         /\ Granted' = Granted /\ (CancelGiven => CancelGiven')
         /\ \A draft : HasOrigin(draft) => HasOrigin(draft)'
<1>1. Granted' = Granted /\ (CancelGiven => CancelGiven') /\ \A draft : HasOrigin(draft) => HasOrigin(draft)'
  BY GrantsGrow, OriginsGrow DEF operations, Granted
<1>2. OriginInv'
  BY OriginKeeps
<1>3. CommittedInv'
  BY <1>1 DEF IInv, CommittedInv
<1>4. RecordInv'
  BY DEF IInv, RecordInv, BrokeContract
<1> QED
  BY <1>1, <1>2, <1>3, <1>4 DEF Unit, Stage

(* The job of a running step keeps its command and repair.                 *)
SameJob ==
  /\ job'.phase = job.phase /\ job'.command = job.command /\ job'.repair = job.repair
  /\ job' \in JobType

LEMMA StepTypes ==
  ASSUME IInv, UNCHANGED <<record, receipts, operations, repairs, faults>>,
         checkpoint' \in CheckpointType, SameJob
  PROVE  TypeOK'
  BY TypeParts, TypeOfNext DEF SameJob, IInv, ReceiptsType, OperationsType, RepairsType, operations

LEMMA StepJob ==
  ASSUME IInv, job.phase = "graph", UNCHANGED <<record, receipts>>, SameJob
  PROVE  JobInv'
  BY DEF SameJob, IInv, JobInv, Entering

LEMMA JobSteps ==
  ASSUME IInv
  PROVE  /\ [job EXCEPT !.value = "none"] \in JobType /\ Spend \in JobType
         /\ [Spend EXCEPT !.value = "none"] \in JobType
         /\ [job EXCEPT !.value = "none"].spent = job.spent
         /\ job.repair # NoDraft => Spend.spent = TRUE /\ [Spend EXCEPT !.value = "none"].spent = TRUE
         /\ \A j \in {[job EXCEPT !.value = "none"], Spend, [Spend EXCEPT !.value = "none"]} :
              j.phase = job.phase /\ j.command = job.command /\ j.repair = job.repair
<1>1. job \in JobType
  BY TypeParts DEF IInv
<1> QED
  BY <1>1 DEF JobType, Spend

LEMMA StageStartedIInv == ASSUME IInv, StageStarted PROVE IInv'
<1> USE DEF StageStarted, Running
<1> DEFINE s1 == [checkpoint.state EXCEPT !.status = "running"]
<1>1. s1 \in RunStates /\ s1.artifacts = checkpoint.state.artifacts /\ s1.status = "running"
  BY DEF IInv, TypeOK, RunStates
<1>2. /\ checkpoint'.node = "generate" /\ checkpoint'.state = s1 /\ checkpoint'.asked = FALSE
      /\ checkpoint' \in CheckpointType
  BY <1>1, MoveFacts DEF Nodes
<1> HIDE DEF s1
<1>3. ~BrokeContract
  BY DEF IInv, RecordInv, Drafting
<1>4. /\ OriginInv' /\ CommittedInv' /\ RecordInv'
      /\ Unit(checkpoint'.state) = Unit(checkpoint.state)
      /\ CancelGiven => CancelGiven'
  BY <1>1, <1>2, <1>3, SameUnits
<1>5. SameJob
  BY TypeParts DEF SameJob, IInv
<1>6. TypeOK' /\ JobInv'
  BY <1>2, <1>5, StepTypes, StepJob
<1>7. NodeInv'
  BY <1>1, <1>2, <1>4 DEF IInv, NodeInv, Working
<1>8. CandidateInv'
  BY <1>2 DEF CandidateInv
<1>9. RepairInv'
  BY <1>2, <1>3, <1>4 DEF IInv, RepairInv, BrokeContract
<1> QED
  BY <1>4, <1>6, <1>7, <1>8, <1>9 DEF IInv

(* A call of the driver is for the unit the graph is at, and a repair that *)
(* is still to be returned is for that unit too.                           *)
LEMMA CallFacts ==
  ASSUME IInv, NEW direction \in Directions \cup {NoDirection}, Calls(direction)
  PROVE  /\ job.phase = "graph" /\ checkpoint.node \in Drafting
         /\ Unit(checkpoint.state) \in Units /\ Stage(checkpoint.state) \in Stages
         /\ Key(checkpoint.state, direction) \in Drafts
         /\ Key(checkpoint.state, direction).unit = Unit(checkpoint.state)
         /\ Key(checkpoint.state, direction).texts = <<>>
<1>1. job.phase = "graph" /\ checkpoint.node \in Drafting
  BY DEF Calls, Running, Answered, Deciding, Drafting
<1>2. checkpoint.state \in RunStates
  BY DEF IInv, TypeOK
<1>3. Unit(checkpoint.state) \in Units /\ Stage(checkpoint.state) \in Stages
  BY <1>1, <1>2, StageInRoute DEF IInv, NodeInv, Working, Drafting
<1>4. checkpoint.state.attempts[Stage(checkpoint.state)] + checkpoint.state.redrafts + 1 \in Nat \ {0}
  BY <1>2, <1>3, StateFields
<1> QED
  BY <1>1, <1>3, <1>4 DEF Key, Drafts

LEMMA ReturnFacts ==
  ASSUME IInv, NEW draft, NEW direction \in Directions \cup {NoDirection}, Returns(draft, direction)
  PROVE  /\ draft \in Drafts /\ draft.unit = Unit(checkpoint.state) /\ HasOrigin(draft)
         /\ job.phase = "graph"
<1>1. job.phase = "graph" /\ Calls(direction)
  BY CallFacts DEF Returns
<1>2. CASE job.repair = NoDraft
  <2>1. draft = Key(checkpoint.state, direction) /\ draft \in drafted
    BY <1>2 DEF Returns
  <2>2. draft \in Drafts /\ draft.unit = Unit(checkpoint.state) /\ draft.texts = <<>>
    BY <1>1, <2>1, CallFacts
  <2>3. Source(draft) = draft
    BY <2>2 DEF Source, Drafts
  <2> QED
    BY <1>1, <2>1, <2>2, <2>3 DEF HasOrigin
<1>3. CASE job.repair # NoDraft
  <2>1. draft = job.repair /\ ~job.spent
    BY <1>3 DEF Returns
  <2>2. draft \in repairs.begun /\ draft \in Drafts /\ draft.unit = Unit(checkpoint.state)
    BY <1>1, <1>3, <2>1, BegunRepair DEF IInv, RepairInv, TypeOK
  <2>3. PICK key \in rejected, id \in RepairIds : draft = RepairOf(key, id)
    BY <2>2 DEF IInv, OriginInv
  <2>4. key \in Drafts /\ key.texts = <<>>
    BY <2>3 DEF IInv, OriginInv, TypeOK
  <2>5. Source(draft) = key /\ draft.texts = <<id>>
    BY <2>3, <2>4, RepairFacts
  <2> QED
    BY <1>1, <2>2, <2>3, <2>5 DEF HasOrigin
<1> QED
  BY <1>2, <1>3

LEMMA DraftIInv == ASSUME IInv, NEW direction \in Directions \cup {NoDirection}, Draft(direction) PROVE IInv'
<1> DEFINE key == Key(checkpoint.state, direction)
<1>1. key \in Drafts /\ key.texts = <<>>
  BY CallFacts DEF Draft, Wants
<1>2. /\ latest' = key /\ key \notin drafted \cup rejected
      /\ \/ drafted' = drafted \cup {key} /\ rejected' = rejected
         \/ rejected' = rejected \cup {key} /\ drafted' = drafted
      /\ UNCHANGED <<record, checkpoint, receipts, repairs, job, faults>>
  BY DEF Draft
<1> HIDE DEF key
<1>3. Grows
  BY <1>2 DEF Grows
<1>4. TypeOK'
  <2>1. OperationsType'
    BY <1>1, <1>2, TypeParts DEF IInv, OperationsType
  <2> QED
    BY <1>2, <2>1, TypeParts, TypeOfNext DEF IInv, ReceiptsType, RepairsType
<1>5. OriginInv'
  BY <1>1, <1>2 DEF IInv, OriginInv
<1>6. NodeInv' /\ CandidateInv' /\ CommittedInv' /\ RecordInv' /\ JobInv' /\ RepairInv'
  BY <1>2, <1>3, CheckpointKeeps, RecordKeeps, JobKeeps DEF Grows
<1> QED
  BY <1>4, <1>5, <1>6 DEF IInv

(* A failing step stays at its node until it is projected.                 *)
LEMMA FailKeeps ==
  ASSUME IInv, NEW failure \in Failures, Fail(failure), job.phase = "graph",
         checkpoint.node \in Working, failure = "contract" => checkpoint.node \in Drafting,
         UNCHANGED <<record, checkpoint, receipts, operations, repairs>>, faults' \in 0 .. MaxFaults
  PROVE  IInv'
<1>1. Grows
  BY DEF Grows, operations
<1>2. /\ job'.phase = "failing" /\ job'.failure = failure
      /\ job'.command = job.command /\ job'.repair = job.repair /\ job' \in JobType
  <2>1. job \in JobType
    BY TypeParts DEF IInv
  <2> QED
    BY <2>1 DEF Fail, JobType, Phases
<1>3. TypeOK'
  BY <1>2, TypeParts, TypeOfNext DEF IInv, ReceiptsType, OperationsType, RepairsType, operations
<1>4. OriginInv' /\ NodeInv' /\ CandidateInv' /\ CommittedInv' /\ RecordInv'
  BY <1>1, CheckpointKeeps, OriginKeeps, RecordKeeps
<1>5. JobInv'
  BY <1>2 DEF IInv, JobInv, Entering
<1>6. RepairInv'
  BY <1>2 DEF IInv, RepairInv, BrokeContract, Entering
<1> QED
  BY <1>3, <1>4, <1>5, <1>6 DEF IInv

LEMMA DraftRejectedIInv ==
  ASSUME IInv, NEW direction \in Directions \cup {NoDirection}, DraftRejected(direction) PROVE IInv'
<1>1. job.phase = "graph" /\ checkpoint.node \in Drafting
  BY CallFacts DEF DraftRejected, Wants
<1>2. faults' \in 0 .. MaxFaults
  BY DEF DraftRejected, IInv, TypeOK
<1> QED
  BY <1>1, <1>2, FailKeeps DEF DraftRejected, Failures, Drafting, Working

LEMMA MismatchIInv == ASSUME IInv, Mismatch PROVE IInv'
<1>1. faults' \in 0 .. MaxFaults
  BY DEF Mismatch, IInv, TypeOK
<1> QED
  BY <1>1, FailKeeps DEF Mismatch, Deciding, Running, Failures, Working

LEMMA NodeFailsIInv ==
  ASSUME IInv, NEW failure \in {"transport", "other"}, NodeFails(failure) PROVE IInv'
<1>1. faults' \in 0 .. MaxFaults
  BY RouteAssumption DEF NodeFails, IInv, TypeOK
<1>2. job.phase = "graph" /\ checkpoint.node \in Working
  BY DEF NodeFails, Running, Working
<1> QED
  BY <1>1, <1>2, FailKeeps DEF NodeFails, Failures

LEMMA GeneratedIInv == ASSUME IInv, NEW draft, Generated(draft) PROVE IInv'
<1> USE DEF Generated, Running
<1> DEFINE s1 == [checkpoint.state EXCEPT !.candidate = draft]
<1>1. draft \in Drafts /\ draft.unit = Unit(checkpoint.state) /\ HasOrigin(draft)
  <2>1. checkpoint.state.direction \in Directions \cup {NoDirection}
    BY DEF IInv, TypeOK, RunStates
  <2> QED
    BY <2>1, ReturnFacts
<1>2. /\ s1 \in RunStates /\ s1.artifacts = checkpoint.state.artifacts
      /\ s1.status = checkpoint.state.status /\ s1.candidate = draft
  BY <1>1 DEF IInv, TypeOK, RunStates
<1>3. /\ checkpoint'.node = "decision" /\ checkpoint'.state = s1 /\ checkpoint'.asked = FALSE
      /\ checkpoint' \in CheckpointType
  BY <1>2, MoveFacts DEF Nodes
<1> HIDE DEF s1
<1>4. /\ OriginInv' /\ CommittedInv' /\ RecordInv'
      /\ Unit(checkpoint'.state) = Unit(checkpoint.state)
      /\ CancelGiven => CancelGiven'
      /\ HasOrigin(draft) => HasOrigin(draft)'
  BY <1>2, <1>3, SameUnits DEF Drafting
<1>5. SameJob
  BY JobSteps DEF SameJob
<1>6. TypeOK' /\ JobInv'
  BY <1>3, <1>5, StepTypes, StepJob
<1>7. NodeInv'
  BY <1>2, <1>3, <1>4 DEF IInv, NodeInv, Working
<1>8. CandidateInv'
  BY <1>1, <1>2, <1>3, <1>4 DEF CandidateInv
<1>9. RepairInv'
  BY <1>3, <1>4, <1>5, JobSteps DEF SameJob, IInv, RepairInv, BrokeContract, Entering
<1> QED
  BY <1>4, <1>6, <1>7, <1>8, <1>9 DEF IInv

LEMMA AnsweredFacts ==
  ASSUME IInv, NEW action, Answered(action)
  PROVE  /\ job.phase = "graph" /\ checkpoint.node = "decision"
         /\ job.command \in receipts.begun /\ job.command \in Commands
         /\ job.command.action = action /\ job.command.draft = checkpoint.state.candidate
<1>1. /\ job.phase = "graph" /\ checkpoint.node = "decision"
      /\ job.command.action = action /\ job.command.draft = checkpoint.state.candidate
  BY DEF Answered, Deciding, Running, Answers
<1>2. checkpoint.state.candidate \in Drafts
  BY <1>1 DEF IInv, CandidateInv
<1>3. job.command # NoCommand
  BY <1>1, <1>2, NoDraftAssumption DEF NoCommand
<1> QED
  BY <1>1, <1>3 DEF IInv, JobInv, TypeOK

LEMMA RegeneratedIInv == ASSUME IInv, NEW draft, Regenerated(draft) PROVE IInv'
<1> USE DEF Regenerated
<1> DEFINE s1 == [checkpoint.state EXCEPT !.candidate = draft, !.action = "regenerate", !.redrafts = @ + 1]
<1>1. draft \in Drafts /\ draft.unit = Unit(checkpoint.state) /\ HasOrigin(draft)
  <2>1. job.command.direction \in Directions \cup {NoDirection}
    BY AnsweredFacts DEF Commands
  <2> QED
    BY <2>1, ReturnFacts
<1>2. /\ s1 \in RunStates /\ s1.artifacts = checkpoint.state.artifacts
      /\ s1.status = checkpoint.state.status /\ s1.candidate = draft
  <2>1. checkpoint.state \in RunStates /\ checkpoint.state.redrafts + 1 \in Nat
    BY StateFields DEF IInv, TypeOK
  <2> QED
    BY <1>1, <2>1 DEF RunStates
<1>3. /\ checkpoint'.node = "decision" /\ checkpoint'.state = s1 /\ checkpoint'.asked = FALSE
      /\ checkpoint' \in CheckpointType
  BY <1>2, MoveFacts DEF Nodes
<1> HIDE DEF s1
<1>4. /\ OriginInv' /\ CommittedInv' /\ RecordInv'
      /\ Unit(checkpoint'.state) = Unit(checkpoint.state)
      /\ CancelGiven => CancelGiven'
      /\ HasOrigin(draft) => HasOrigin(draft)'
  BY <1>2, <1>3, SameUnits DEF Drafting
<1>5. SameJob
  BY JobSteps DEF SameJob
<1>6. job.phase = "graph" /\ checkpoint.node = "decision"
  BY AnsweredFacts
<1>7. TypeOK' /\ JobInv'
  BY <1>3, <1>5, <1>6, StepTypes, StepJob
<1>8. NodeInv'
  BY <1>2, <1>3, <1>4, <1>6 DEF IInv, NodeInv, Working
<1>9. CandidateInv'
  BY <1>1, <1>2, <1>3, <1>4 DEF CandidateInv
<1>10. RepairInv'
  BY <1>3, <1>4, <1>5, <1>6, JobSteps DEF SameJob, IInv, RepairInv, BrokeContract, Entering
<1> QED
  BY <1>4, <1>7, <1>8, <1>9, <1>10 DEF IInv

(* A repair that still has to be returned waits for the author's stage.    *)
LEMMA RepairStage ==
  ASSUME IInv, job.phase = "graph", checkpoint.node = "decision",
         BrokeContract \/ (job.repair # NoDraft /\ ~job.spent)
  PROVE  job.command.action = "regenerate" /\ Stage(checkpoint.state) \in Mandatory
<1>1. job.repair # NoDraft /\ job.repair.unit = Unit(checkpoint.state) /\ job.command.action = "regenerate"
  BY DEF IInv, RepairInv, Entering
<1>2. job.repair \in repairs.begun
  BY <1>1 DEF IInv, TypeOK
<1> QED
  BY <1>1, <1>2, BegunRepair DEF Stage

LEMMA AutoContinueIInv == ASSUME IInv, AutoContinue PROVE IInv'
<1> USE DEF AutoContinue, Running
<1> DEFINE s1 == [checkpoint.state EXCEPT !.action = "accept", !.redrafts = 0]
<1>1. /\ s1 \in RunStates /\ s1.artifacts = checkpoint.state.artifacts
      /\ s1.status = checkpoint.state.status /\ s1.candidate = checkpoint.state.candidate
  BY DEF IInv, TypeOK, RunStates
<1>2. /\ checkpoint'.node = "commit" /\ checkpoint'.state = s1 /\ checkpoint'.asked = FALSE
      /\ checkpoint' \in CheckpointType
  BY <1>1, MoveFacts DEF Nodes
<1> HIDE DEF s1
<1>3. Stage(checkpoint.state) \notin Mandatory
  BY DEF Deciding
<1>4. ~BrokeContract /\ (job.repair # NoDraft => job.spent)
  BY <1>3, RepairStage
<1>5. /\ OriginInv' /\ CommittedInv' /\ RecordInv'
      /\ Unit(checkpoint'.state) = Unit(checkpoint.state)
      /\ Stage(checkpoint'.state) = Stage(checkpoint.state)
      /\ CancelGiven => CancelGiven'
      /\ \A draft : HasOrigin(draft) => HasOrigin(draft)'
  BY <1>1, <1>2, <1>4, SameUnits
<1>6. SameJob
  BY TypeParts DEF SameJob, IInv
<1>7. TypeOK' /\ JobInv'
  BY <1>2, <1>6, StepTypes, StepJob
<1>8. NodeInv'
  BY <1>1, <1>2, <1>5 DEF IInv, NodeInv, Working
<1>9. CandidateInv'
  BY <1>1, <1>2, <1>3, <1>5 DEF IInv, CandidateInv
<1>10. RepairInv'
  BY <1>4 DEF IInv, RepairInv, BrokeContract
<1> QED
  BY <1>5, <1>7, <1>8, <1>9, <1>10 DEF IInv

LEMMA AskIInv == ASSUME IInv, Ask PROVE IInv'
<1> USE DEF Ask, Deciding, Running
<1>1. /\ checkpoint'.node = checkpoint.node /\ checkpoint'.state = checkpoint.state
      /\ checkpoint'.asked = TRUE /\ checkpoint' \in CheckpointType
  BY DEF IInv, TypeOK, CheckpointType
<1>2. /\ OriginInv' /\ CommittedInv' /\ RecordInv'
      /\ CancelGiven => CancelGiven'
      /\ \A draft : HasOrigin(draft) => HasOrigin(draft)'
  BY <1>1, SameUnits DEF Drafting
<1>3. /\ job'.phase = "project" /\ job'.command = job.command /\ job'.repair = job.repair
      /\ job' \in JobType
  <2>1. job \in JobType
    BY TypeParts DEF IInv
  <2> QED
    BY <2>1 DEF JobType, Phases
<1>4. TypeOK'
  BY <1>1, <1>3, TypeParts, TypeOfNext DEF IInv, ReceiptsType, OperationsType, RepairsType, operations
<1>5. NodeInv'
  BY <1>1, <1>2 DEF IInv, NodeInv, Working
<1>6. CandidateInv'
  BY <1>1, <1>2 DEF IInv, CandidateInv
<1>7. JobInv'
  BY <1>1, <1>3 DEF IInv, JobInv, Entering
<1>8. RepairInv'
  BY <1>1, <1>3 DEF IInv, RepairInv, BrokeContract, Entering
<1> QED
  BY <1>2, <1>4, <1>5, <1>6, <1>7, <1>8 DEF IInv

(* An edit is put in place of the candidate it was given for.              *)
LEMMA AcceptsFacts ==
  ASSUME NEW command \in Commands
  PROVE  /\ Accepts(command) \in Drafts
         /\ Accepts(command).unit = command.draft.unit
         /\ HasOrigin(command.draft) => HasOrigin(Accepts(command))
<1>1. command.draft \in Drafts /\ command.edit \in Edits \cup {NoEdit}
  BY DEF Commands
<1>2. CASE command.edit = NoEdit
  BY <1>1, <1>2 DEF Accepts
<1>3. CASE command.edit # NoEdit
  <2> DEFINE edited == [command.draft EXCEPT !.texts = Append(@, command.edit)]
  <2>1. Accepts(command) = edited
    BY <1>3 DEF Accepts
  <2>2. command.draft.texts \in Seq(Edits \cup RepairIds) /\ command.edit \in Edits
    BY <1>1, <1>3 DEF Drafts
  <2>3. edited.texts = Append(command.draft.texts, command.edit) /\ edited.unit = command.draft.unit
    BY <1>1 DEF Drafts
  <2>4. edited \in Drafts
    <3>1. Append(command.draft.texts, command.edit) \in Seq(Edits \cup RepairIds)
      BY <2>2
    <3> QED
      BY <1>1, <3>1 DEF Drafts
  <2>5. Source(edited) = Source(command.draft)
    BY <1>1 DEF Drafts, Source
  <2>6. command.draft.texts # <<>> => edited.texts # <<>> /\ edited.texts[1] = command.draft.texts[1]
    BY <2>2, <2>3
  <2> HIDE DEF edited
  <2>7. HasOrigin(command.draft) => HasOrigin(edited)
    BY <2>5, <2>6 DEF HasOrigin
  <2> QED
    BY <2>1, <2>3, <2>4, <2>7
<1> QED
  BY <1>2, <1>3

LEMMA AcceptedIInv == ASSUME IInv, Accepted PROVE IInv'
<1> USE DEF Accepted
<1> DEFINE s1 == [checkpoint.state EXCEPT !.candidate = Accepts(job.command), !.action = "accept",
                                          !.redrafts = 0]
<1>1. /\ job.phase = "graph" /\ checkpoint.node = "decision"
      /\ job.command \in receipts.begun /\ job.command \in Commands
      /\ job.command.action = "accept" /\ job.command.draft = checkpoint.state.candidate
  BY AnsweredFacts
<1>2. /\ Accepts(job.command) \in Drafts /\ Accepts(job.command).unit = Unit(checkpoint.state)
      /\ HasOrigin(Accepts(job.command))
  BY <1>1, AcceptsFacts DEF IInv, CandidateInv
<1>3. Accepts(job.command) \in Granted
  BY <1>1 DEF Granted
<1>4. /\ s1 \in RunStates /\ s1.artifacts = checkpoint.state.artifacts
      /\ s1.status = checkpoint.state.status /\ s1.candidate = Accepts(job.command)
  BY <1>2 DEF IInv, TypeOK, RunStates
<1>5. /\ checkpoint'.node = "commit" /\ checkpoint'.state = s1 /\ checkpoint'.asked = FALSE
      /\ checkpoint' \in CheckpointType
  BY <1>4, MoveFacts DEF Nodes
<1> HIDE DEF s1
<1>6. ~BrokeContract /\ (job.repair # NoDraft => job.spent)
  BY <1>1, RepairStage
<1>7. /\ OriginInv' /\ CommittedInv' /\ RecordInv'
      /\ Unit(checkpoint'.state) = Unit(checkpoint.state)
      /\ Granted' = Granted /\ (CancelGiven => CancelGiven')
      /\ \A draft : HasOrigin(draft) => HasOrigin(draft)'
  BY <1>4, <1>5, <1>6, SameUnits
<1>8. SameJob /\ job'.spent = job.spent
  BY JobSteps DEF SameJob
<1>9. TypeOK' /\ JobInv'
  BY <1>1, <1>5, <1>8, StepTypes, StepJob
<1>10. NodeInv'
  BY <1>1, <1>4, <1>5, <1>7 DEF IInv, NodeInv, Working
<1>11. checkpoint'.state.candidate = Accepts(job.command)
  BY <1>4, <1>5
<1>12. CandidateInv'
  BY <1>2, <1>3, <1>5, <1>7, <1>11 DEF CandidateInv
<1>13. RepairInv'
  BY <1>1, <1>6, <1>8 DEF SameJob, IInv, RepairInv, BrokeContract, Entering
<1> QED
  BY <1>7, <1>9, <1>10, <1>12, <1>13 DEF IInv

LEMMA CancelledIInv == ASSUME IInv, Cancelled PROVE IInv'
<1> USE DEF Cancelled
<1> DEFINE s1 == [checkpoint.state EXCEPT !.status = "cancelled", !.action = "cancel", !.redrafts = 0]
<1>1. /\ job.phase = "graph" /\ checkpoint.node = "decision"
      /\ job.command \in receipts.begun /\ job.command.action = "cancel"
  BY AnsweredFacts
<1>2. CancelGiven
  BY <1>1 DEF CancelGiven
<1>3. /\ s1 \in RunStates /\ s1.artifacts = checkpoint.state.artifacts /\ s1.status = "cancelled"
  BY DEF IInv, TypeOK, RunStates
<1>4. /\ checkpoint'.node = "done" /\ checkpoint'.state = s1 /\ checkpoint'.asked = FALSE
      /\ checkpoint' \in CheckpointType
  BY <1>3, MoveFacts DEF Nodes
<1> HIDE DEF s1
<1>5. ~BrokeContract /\ (job.repair # NoDraft => job.spent)
  BY <1>1, RepairStage
<1>6. /\ OriginInv' /\ CommittedInv' /\ RecordInv' /\ CancelGiven'
  BY <1>2, <1>3, <1>4, <1>5, SameUnits
<1>7. SameJob /\ job'.spent = job.spent
  BY JobSteps DEF SameJob
<1>8. TypeOK' /\ JobInv'
  BY <1>1, <1>4, <1>7, StepTypes, StepJob
<1>9. NodeInv'
  BY <1>1, <1>3, <1>4, <1>6 DEF IInv, NodeInv, Working, Closed
<1>10. CandidateInv'
  BY <1>4 DEF CandidateInv
<1>11. RepairInv'
  BY <1>1, <1>5, <1>7 DEF SameJob, IInv, RepairInv, BrokeContract, Entering
<1> QED
  BY <1>6, <1>8, <1>9, <1>10, <1>11 DEF IInv

LEMMA CommitIInv == ASSUME IInv, Commit PROVE IInv'
<1> USE DEF Commit, Running
<1> DEFINE s == checkpoint.state
           n == Len(s.artifacts)
           more == Unit(s) < Len(Route) /\ Route[Unit(s) + 1] = Route[Unit(s)]
           s1 == [s EXCEPT !.artifacts = Append(@, s.candidate), !.candidate = NoDraft,
                           !.direction = NoDirection, !.action = "none", !.redrafts = 0]
<1>1. s \in RunStates /\ n \in Nat /\ s.artifacts \in Seq(Drafts) /\ n < Len(Route) /\ s.status = "running"
  BY StateFields DEF IInv, TypeOK, NodeInv, Working
<1>2. /\ s.candidate \in Drafts /\ s.candidate.unit = n + 1 /\ HasOrigin(s.candidate)
      /\ Route[n + 1] \in Mandatory => s.candidate \in Granted
  BY <1>1, StateFields DEF IInv, CandidateInv, Stage
<1>3. /\ s1 \in RunStates /\ s1.artifacts = Append(s.artifacts, s.candidate)
      /\ s1.status = s.status
  <2>1. Append(s.artifacts, s.candidate) \in Seq(Drafts)
    BY <1>1, <1>2
  <2> QED
    BY <1>1, <2>1 DEF RunStates
<1>4. /\ Len(s1.artifacts) = n + 1 /\ DOMAIN s1.artifacts = 1 .. n + 1
      /\ s1.artifacts[n + 1] = s.candidate
      /\ \A u \in 1 .. n : s1.artifacts[u] = s.artifacts[u]
  BY <1>1, <1>2, <1>3, StateFields
<1>5. Move(IF more THEN "generate" ELSE "finished", s1)
  OBVIOUS
<1>6. /\ checkpoint'.node = IF more THEN "generate" ELSE "finished"
      /\ checkpoint'.state = s1 /\ checkpoint'.asked = FALSE /\ checkpoint' \in CheckpointType
  <2>1. (IF more THEN "generate" ELSE "finished") \in Nodes
    BY DEF Nodes
  <2> HIDE DEF more, s1
  <2> QED
    BY <1>3, <1>5, <2>1, MoveFacts
<1>7. more => n + 1 < Len(Route)
  BY <1>1, StateFields
<1> HIDE DEF s1, more
<1>8. ~BrokeContract /\ (job.repair # NoDraft => job.spent)
  BY DEF IInv, RecordInv, RepairInv, Drafting
<1>9. Granted' = Granted /\ (CancelGiven => CancelGiven') /\ \A draft : HasOrigin(draft) => HasOrigin(draft)'
  BY GrantsGrow, OriginsGrow DEF operations, Granted
<1>10. SameJob
  BY TypeParts DEF SameJob, IInv
<1>11. TypeOK' /\ JobInv' /\ OriginInv'
  BY <1>6, <1>10, StepTypes, StepJob, OriginKeeps
<1>12. NodeInv'
  BY <1>1, <1>3, <1>4, <1>6, <1>7, RouteFacts DEF NodeInv, Working, Closed
<1>13. CandidateInv'
  BY <1>6 DEF CandidateInv
<1>14. CommittedInv'
  <2>1. ASSUME NEW u \in 1 .. n + 1
        PROVE  /\ s1.artifacts[u].unit = u
               /\ Route[u] \in Mandatory => s1.artifacts[u] \in Granted
               /\ HasOrigin(s1.artifacts[u])
    <3>1. CASE u = n + 1
      BY <1>2, <1>4, <3>1
    <3>2. CASE u \in 1 .. n
      BY <1>1, <1>4, <3>2, StateFields DEF IInv, CommittedInv
    <3> QED
      BY <1>1, <3>1, <3>2
  <2> QED
    BY <1>4, <1>6, <1>9, <2>1 DEF CommittedInv
<1>15. RecordInv'
  <2>1. /\ record.state \in RunStates /\ Len(record.state.artifacts) \in Nat
        /\ DOMAIN record.state.artifacts = 1 .. Len(record.state.artifacts)
        /\ Len(record.state.artifacts) <= n
    BY StateFields DEF IInv, TypeOK, RecordInv
  <2> QED
    BY <1>1, <1>4, <1>6, <1>8, <2>1 DEF IInv, RecordInv, BrokeContract
<1>16. RepairInv'
  BY <1>8 DEF IInv, RepairInv, BrokeContract
<1> QED
  BY <1>11, <1>12, <1>13, <1>14, <1>15, <1>16 DEF IInv

LEMMA StageFinishedIInv == ASSUME IInv, StageFinished PROVE IInv'
<1> USE DEF StageFinished, Running
<1> DEFINE last == Len(checkpoint.state.artifacts) = Len(Route)
<1>1. /\ checkpoint'.node = IF last THEN "done" ELSE "started"
      /\ checkpoint'.state.artifacts = checkpoint.state.artifacts
      /\ checkpoint'.state.status = IF last THEN "completed" ELSE "running"
      /\ checkpoint'.asked = FALSE /\ checkpoint' \in CheckpointType
  <2>1. checkpoint \in CheckpointType /\ checkpoint.asked = FALSE
    BY TypeParts DEF IInv, NodeInv, CheckpointType
  <2> QED
    BY <2>1 DEF CheckpointType, RunStates, Nodes
<1>2. ~BrokeContract /\ (job.repair # NoDraft => job.spent)
  BY DEF IInv, RecordInv, RepairInv, Drafting
<1>3. OriginInv' /\ CommittedInv' /\ RecordInv'
  BY <1>1, <1>2, SameUnits
<1>4. SameJob /\ job'.spent = job.spent
  BY JobSteps, TypeParts DEF SameJob, IInv
<1>5. TypeOK' /\ JobInv'
  BY <1>1, <1>4, StepTypes, StepJob
<1>6. NodeInv'
  <2>1. Len(checkpoint.state.artifacts) \in Nat /\ Len(checkpoint.state.artifacts) <= Len(Route)
    BY StateFields DEF IInv, TypeOK, NodeInv
  <2> QED
    BY <1>1, <2>1, RouteFacts DEF NodeInv, Working, Closed
<1>7. CandidateInv'
  BY <1>1 DEF CandidateInv
<1>8. RepairInv'
  BY <1>2, <1>4 DEF SameJob, IInv, RepairInv, BrokeContract, Entering
<1> QED
  BY <1>3, <1>5, <1>6, <1>7, <1>8 DEF IInv

(* A step that leaves the graph, with the Run's record and checkpoint.     *)
LEMMA GraphEndsIInv == ASSUME IInv, GraphEnds PROVE IInv'
<1> USE DEF GraphEnds, Running
<1>1. Grows
  BY DEF Grows, operations
<1>2. /\ job'.phase = "project" /\ job'.command = job.command /\ job'.repair = job.repair
      /\ job' \in JobType
  <2>1. job \in JobType
    BY TypeParts DEF IInv
  <2> QED
    BY <2>1 DEF JobType, Phases
<1>3. TypeOK'
  BY <1>2, TypeParts, TypeOfNext DEF IInv, ReceiptsType, OperationsType, RepairsType, operations
<1>4. OriginInv' /\ NodeInv' /\ CandidateInv' /\ CommittedInv' /\ RecordInv'
  BY <1>1, CheckpointKeeps, OriginKeeps, RecordKeeps
<1>5. JobInv'
  BY <1>2 DEF IInv, JobInv, Entering
<1>6. RepairInv'
  BY <1>2 DEF IInv, RepairInv, BrokeContract, Entering
<1> QED
  BY <1>3, <1>4, <1>5, <1>6 DEF IInv

-----------------------------------------------------------------------------
(* Leaving the graph.                                                      *)
LEMMA ProjectIInv == ASSUME IInv, Project PROVE IInv'
<1> USE DEF Project
<1> DEFINE s1 == IF checkpoint.asked THEN [checkpoint.state EXCEPT !.status = "awaiting_decision"]
                                     ELSE checkpoint.state
<1>1. Grows
  BY DEF Grows, operations
<1>2. checkpoint.state \in RunStates
  BY DEF IInv, TypeOK
<1>3. /\ s1 \in RunStates /\ s1.artifacts = checkpoint.state.artifacts
      /\ s1.status = IF checkpoint.asked THEN "awaiting_decision" ELSE checkpoint.state.status
  BY <1>2 DEF RunStates
<1>4. /\ record'.state = s1 /\ record'.failure = "none"
      /\ record'.pending = IF checkpoint.asked THEN checkpoint.state.candidate ELSE NoDraft
  OBVIOUS
<1>5. record' \in RecordType
  <2>1. checkpoint.state.candidate \in Drafts \cup {NoDraft} /\ checkpoint.state.redrafts \in Nat
    BY <1>2 DEF RunStates
  <2>2. record' = [state   |-> s1,
                   pending |-> IF checkpoint.asked THEN checkpoint.state.candidate ELSE NoDraft,
                   used    |-> IF checkpoint.asked THEN checkpoint.state.redrafts ELSE 0,
                   failure |-> "none"]
    OBVIOUS
  <2> HIDE DEF s1, Project
  <2> QED
    BY <1>3, <2>1, <2>2 DEF RecordType, Failures
<1> HIDE DEF s1
<1>6. job'.phase = "settle" /\ job'.command = job.command /\ job'.repair = job.repair /\ job' \in JobType
  <2>1. job \in JobType
    BY TypeParts DEF IInv
  <2> QED
    BY <2>1 DEF JobType, Phases
<1>7. TypeOK'
  BY <1>5, <1>6, TypeParts, TypeOfNext DEF IInv, ReceiptsType, OperationsType, RepairsType, operations
<1>8. OriginInv' /\ NodeInv' /\ CandidateInv' /\ CommittedInv'
  BY <1>1, CheckpointKeeps, OriginKeeps
<1>9. RecordInv'
  <2>1. CASE checkpoint.asked
    <3>1. checkpoint.node = "decision" /\ Len(checkpoint.state.artifacts) < Len(Route)
      BY <2>1 DEF IInv, NodeInv, Working
    <3>2. checkpoint.state.candidate.unit = Unit(checkpoint.state)
      BY <3>1 DEF IInv, CandidateInv
    <3>3. Len(checkpoint.state.artifacts) <= Len(checkpoint.state.artifacts)
      BY <1>2, StateFields
    <3> QED
      BY <1>3, <1>4, <2>1, <3>1, <3>2, <3>3 DEF RecordInv, BrokeContract, Closed, Unit
  <2>2. CASE ~checkpoint.asked
    <3>1. checkpoint.state.status \in Closed
      BY <2>2 DEF IInv, JobInv, NodeInv
    <3>2. Len(checkpoint.state.artifacts) <= Len(checkpoint.state.artifacts)
      BY <1>2, StateFields
    <3> QED
      BY <1>3, <1>4, <2>2, <3>1, <3>2 DEF RecordInv, BrokeContract
  <2> QED
    BY <2>1, <2>2
<1>10. JobInv' /\ RepairInv'
  BY <1>6 DEF IInv, JobInv, RepairInv, Entering
<1> QED
  BY <1>7, <1>8, <1>9, <1>10 DEF IInv

LEMMA EndOfJob ==
  ASSUME IInv, job' = NoJob
  PROVE  JobInv' /\ RepairInv'
  BY NoJobType DEF JobInv, RepairInv, Entering

LEMMA SucceededFacts ==
  ASSUME IInv
  PROVE  /\ Succeeded(job.command).begun = receipts.begun
         /\ Succeeded(job.command).succeeded \subseteq receipts.succeeded \cup (receipts.begun \cap {job.command})
         /\ Succeeded(job.command) \in [begun : SUBSET Commands, succeeded : SUBSET Commands]
<1>1. receipts \in [begun : SUBSET Commands, succeeded : SUBSET Commands]
  BY DEF IInv, TypeOK
<1>2. job.command # NoCommand => job.command \in receipts.begun
  BY DEF IInv, JobInv
<1> QED
  BY <1>1, <1>2 DEF Succeeded

LEMMA SettleIInv == ASSUME IInv, Settle PROVE IInv'
<1> USE DEF Settle
<1>1. /\ receipts'.begun = receipts.begun
      /\ receipts'.succeeded \subseteq receipts.succeeded \cup receipts.begun
      /\ receipts' \in [begun : SUBSET Commands, succeeded : SUBSET Commands]
  BY SucceededFacts
<1>2. /\ repairs'.begun = repairs.begun
      /\ repairs'.succeeded \subseteq repairs.succeeded \cup repairs.begun
      /\ repairs' \in [begun : SUBSET Drafts, succeeded : SUBSET Drafts]
  BY DEF IInv, TypeOK
<1>3. Grows
  BY <1>1, <1>2 DEF Grows, operations
<1>4. TypeOK'
  <2>1. ReceiptsType' /\ RepairsType'
    BY <1>1, <1>2, TypeParts DEF IInv, ReceiptsType, RepairsType
  <2> QED
    BY <2>1, NoJobType, TypeParts, TypeOfNext DEF IInv, OperationsType, operations
<1>5. OriginInv'
  BY <1>2 DEF IInv, OriginInv, operations
<1>6. NodeInv' /\ CandidateInv' /\ CommittedInv' /\ RecordInv' /\ JobInv' /\ RepairInv'
  BY <1>3, CheckpointKeeps, RecordKeeps, EndOfJob
<1> QED
  BY <1>4, <1>5, <1>6 DEF IInv

LEMMA ReconcileConsumedIInv == ASSUME IInv, ReconcileConsumed PROVE IInv'
<1> USE DEF ReconcileConsumed
<1>1. /\ receipts'.begun = receipts.begun
      /\ receipts'.succeeded \subseteq receipts.succeeded \cup receipts.begun
      /\ receipts' \in [begun : SUBSET Commands, succeeded : SUBSET Commands]
  <2>1. receipts' = receipts \/ receipts' = Succeeded(job.command)
    OBVIOUS
  <2>2. receipts \in [begun : SUBSET Commands, succeeded : SUBSET Commands]
    BY DEF IInv, TypeOK
  <2> QED
    BY <2>1, <2>2, SucceededFacts
<1>2. Grows
  BY <1>1 DEF Grows, operations
<1>3. TypeOK'
  <2>1. ReceiptsType'
    BY <1>1, TypeParts DEF IInv, ReceiptsType
  <2> QED
    BY <2>1, NoJobType, TypeParts, TypeOfNext DEF IInv, OperationsType, RepairsType, operations
<1>4. OriginInv' /\ NodeInv' /\ CandidateInv' /\ CommittedInv' /\ RecordInv' /\ JobInv' /\ RepairInv'
  BY <1>2, OriginKeeps, CheckpointKeeps, RecordKeeps, EndOfJob
<1> QED
  BY <1>3, <1>4 DEF IInv

LEMMA CrashIInv == ASSUME IInv, Crash PROVE IInv'
<1> USE DEF Crash
<1>1. Grows
  BY DEF Grows, operations
<1>2. faults' \in 0 .. MaxFaults
  BY RouteAssumption DEF IInv, TypeOK
<1>3. TypeOK'
  BY <1>2, NoJobType, TypeParts, TypeOfNext DEF IInv, ReceiptsType, OperationsType, RepairsType, operations
<1>4. OriginInv' /\ NodeInv' /\ CandidateInv' /\ CommittedInv' /\ RecordInv' /\ JobInv' /\ RepairInv'
  BY <1>1, OriginKeeps, CheckpointKeeps, RecordKeeps, EndOfJob
<1> QED
  BY <1>3, <1>4 DEF IInv

(* What a failure leaves in the record.                                    *)
LEMMA FailureRecord ==
  ASSUME IInv, ProjectFailure
  PROVE  /\ record' \in RecordType
         /\ record'.state.artifacts = checkpoint.state.artifacts
         /\ record'.state.status = IF job.failure = "transport" THEN checkpoint.state.status ELSE "failed"
         /\ record'.failure = job.failure
         /\ record'.pending # NoDraft =>
              /\ job.failure = "transport"
              /\ Len(checkpoint.state.artifacts) = Len(record.state.artifacts)
              /\ record'.pending = record.pending
<1> DEFINE s == checkpoint.state
           retry == job.failure = "transport"
           kept == retry /\ Len(s.artifacts) = Len(record.state.artifacts)
           redraft == /\ job.command.action = "regenerate"
                      /\ record.pending = job.command.draft
                      /\ Stage(s) = Stage(record.state)
           redrafts == IF redraft THEN Larger(s.redrafts, record.used + 1) ELSE s.redrafts
           action == IF redraft THEN "regenerate" ELSE s.action
           s1 == IF retry THEN s ELSE [s EXCEPT !.status = "failed", !.action = action, !.redrafts = redrafts]
<1>1. s \in RunStates /\ record.used \in Nat /\ job.failure \in Failures /\ record.pending \in Drafts \cup {NoDraft}
  BY DEF IInv, TypeOK
<1>2. record' = [state |-> s1, pending |-> IF kept THEN record.pending ELSE NoDraft,
                 used |-> IF kept THEN record.used ELSE 0, failure |-> job.failure]
  BY DEF ProjectFailure
<1>3. redrafts \in Nat
  <2>1. s.redrafts \in Nat /\ record.used + 1 \in Nat
    BY <1>1, StateFields
  <2> HIDE DEF redraft
  <2> QED
    BY <2>1, LargerIsNat
<1>4. action \in {"none", "accept", "regenerate", "cancel"}
  <2> HIDE DEF redraft
  <2> QED
    BY <1>1 DEF RunStates
<1> HIDE DEF redrafts, action
<1>5. s1 \in RunStates /\ s1.artifacts = s.artifacts /\ s1.status = IF retry THEN s.status ELSE "failed"
  BY <1>1, <1>3, <1>4 DEF RunStates
<1> HIDE DEF s1
<1>6. record' \in RecordType
  BY <1>1, <1>2, <1>5 DEF RecordType
<1> QED
  BY <1>2, <1>5, <1>6

LEMMA ProjectFailureIInv == ASSUME IInv, ProjectFailure PROVE IInv'
<1>1. /\ job.phase = "failing" /\ job' = [job EXCEPT !.phase = "reconcile"]
      /\ UNCHANGED <<checkpoint, receipts, operations, repairs, faults>>
  BY DEF ProjectFailure
<1>2. Grows
  BY <1>1 DEF Grows, operations
<1>3. job'.phase = "reconcile" /\ job'.command = job.command /\ job'.repair = job.repair /\ job' \in JobType
  <2>1. job \in JobType
    BY TypeParts DEF IInv
  <2> QED
    BY <1>1, <2>1 DEF JobType, Phases
<1>4. TypeOK'
  BY <1>1, <1>3, FailureRecord, TypeParts, TypeOfNext
     DEF IInv, ReceiptsType, OperationsType, RepairsType, operations
<1>5. OriginInv' /\ NodeInv' /\ CandidateInv' /\ CommittedInv'
  BY <1>1, <1>2, CheckpointKeeps, OriginKeeps
<1>6. RecordInv'
  <2>1. /\ checkpoint.node \in Working /\ (job.failure = "contract" => checkpoint.node \in Drafting)
        /\ Len(checkpoint.state.artifacts) < Len(Route) /\ checkpoint.state.status = "running"
    BY <1>1 DEF IInv, JobInv, NodeInv
  <2>2. Len(checkpoint.state.artifacts) <= Len(checkpoint.state.artifacts)
    BY StateFields DEF IInv, TypeOK
  <2>3. record'.pending # NoDraft =>
          record'.pending.unit = Unit(record'.state) /\ record'.state.status \notin Closed
    BY <2>1, FailureRecord DEF IInv, RecordInv, Unit, Closed
  <2>4. BrokeContract' => record'.pending = NoDraft /\ checkpoint.node \in Drafting
    BY <2>1, FailureRecord DEF BrokeContract
  <2> QED
    BY <1>1, <2>1, <2>2, <2>3, <2>4, FailureRecord DEF RecordInv
<1>7. JobInv' /\ RepairInv'
  BY <1>1, <1>3 DEF IInv, JobInv, RepairInv, Entering
<1> QED
  BY <1>4, <1>5, <1>6, <1>7 DEF IInv

-----------------------------------------------------------------------------
LEMMA CommandIInv == ASSUME IInv, Command PROVE IInv'
<1>1. Submittable \subseteq Commands
  BY DEF Submittable, Commands, IInv, TypeOK
<1>2. CASE Start
  BY <1>2, StartIInv
<1>3. CASE \E c \in Submittable : Submit(c)
  BY <1>1, <1>3, SubmitIInv
<1>4. CASE \E c \in receipts.begun : SubmitAgain(c)
  BY <1>4, SubmitAgainIInv
<1>5. CASE \E d \in Directions : Recover(d)
  BY <1>5, RecoverIInv
<1>6. CASE \E id \in RepairIds : BeginRepair(id)
  BY <1>6, BeginRepairIInv
<1>7. CASE \E c \in repairs.begun : RepairIsPending(c) \/ ReplayRegeneration(c) \/ RetryLocally(c)
  BY <1>7, RepairIsPendingIInv, ReplayRegenerationIInv, RetryLocallyIInv
<1> QED
  BY <1>2, <1>3, <1>4, <1>5, <1>6, <1>7 DEF Command

LEMMA GraphStepIInv == ASSUME IInv, GraphStep PROVE IInv'
<1>1. CASE \E d \in Directions \cup {NoDirection} : Draft(d) \/ DraftRejected(d)
  BY <1>1, DraftIInv, DraftRejectedIInv
<1>2. CASE \E draft \in drafted \cup rejected \cup repairs.begun : Generated(draft) \/ Regenerated(draft)
  BY <1>2, GeneratedIInv, RegeneratedIInv
<1>3. CASE StageStarted \/ AutoContinue \/ Ask \/ Mismatch
  BY <1>3, StageStartedIInv, AutoContinueIInv, AskIInv, MismatchIInv
<1>4. CASE Accepted \/ Cancelled \/ Commit \/ StageFinished \/ GraphEnds
  BY <1>4, AcceptedIInv, CancelledIInv, CommitIInv, StageFinishedIInv, GraphEndsIInv
<1> QED
  BY <1>1, <1>2, <1>3, <1>4 DEF GraphStep

LEMMA StutterIInv == ASSUME IInv, UNCHANGED vars PROVE IInv'
<1>1. Grows
  BY DEF Grows, vars, operations
<1>2. TypeOK'
  BY TypeParts, TypeOfNext DEF vars, IInv, ReceiptsType, OperationsType, RepairsType, operations
<1>3. OriginInv' /\ NodeInv' /\ CandidateInv' /\ CommittedInv' /\ RecordInv' /\ JobInv' /\ RepairInv'
  BY <1>1, OriginKeeps, CheckpointKeeps, RecordKeeps, JobKeeps DEF Grows, vars
<1> QED
  BY <1>2, <1>3 DEF IInv

LEMMA NextIInv == ASSUME IInv, [Next]_vars PROVE IInv'
<1>1. CASE Command
  BY <1>1, CommandIInv
<1>2. CASE Step
  BY <1>2, EnterFreshIInv, EnterWithCommandIInv, GraphStepIInv, ProjectIInv, SettleIInv,
     ProjectFailureIInv, ReconcileConsumedIInv DEF Step
<1>3. CASE Fault
  BY <1>3, NodeFailsIInv, CrashIInv DEF Fault
<1>4. CASE UNCHANGED vars
  BY <1>4, StutterIInv
<1> QED
  BY <1>1, <1>2, <1>3, <1>4 DEF Next

(* The inductive invariant of a Run's execution holds in every state.      *)
THEOREM Invariance == Spec => []IInv
  BY InitIInv, NextIInv, PTL DEF Spec

(* TypeOK: every variable keeps its type; in particular one decision never *)
(* has two commands on record, and no receipt succeeds that was not begun. *)
THEOREM TypeCorrect == Spec => []TypeOK
<1>1. IInv => TypeOK
  BY DEF IInv
<1> QED
  BY <1>1, Invariance, PTL

(* OnlyTheAuthorDecides: whatever is lost, repeated or bound to the wrong  *)
(* interrupt, a unit of a decided stage is one the author granted.         *)
THEOREM AuthorAlwaysDecides == Spec => []OnlyTheAuthorDecides
<1>1. IInv => OnlyTheAuthorDecides
  BY DEF IInv, CommittedInv, NodeInv, CancelGiven, OnlyTheAuthorDecides
<1> QED
  BY <1>1, Invariance, PTL

LEMMA PrefixIsSubSeq ==
  ASSUME NEW S, NEW told \in Seq(S), NEW held \in Seq(S), Len(told) <= Len(held),
         \A u \in DOMAIN told : told[u] = held[u]
  PROVE  SubSeq(held, 1, Len(told)) = told
<1>1. /\ SubSeq(held, 1, Len(told)) \in Seq(S) /\ Len(SubSeq(held, 1, Len(told))) = Len(told)
      /\ \A u \in 1 .. Len(told) : SubSeq(held, 1, Len(told))[u] = told[u]
  OBVIOUS
<1> QED
  BY <1>1

LEMMA RecordIsPrefix ==
  ASSUME IInv
  PROVE  /\ Len(record.state.artifacts) <= Len(checkpoint.state.artifacts)
         /\ SubSeq(checkpoint.state.artifacts, 1, Len(record.state.artifacts)) = record.state.artifacts
<1>1. record.state.artifacts \in Seq(Drafts) /\ checkpoint.state.artifacts \in Seq(Drafts)
  BY StateFields DEF IInv, TypeOK
<1> QED
  BY <1>1, PrefixIsSubSeq DEF IInv, RecordInv

(* CheckpointLeads: a restart from the record repeats work but never skips *)
(* a unit, wherever the process died.                                      *)
THEOREM CheckpointStaysAhead == Spec => []CheckpointLeads
<1>1. IInv => CheckpointLeads
  BY RecordIsPrefix DEF CheckpointLeads
<1> QED
  BY <1>1, Invariance, PTL

(* PendingIsCurrent: a decision kept over a retryable failure is one on    *)
(* the unit the Run is at.                                                 *)
THEOREM PendingStaysCurrent == Spec => []PendingIsCurrent
<1>1. IInv => PendingIsCurrent
  BY DEF IInv, RecordInv, PendingIsCurrent
<1> QED
  BY <1>1, Invariance, PTL

(* CommittedHasOrigin: a return that broke the contract is never           *)
(* committed, except as the author's repair of it, on record.              *)
THEOREM CommittedKeepsOrigin == Spec => []CommittedHasOrigin
<1>1. IInv => CommittedHasOrigin
  BY DEF IInv, CommittedInv, HasOrigin, Source, CommittedHasOrigin
<1> QED
  BY <1>1, Invariance, PTL

-----------------------------------------------------------------------------
(* The Run's record and receipts implement the promised route.             *)
Status == IF record.state.status \in Closed THEN record.state.status ELSE "open"

LEMMA PromiseInit == Init => Promise!Init
<1> SUFFICES ASSUME Init PROVE Promise!Init
  OBVIOUS
<1>1. record.state.status = "created" /\ record.state.artifacts = <<>> /\ receipts.begun = {}
  BY InitialStateType DEF Init, NoReceipts
<1> QED
  BY <1>1 DEF Promise!Init, Granted

(* The promise changes only with the record and the commands begun.        *)
LEMMA PromiseStutters ==
  ASSUME receipts'.begun = receipts.begun, record'.state.artifacts = record.state.artifacts,
         Status' = Status
  PROVE  UNCHANGED Promise!routeVars
  BY DEF Promise!routeVars, Granted, Status, Closed

(* A command is put on record: the author grants, withdraws, or neither.   *)
LEMMA SubmitPromise ==
  ASSUME IInv, NEW command \in Commands, Submit(command)
  PROVE  [Promise!Next]_(Promise!routeVars)
<1>1. receipts'.begun = receipts.begun \cup {command} /\ record' = record
  BY DEF Submit, IInv, TypeOK
<1>2. CASE command.action = "accept"
  <2>1. Granted' = Granted \cup {Accepts(command)} /\ Accepts(command) \in Drafts
    BY <1>1, <1>2, AcceptsFacts DEF Granted
  <2>2. (\E c \in receipts'.begun : c.action = "cancel") = (\E c \in receipts.begun : c.action = "cancel")
    BY <1>1, <1>2
  <2> QED
    BY <1>1, <2>1, <2>2 DEF Promise!Next, Promise!Grant
<1>3. CASE command.action = "cancel"
  <2>1. Granted' = Granted /\ \E c \in receipts'.begun : c.action = "cancel"
    BY <1>1, <1>3 DEF Granted
  <2> QED
    BY <1>1, <2>1 DEF Promise!Next, Promise!Withdraw
<1>4. CASE command.action = "regenerate"
  <2>1. Granted' = Granted
    BY <1>1, <1>4 DEF Granted
  <2>2. (\E c \in receipts'.begun : c.action = "cancel") = (\E c \in receipts.begun : c.action = "cancel")
    BY <1>1, <1>4
  <2> QED
    BY <1>1, <2>1, <2>2 DEF Promise!routeVars
<1> QED
  BY <1>2, <1>3, <1>4 DEF Commands

(* An open record catches up with the checkpoint.                          *)
LEMMA CatchUpPromise ==
  ASSUME IInv, record.state.status \notin Closed, UNCHANGED receipts,
         record'.state.artifacts = checkpoint.state.artifacts,
         record'.state.status = "completed" => Len(checkpoint.state.artifacts) = Len(Route),
         record'.state.status = "cancelled" => CancelGiven
  PROVE  Promise!Advance
<1> DEFINE told == record.state.artifacts
           held == checkpoint.state.artifacts
<1>1. Len(told) \in Nat /\ Len(held) \in Nat /\ DOMAIN held = 1 .. Len(held) /\ Len(held) <= Len(Route)
  BY StateFields DEF IInv, TypeOK, NodeInv
<1>2. Len(told) <= Len(held) /\ SubSeq(held, 1, Len(told)) = told
  BY RecordIsPrefix
<1>3. \A u \in Len(told) + 1 .. Len(held) : held[u].unit = u /\ (Route[u] \in Mandatory => held[u] \in Granted)
  BY <1>1 DEF IInv, CommittedInv
<1>4. /\ Granted' = Granted
      /\ (\E c \in receipts'.begun : c.action = "cancel") = (\E c \in receipts.begun : c.action = "cancel")
  BY DEF Granted
<1>5. Status = "open" /\ (Status' = "open" \/ (Status' = "completed" /\ Len(held) = Len(Route))
                                           \/ (Status' = "cancelled" /\ CancelGiven))
  BY DEF Status, Closed
<1> QED
  BY <1>1, <1>2, <1>3, <1>4, <1>5 DEF Promise!Advance, Status, Closed, CancelGiven

LEMMA PromiseNext == ASSUME IInv, [Next]_vars PROVE [Promise!Next]_(Promise!routeVars)
<1>1. CASE \E c \in Submittable : Submit(c)
  <2>1. Submittable \subseteq Commands
    BY DEF Submittable, Commands, IInv, TypeOK
  <2> QED
    BY <1>1, <2>1, SubmitPromise
<1>2. CASE Project
  <2>1. checkpoint.asked \/ checkpoint.state.status \in Closed
    BY <1>2 DEF Project, IInv, JobInv, NodeInv
  <2>2. record.state.status \notin Closed
    BY <1>2 DEF Project, IInv, JobInv, Entering
  <2>3. /\ record'.state.artifacts = checkpoint.state.artifacts
        /\ record'.state.status = IF checkpoint.asked THEN "awaiting_decision" ELSE checkpoint.state.status
    <3>1. checkpoint.state \in RunStates
      BY DEF IInv, TypeOK
    <3> QED
      BY <1>2, <3>1 DEF Project, RunStates
  <2>4. checkpoint.asked => checkpoint.node = "decision"
    BY DEF IInv, NodeInv
  <2>5. ~checkpoint.asked => checkpoint.node = "done"
    BY <1>2 DEF Project, IInv, JobInv
  <2>6. Promise!Advance
    BY <1>2, <2>2, <2>3, <2>5, CatchUpPromise DEF Project, IInv, NodeInv
  <2> QED
    BY <2>6 DEF Promise!Next
<1>3. CASE ProjectFailure
  <2>1. record.state.status \notin Closed /\ checkpoint.state.status = "running"
    BY <1>3 DEF ProjectFailure, IInv, JobInv, NodeInv, Entering
  <2>2. UNCHANGED receipts
    BY <1>3 DEF ProjectFailure
  <2>3. Promise!Advance
    BY <1>3, <2>1, <2>2, FailureRecord, CatchUpPromise
  <2> QED
    BY <2>3 DEF Promise!Next
<1>4. CASE \/ \E d \in Directions : Recover(d)
           \/ \E c \in repairs.begun : RetryLocally(c)
  <2>1. record.state.status = "failed" /\ record.state \in RunStates
    BY <1>4 DEF Recover, RetryLocally, BrokeContract, IInv, TypeOK
  <2>2. record'.state.artifacts = record.state.artifacts /\ record'.state.status = "running"
    <3>1. CASE \E d \in Directions : Recover(d)
      <4>1. PICK d \in Directions : Recover(d)
        BY <3>1
      <4> DEFINE stage == Stage(record.state)
                 used == Larger(record.state.attempts[stage], record.state.redrafts)
                 s1 == [record.state EXCEPT !.status = "running", !.attempts[stage] = used + 1,
                          !.redrafts = 0, !.candidate = NoDraft, !.action = "none", !.direction = d]
      <4>2. record'.state = s1
        BY <4>1 DEF Recover
      <4>3. s1.artifacts = record.state.artifacts /\ s1.status = "running"
        <5> HIDE DEF stage, used
        <5> QED
          BY <2>1 DEF RunStates
      <4> QED
        BY <4>2, <4>3
    <3>2. CASE \E c \in repairs.begun : RetryLocally(c)
      <4> DEFINE s1 == [record.state EXCEPT !.status = "running", !.candidate = NoDraft, !.action = "none"]
      <4>1. record'.state = s1
        BY <3>2 DEF RetryLocally
      <4>2. s1.artifacts = record.state.artifacts /\ s1.status = "running"
        BY <2>1 DEF RunStates
      <4> QED
        BY <4>1, <4>2
    <3> QED
      BY <1>4, <3>1, <3>2
  <2>3. UNCHANGED receipts
    BY <1>4 DEF Recover, RetryLocally
  <2> QED
    BY <2>1, <2>2, <2>3, PromiseStutters DEF Status, Closed
<1>5. CASE UNCHANGED <<record, receipts>>
  BY <1>5, PromiseStutters DEF Status
<1>6. CASE UNCHANGED record /\ receipts'.begun = receipts.begun
  BY <1>6, PromiseStutters DEF Status
<1>7. CASE \E c \in receipts.begun : SubmitAgain(c)
  BY <1>6, <1>7 DEF SubmitAgain, IInv, TypeOK
<1>8. CASE Settle \/ ReconcileConsumed
  BY <1>6, <1>8, SucceededFacts DEF Settle, ReconcileConsumed
<1>9. CASE \/ Start \/ EnterFresh \/ EnterWithCommand \/ GraphStep \/ Fault
           \/ \E id \in RepairIds : BeginRepair(id)
           \/ \E c \in repairs.begun : RepairIsPending(c) \/ ReplayRegeneration(c)
  BY <1>5, <1>9 DEF Start, EnterFresh, EnterWithCommand, GraphStep, StageStarted, Draft, DraftRejected,
     Generated, Regenerated, AutoContinue, Ask, Mismatch, Accepted, Cancelled, Commit, StageFinished,
     GraphEnds, Fault, NodeFails, Crash, BeginRepair, RepairIsPending, ReplayRegeneration
<1>10. CASE UNCHANGED vars
  BY <1>5, <1>10 DEF vars
<1> QED
  BY <1>1, <1>2, <1>3, <1>4, <1>7, <1>8, <1>9, <1>10 DEF Next, Command, Step

(* ImplementsRoute: whatever is redrafted, repaired, lost or repeated, the *)
(* author sees the promised route: units in order, decided ones granted,   *)
(* nothing taken back, and an end that stays.                              *)
THEOREM RefinesCreationRoute == Spec => ImplementsRoute
<1>1. Init => Promise!Init
  BY PromiseInit
<1>2. IInv /\ [Next]_vars => [Promise!Next]_(Promise!routeVars)
  BY PromiseNext
<1> QED
  BY <1>1, <1>2, Invariance, PTL DEF Spec, ImplementsRoute, Promise!Spec


-----------------------------------------------------------------------------
(* The redrafts that were spent.                                           *)
SameUnit == Len(record.state.artifacts) = Len(checkpoint.state.artifacts)
Settling == {"settle", "reconcile"}

(* Only a stage the author decides asks.                                   *)
AskedInv == checkpoint.asked => Stage(checkpoint.state) \in Mandatory

(* A value is for the interrupt that is active, or for the next one when   *)
(* none is listed; a decision that fails on the contract was answered.     *)
ValueInv ==
  /\ job.value = "this" => checkpoint.asked
  /\ job.value = "next" => ~checkpoint.listed
  /\ job.phase = "input" => job.value = "none"
  /\ job.phase = "failing" /\ job.failure = "contract" /\ checkpoint.node = "decision" =>
       job.value # "none"

(* A step is for the decision that is pending, or for a repair of the unit *)
(* the record is at, when none is; a repair's decision shows all that was  *)
(* spent.                                                                  *)
BoundInv ==
  /\ job.repair = NoDraft /\ job.command # NoCommand /\ job.phase \notin Settling =>
       record.pending = job.command.draft
  /\ job.repair # NoDraft /\ job.phase \notin Settling =>
       record.pending = NoDraft /\ job.repair.unit = Unit(record.state)
  /\ job.repair # NoDraft /\ record.pending # NoDraft => record.used >= record.state.redrafts

(* A pending decision that the author has not ended is still before the    *)
(* graph, which has spent as many redrafts as it shows.                    *)
Ended(draft) == \E c \in receipts.begun : c.draft = draft /\ c.action # "regenerate"
PendingInv ==
  record.pending # NoDraft =>
    /\ Route[record.pending.unit] \in Mandatory
    /\ \/ Ended(record.pending)
       \/ /\ SameUnit /\ checkpoint.node \in Drafting \cup {"started"}
          /\ checkpoint.node # "decision" => ~checkpoint.listed
          /\ record.used <= record.state.redrafts
          /\ record.used <= checkpoint.state.redrafts

(* A redraft that the record alone counts is the regeneration that failed, *)
(* and its replay will find the interrupt it answers.                      *)
LostInv ==
  BrokeContract =>
    \/ checkpoint.state.redrafts >= record.state.redrafts
    \/ /\ checkpoint.state.redrafts + 1 = record.state.redrafts
       /\ checkpoint.asked \/ ~checkpoint.listed
       /\ job.phase \in {"graph", "failing"} => job.value # "none"
       /\ job.phase # "project"

(* A repair either replays a regeneration or starts its stage again from   *)
(* the record.                                                             *)
ResumeInv ==
  /\ job.repair # NoDraft /\ job.command # NoCommand /\ job.phase \notin Settling => BrokeContract
  /\ job.repair # NoDraft /\ job.command = NoCommand /\ job.phase \in {"graph", "project"} /\ SameUnit =>
       checkpoint.state.redrafts >= record.state.redrafts

RedraftInv == AskedInv /\ ValueInv /\ BoundInv /\ PendingInv /\ LostInv /\ ResumeInv

LEMMA RedraftTypes ==
  ASSUME IInv
  PROVE  /\ record.state \in RunStates /\ checkpoint.state \in RunStates
         /\ record.state.redrafts \in Nat /\ checkpoint.state.redrafts \in Nat
         /\ record.used \in Nat /\ job \in JobType /\ checkpoint \in CheckpointType
         /\ Len(record.state.artifacts) \in Nat /\ Len(checkpoint.state.artifacts) \in Nat
         /\ Unit(record.state) = Len(record.state.artifacts) + 1
         /\ Unit(checkpoint.state) = Len(checkpoint.state.artifacts) + 1
  BY TypeParts, StateFields DEF IInv, RecordType, CheckpointType

LEMMA InitRedrafts == ASSUME Init PROVE RedraftInv
<1> USE DEF Init
<1>1. /\ record.state = InitialState /\ record.pending = NoDraft /\ record.failure = "none"
      /\ checkpoint.state = InitialState /\ checkpoint.asked = FALSE /\ checkpoint.listed = FALSE
      /\ job.value = "none" /\ job.repair = NoDraft /\ job.command = NoCommand /\ job.phase = "none"
  BY NoJobType DEF NoJob
<1> QED
  BY <1>1 DEF RedraftInv, AskedInv, ValueInv, BoundInv, PendingInv, LostInv, ResumeInv, BrokeContract

(* More commands on record take nothing back.                              *)
LEMMA EndedStays == ASSUME receipts.begun \subseteq receipts'.begun
                    PROVE  \A draft : Ended(draft) => Ended(draft)'
  BY DEF Ended

LEMMA RecordingKeepsRedrafts ==
  ASSUME RedraftInv, UNCHANGED <<record, checkpoint, job>>, receipts.begun \subseteq receipts'.begun
  PROVE  RedraftInv'
<1>1. PendingInv'
  BY EndedStays DEF RedraftInv, PendingInv, SameUnit
<1> QED
  BY <1>1 DEF RedraftInv, AskedInv, ValueInv, BoundInv, LostInv, ResumeInv, BrokeContract, SameUnit

LEMMA EndOfJobKeepsRedrafts ==
  ASSUME RedraftInv, job' = NoJob, UNCHANGED <<record, checkpoint>>, receipts.begun \subseteq receipts'.begun
  PROVE  RedraftInv'
<1>1. job'.repair = NoDraft /\ job'.command = NoCommand /\ job'.phase = "none" /\ job'.value = "none"
  BY NoJobType DEF NoJob
<1>2. PendingInv'
  BY EndedStays DEF RedraftInv, PendingInv, SameUnit
<1>3. BoundInv' /\ ResumeInv' /\ ValueInv'
  BY <1>1 DEF BoundInv, ResumeInv, ValueInv
<1>4. AskedInv' /\ LostInv'
  BY <1>1 DEF RedraftInv, AskedInv, LostInv, BrokeContract
<1> QED
  BY <1>2, <1>3, <1>4 DEF RedraftInv

(* A command of the author's begins a step without a value.                *)
LEMMA StartKeepsRedrafts ==
  ASSUME RedraftInv, IInv, UNCHANGED <<record, checkpoint>>, receipts.begun \subseteq receipts'.begun,
         job'.phase \in {"input", "bind"}, job'.value = "none", BoundInv', ResumeInv'
  PROVE  RedraftInv'
<1>1. PendingInv'
  BY EndedStays DEF RedraftInv, PendingInv, SameUnit
<1>2. AskedInv' /\ LostInv' /\ ValueInv'
  BY DEF RedraftInv, AskedInv, LostInv, ValueInv, BrokeContract
<1> QED
  BY <1>1, <1>2 DEF RedraftInv

LEMMA StartRedrafts == ASSUME IInv, RedraftInv, Start PROVE RedraftInv'
<1>1. /\ job'.phase = "input" /\ job'.value = "none" /\ job'.repair = NoDraft /\ job'.command = NoCommand
      /\ UNCHANGED <<record, checkpoint, receipts>>
  BY DEF Start, NoJob
<1>2. BoundInv' /\ ResumeInv'
  BY <1>1 DEF BoundInv, ResumeInv
<1> QED
  BY <1>1, <1>2, StartKeepsRedrafts

LEMMA SubmitRedrafts ==
  ASSUME IInv, RedraftInv, NEW command \in Commands, Submit(command) PROVE RedraftInv'
<1>1. /\ job'.phase = "bind" /\ job'.value = "none" /\ job'.repair = NoDraft /\ job'.command = command
      /\ UNCHANGED <<record, checkpoint>> /\ record.pending = command.draft
  BY DEF Submit, NoJob
<1>2. receipts.begun \subseteq receipts'.begun
  BY DEF Submit, IInv, TypeOK
<1>3. BoundInv' /\ ResumeInv'
  BY <1>1 DEF BoundInv, ResumeInv
<1> QED
  BY <1>1, <1>2, <1>3, StartKeepsRedrafts

LEMMA ReplayRedrafts ==
  ASSUME IInv, RedraftInv, NEW candidate \in repairs.begun, ReplayRegeneration(candidate)
  PROVE  RedraftInv'
<1>1. PICK command \in receipts.succeeded :
        job' = [NoJob EXCEPT !.phase = "bind", !.command = command, !.repair = candidate]
  BY DEF ReplayRegeneration
<1>2. command \in Commands /\ command.draft \in Drafts
  BY DEF IInv, TypeOK, Commands
<1>3. /\ job'.phase = "bind" /\ job'.value = "none" /\ job'.repair = candidate /\ job'.command = command
      /\ UNCHANGED <<record, checkpoint, receipts>>
  BY <1>1 DEF ReplayRegeneration, NoJob
<1>4. BrokeContract /\ record.pending = NoDraft /\ candidate.unit = Unit(record.state)
  BY DEF ReplayRegeneration, Resumes, IInv, RecordInv
<1>5. BoundInv' /\ ResumeInv'
  BY <1>3, <1>4, BegunRepair DEF BoundInv, ResumeInv, BrokeContract, Settling
<1> QED
  BY <1>3, <1>5, StartKeepsRedrafts

(* A Run set running again has no decision pending and is not broken.      *)
LEMMA RerunRedrafts ==
  ASSUME IInv, RedraftInv, UNCHANGED checkpoint, record'.pending = NoDraft, record'.failure = "none",
         job'.phase = "input", job'.value = "none", job'.command = NoCommand,
         job'.repair # NoDraft => job'.repair.unit = Unit(record'.state)
  PROVE  RedraftInv'
  BY DEF RedraftInv, AskedInv, ValueInv, BoundInv, PendingInv, LostInv, ResumeInv, BrokeContract, Entering

LEMMA RecoverRedrafts ==
  ASSUME IInv, RedraftInv, NEW direction \in Directions, Recover(direction) PROVE RedraftInv'
<1>1. /\ job'.phase = "input" /\ job'.value = "none" /\ job'.repair = NoDraft /\ job'.command = NoCommand
      /\ record'.pending = NoDraft /\ record'.failure = "none" /\ UNCHANGED checkpoint
  BY DEF Recover, NoJob
<1> QED
  BY <1>1, RerunRedrafts

LEMMA RetryLocallyRecord ==
  ASSUME IInv, NEW candidate \in repairs.begun, RetryLocally(candidate)
  PROVE  /\ record'.pending = NoDraft /\ record'.failure = "none"
         /\ record'.state.redrafts = record.state.redrafts
         /\ record'.state.artifacts = record.state.artifacts
<1>1. record.state \in RunStates
  BY RedraftTypes
<1> QED
  BY <1>1 DEF RetryLocally, RunStates

LEMMA RetryLocallyRedrafts ==
  ASSUME IInv, RedraftInv, NEW candidate \in repairs.begun, RetryLocally(candidate) PROVE RedraftInv'
<1>1. /\ job'.phase = "input" /\ job'.value = "none" /\ job'.repair = candidate /\ job'.command = NoCommand
      /\ UNCHANGED checkpoint /\ candidate.unit = Unit(record.state)
  BY DEF RetryLocally, Resumes, NoJob
<1>2. Unit(record'.state) = Unit(record.state)
  BY RetryLocallyRecord DEF Unit
<1> QED
  BY <1>1, <1>2, RetryLocallyRecord, RerunRedrafts

-----------------------------------------------------------------------------
(* Entering the graph.                                                     *)
LEMMA EnterFreshRedrafts == ASSUME IInv, RedraftInv, EnterFresh PROVE RedraftInv'
<1>1. /\ job.phase = "input" /\ job'.phase = "graph" /\ job'.value = job.value
      /\ job'.repair = job.repair /\ job'.command = job.command
      /\ UNCHANGED <<record, receipts>>
  BY RedraftTypes DEF EnterFresh, JobType
<1>2. /\ checkpoint'.node = "started" /\ checkpoint'.state = record.state
      /\ checkpoint'.asked = FALSE /\ checkpoint'.listed = FALSE
  BY DEF EnterFresh
<1>3. record.state.redrafts \in Nat /\ record.state.status # "failed"
  BY <1>1, RedraftTypes DEF IInv, JobInv
<1>4. PendingInv'
  BY <1>1, <1>2, EndedStays DEF RedraftInv, PendingInv, SameUnit
<1>5. AskedInv' /\ ValueInv' /\ LostInv'
  BY <1>1, <1>2, <1>3 DEF RedraftInv, AskedInv, ValueInv, LostInv, BrokeContract
<1>6. BoundInv'
  BY <1>1 DEF RedraftInv, BoundInv, Settling
<1>7. ResumeInv'
  BY <1>1, <1>2, <1>3 DEF RedraftInv, ResumeInv, BrokeContract, Settling
<1> QED
  BY <1>4, <1>5, <1>6, <1>7 DEF RedraftInv

LEMMA EnterWithCommandRedrafts == ASSUME IInv, RedraftInv, EnterWithCommand PROVE RedraftInv'
<1>1. /\ job.phase = "bind" /\ job'.phase = "graph"
      /\ job'.repair = job.repair /\ job'.command = job.command
      /\ job'.value = IF checkpoint.asked THEN "this" ELSE IF checkpoint.listed THEN "none" ELSE "next"
      /\ UNCHANGED <<record, checkpoint, receipts>>
  BY RedraftTypes DEF EnterWithCommand, JobType
<1>2. AskedInv' /\ PendingInv'
  BY <1>1, EndedStays DEF RedraftInv, AskedInv, PendingInv, SameUnit
<1>3. ValueInv' /\ BoundInv'
  BY <1>1 DEF RedraftInv, ValueInv, BoundInv, Settling
<1>4. LostInv'
  BY <1>1 DEF RedraftInv, LostInv, BrokeContract
<1>5. ResumeInv'
  <2>1. job.repair # NoDraft => BrokeContract /\ job.command # NoCommand
    BY <1>1 DEF IInv, RepairInv, Entering, NoCommand
  <2> QED
    BY <1>1, <2>1 DEF ResumeInv, BrokeContract
<1> QED
  BY <1>2, <1>3, <1>4, <1>5 DEF RedraftInv

-----------------------------------------------------------------------------
(* The nodes of a stage.                                                   *)

(* A node that leaves its unit, its record and its job as they were: what  *)
(* has to be shown of the next node and of the redrafts.                   *)
LEMMA NodeKeepsRedrafts ==
  ASSUME IInv, RedraftInv, job.phase = "graph", job'.phase = "graph",
         job'.command = job.command, job'.repair = job.repair,
         job'.value \in {"none", job.value}, job.value = "this" => job'.value = "none",
         UNCHANGED <<record, receipts>>,
         checkpoint'.asked = FALSE, checkpoint'.listed = checkpoint.listed,
         checkpoint'.state.artifacts = checkpoint.state.artifacts,
         checkpoint'.state.redrafts \in Nat,
         \/ /\ checkpoint'.state.redrafts = checkpoint.state.redrafts
            /\ job'.value = job.value /\ checkpoint.asked = FALSE
            /\ checkpoint'.node \in Drafting
            /\ checkpoint'.node = "generate" => checkpoint.node = "started"
         \/ /\ checkpoint'.state.redrafts = checkpoint.state.redrafts + 1
            /\ checkpoint'.node = "decision"
         \/ /\ record.pending # NoDraft => Ended(record.pending)
            /\ ~BrokeContract
            /\ ~(job.repair # NoDraft /\ job.command = NoCommand /\ SameUnit)
  PROVE  RedraftInv'
<1>1. Stage(checkpoint'.state) = Stage(checkpoint.state) /\ SameUnit' = SameUnit
  BY DEF Stage, Unit, SameUnit
<1>2. checkpoint.state.redrafts \in Nat /\ record.state.redrafts \in Nat /\ record.used \in Nat
  BY RedraftTypes
<1>3. AskedInv' /\ ValueInv' /\ BoundInv'
  BY DEF RedraftInv, AskedInv, ValueInv, BoundInv
<1>4. PendingInv'
  BY <1>1, <1>2, EndedStays DEF RedraftInv, PendingInv, Drafting
<1>5. LostInv'
  BY <1>2 DEF RedraftInv, LostInv, BrokeContract
<1>6. ResumeInv'
  BY <1>1, <1>2 DEF RedraftInv, ResumeInv, BrokeContract
<1> QED
  BY <1>3, <1>4, <1>5, <1>6 DEF RedraftInv

LEMMA StageStartedRedrafts == ASSUME IInv, RedraftInv, StageStarted PROVE RedraftInv'
<1>1. /\ job.phase = "graph" /\ checkpoint.node = "started" /\ checkpoint.asked = FALSE
      /\ UNCHANGED <<record, receipts, job>>
  BY RedraftTypes DEF StageStarted, Running, IInv, NodeInv, CheckpointType
<1>2. /\ checkpoint'.node = "generate" /\ checkpoint'.asked = FALSE
      /\ checkpoint'.listed = checkpoint.listed
      /\ checkpoint'.state.artifacts = checkpoint.state.artifacts
      /\ checkpoint'.state.redrafts = checkpoint.state.redrafts
  BY RedraftTypes DEF StageStarted, Move, CheckpointType, RunStates
<1>3. job.value # "this"
  BY <1>1 DEF RedraftInv, ValueInv
<1> QED
  BY <1>1, <1>2, <1>3, RedraftTypes, NodeKeepsRedrafts DEF Drafting

LEMMA GeneratedRedrafts == ASSUME IInv, RedraftInv, NEW draft, Generated(draft) PROVE RedraftInv'
<1>1. /\ job.phase = "graph" /\ checkpoint.node = "generate" /\ checkpoint.asked = FALSE
      /\ job' = Spend /\ UNCHANGED <<record, receipts>>
  BY RedraftTypes DEF Generated, Running, IInv, NodeInv, CheckpointType
<1>2. /\ checkpoint'.node = "decision" /\ checkpoint'.asked = FALSE
      /\ checkpoint'.listed = checkpoint.listed
      /\ checkpoint'.state.artifacts = checkpoint.state.artifacts
      /\ checkpoint'.state.redrafts = checkpoint.state.redrafts
  BY RedraftTypes DEF Generated, Move, CheckpointType, RunStates
<1>3. job'.phase = "graph" /\ job'.value = job.value /\ job'.repair = job.repair /\ job'.command = job.command
  BY <1>1, RedraftTypes DEF Spend, JobType
<1>4. job.value # "this"
  BY <1>1 DEF RedraftInv, ValueInv
<1> QED
  BY <1>1, <1>2, <1>3, <1>4, RedraftTypes, NodeKeepsRedrafts DEF Drafting

LEMMA RegeneratedRedrafts == ASSUME IInv, RedraftInv, NEW draft, Regenerated(draft) PROVE RedraftInv'
<1>1. job.phase = "graph" /\ job' = [Spend EXCEPT !.value = "none"] /\ UNCHANGED <<record, receipts>>
  BY AnsweredFacts DEF Regenerated
<1>2. /\ checkpoint'.node = "decision" /\ checkpoint'.asked = FALSE
      /\ checkpoint'.listed = checkpoint.listed
      /\ checkpoint'.state.artifacts = checkpoint.state.artifacts
      /\ checkpoint'.state.redrafts = checkpoint.state.redrafts + 1
  BY RedraftTypes DEF Regenerated, Move, CheckpointType, RunStates
<1>3. job'.phase = "graph" /\ job'.value = "none" /\ job'.repair = job.repair /\ job'.command = job.command
  BY <1>1, RedraftTypes DEF Spend, JobType
<1>4. checkpoint'.state.redrafts \in Nat
  BY <1>2, RedraftTypes
<1> QED
  BY <1>1, <1>2, <1>3, <1>4, NodeKeepsRedrafts

(* A repair waits at the unit of its own, which the author decides.        *)
LEMMA RepairedStage ==
  ASSUME IInv, RedraftInv, job.phase \notin Settling, job.repair # NoDraft, SameUnit
  PROVE  Stage(checkpoint.state) \in Mandatory
<1>1. job.repair \in repairs.begun /\ Route[job.repair.unit] \in Mandatory
  BY BegunRepair DEF IInv, TypeOK
<1>2. job.repair.unit = Unit(checkpoint.state)
  BY DEF RedraftInv, BoundInv, SameUnit, Unit
<1> QED
  BY <1>1, <1>2 DEF Stage

LEMMA AutoContinueRedrafts == ASSUME IInv, RedraftInv, AutoContinue PROVE RedraftInv'
<1>1. /\ job.phase = "graph" /\ checkpoint.node = "decision"
      /\ Stage(checkpoint.state) \notin Mandatory
      /\ UNCHANGED <<record, receipts, job>>
  BY DEF AutoContinue, Running, Deciding
<1>2. /\ checkpoint'.asked = FALSE
      /\ checkpoint'.listed = checkpoint.listed
      /\ checkpoint'.state.artifacts = checkpoint.state.artifacts
      /\ checkpoint'.state.redrafts = 0
  BY RedraftTypes DEF AutoContinue, Move, CheckpointType, RunStates
<1>3. job.value # "this"
  BY <1>1 DEF RedraftInv, ValueInv, AskedInv
<1>4. ~BrokeContract /\ ~(job.repair # NoDraft /\ SameUnit)
  BY <1>1, RepairStage, RepairedStage DEF Settling
<1>5. record.pending # NoDraft => Ended(record.pending)
  BY <1>1 DEF RedraftInv, PendingInv, SameUnit, IInv, RecordInv, Stage, Unit
<1>6. 0 \in Nat
  OBVIOUS
<1> QED
  BY <1>1, <1>2, <1>3, <1>4, <1>5, <1>6, NodeKeepsRedrafts

(* The author's answer ends the decision that is pending.                  *)
LEMMA AnswerEnds ==
  ASSUME IInv, RedraftInv, NEW action \in {"accept", "cancel"}, Answered(action)
  PROVE  /\ job.phase = "graph"
         /\ record.pending # NoDraft => Ended(record.pending)
         /\ ~BrokeContract /\ job.command # NoCommand
<1>1. /\ job.phase = "graph" /\ job.command \in receipts.begun /\ job.command \in Commands
      /\ job.command.action = action
  BY AnsweredFacts
<1>2. job.command # NoCommand
  BY <1>1 DEF NoCommand
<1>3. record.pending # NoDraft => record.pending = job.command.draft
  BY <1>1, <1>2 DEF RedraftInv, BoundInv, Settling
<1>4. ~BrokeContract
  BY <1>1 DEF IInv, RepairInv, Entering
<1> QED
  BY <1>1, <1>2, <1>3, <1>4 DEF Ended

LEMMA AcceptedRedrafts == ASSUME IInv, RedraftInv, Accepted PROVE RedraftInv'
<1>1. UNCHANGED <<record, receipts>> /\ job' = [job EXCEPT !.value = "none"]
  BY DEF Accepted
<1>2. /\ checkpoint'.asked = FALSE
      /\ checkpoint'.listed = checkpoint.listed
      /\ checkpoint'.state.artifacts = checkpoint.state.artifacts
      /\ checkpoint'.state.redrafts = 0
  BY RedraftTypes DEF Accepted, Move, CheckpointType, RunStates
<1>3. job'.phase = job.phase /\ job'.value = "none" /\ job'.repair = job.repair /\ job'.command = job.command
  BY <1>1, RedraftTypes DEF JobType
<1>4. /\ job.phase = "graph" /\ ~BrokeContract /\ job.command # NoCommand
      /\ record.pending # NoDraft => Ended(record.pending)
  BY AnswerEnds DEF Accepted
<1>5. 0 \in Nat
  OBVIOUS
<1> QED
  BY <1>1, <1>2, <1>3, <1>4, <1>5, NodeKeepsRedrafts

LEMMA CancelledRedrafts == ASSUME IInv, RedraftInv, Cancelled PROVE RedraftInv'
<1>1. UNCHANGED <<record, receipts>> /\ job' = [job EXCEPT !.value = "none"]
  BY DEF Cancelled
<1>2. /\ checkpoint'.asked = FALSE
      /\ checkpoint'.listed = checkpoint.listed
      /\ checkpoint'.state.artifacts = checkpoint.state.artifacts
      /\ checkpoint'.state.redrafts = 0
  BY RedraftTypes DEF Cancelled, Move, CheckpointType, RunStates
<1>3. job'.phase = job.phase /\ job'.value = "none" /\ job'.repair = job.repair /\ job'.command = job.command
  BY <1>1, RedraftTypes DEF JobType
<1>4. /\ job.phase = "graph" /\ ~BrokeContract /\ job.command # NoCommand
      /\ record.pending # NoDraft => Ended(record.pending)
  BY AnswerEnds DEF Cancelled
<1>5. 0 \in Nat
  OBVIOUS
<1> QED
  BY <1>1, <1>2, <1>3, <1>4, <1>5, NodeKeepsRedrafts

LEMMA CommitRedrafts == ASSUME IInv, RedraftInv, Commit PROVE RedraftInv'
<1>1. /\ job.phase = "graph" /\ checkpoint.node = "commit" /\ UNCHANGED <<record, receipts, job>>
  BY DEF Commit, Running
<1>2. /\ checkpoint'.asked = FALSE /\ checkpoint'.listed = checkpoint.listed
      /\ checkpoint'.state.artifacts = Append(checkpoint.state.artifacts, checkpoint.state.candidate)
  BY RedraftTypes DEF Commit, Move, CheckpointType, RunStates
<1>3. ~BrokeContract /\ ~SameUnit' /\ job.value # "this"
  <2>1. checkpoint.asked = FALSE
    BY <1>1, RedraftTypes DEF IInv, NodeInv, CheckpointType
  <2>2. Len(checkpoint'.state.artifacts) = Len(checkpoint.state.artifacts) + 1
    BY <1>2, RedraftTypes, StateFields
  <2>3. ~SameUnit'
    BY <1>1, <2>2, RedraftTypes DEF SameUnit, IInv, RecordInv
  <2> QED
    BY <1>1, <2>1, <2>3 DEF RedraftInv, ValueInv, IInv, RecordInv, Drafting
<1>4. record.pending # NoDraft => Ended(record.pending)
  BY <1>1 DEF RedraftInv, PendingInv, Drafting
<1>5. AskedInv' /\ ValueInv' /\ BoundInv'
  BY <1>1, <1>2, <1>3 DEF RedraftInv, AskedInv, ValueInv, BoundInv
<1>6. PendingInv'
  BY <1>1, <1>4, EndedStays DEF RedraftInv, PendingInv
<1>7. LostInv' /\ ResumeInv'
  BY <1>1, <1>3 DEF RedraftInv, LostInv, ResumeInv, BrokeContract
<1> QED
  BY <1>5, <1>6, <1>7 DEF RedraftInv

LEMMA StageFinishedRedrafts == ASSUME IInv, RedraftInv, StageFinished PROVE RedraftInv'
<1>1. /\ job.phase = "graph" /\ checkpoint.node = "finished" /\ UNCHANGED <<record, receipts>>
  BY DEF StageFinished, Running
<1>2. /\ checkpoint'.asked = checkpoint.asked /\ checkpoint'.listed = FALSE
      /\ checkpoint'.state.artifacts = checkpoint.state.artifacts
      /\ checkpoint'.state.redrafts = checkpoint.state.redrafts
  BY RedraftTypes DEF StageFinished, CheckpointType, RunStates
<1>3. /\ job'.phase = "graph" /\ job'.repair = job.repair /\ job'.command = job.command
      /\ job'.value \in {"none", job.value}
  BY <1>1, RedraftTypes DEF StageFinished, JobType
<1>4. ~BrokeContract /\ checkpoint.asked = FALSE
  BY <1>1, RedraftTypes DEF IInv, RecordInv, NodeInv, Drafting, CheckpointType
<1>5. record.pending # NoDraft => Ended(record.pending)
  BY <1>1 DEF RedraftInv, PendingInv, Drafting
<1>6. AskedInv' /\ ValueInv' /\ BoundInv'
  BY <1>1, <1>2, <1>3, <1>4 DEF RedraftInv, AskedInv, ValueInv, BoundInv, Settling
<1>7. PendingInv'
  BY <1>1, <1>5, EndedStays DEF RedraftInv, PendingInv
<1>8. LostInv' /\ ResumeInv'
  BY <1>1, <1>2, <1>3, <1>4 DEF RedraftInv, LostInv, ResumeInv, BrokeContract, SameUnit, Settling
<1> QED
  BY <1>6, <1>7, <1>8 DEF RedraftInv

LEMMA AskRedrafts == ASSUME IInv, RedraftInv, Ask PROVE RedraftInv'
<1>1. /\ job.phase = "graph" /\ checkpoint.node = "decision" /\ job.value = "none"
      /\ Stage(checkpoint.state) \in Mandatory /\ UNCHANGED <<record, receipts>>
  BY DEF Ask, Deciding, Running, HasAnswer
<1>2. /\ checkpoint'.node = "decision" /\ checkpoint'.state = checkpoint.state
  BY <1>1, RedraftTypes DEF Ask, CheckpointType
<1>3. /\ job'.phase = "project" /\ job'.value = "none"
      /\ job'.repair = job.repair /\ job'.command = job.command
  BY <1>1, RedraftTypes DEF Ask, JobType
<1>4. AskedInv' /\ ValueInv' /\ BoundInv'
  BY <1>1, <1>2, <1>3 DEF RedraftInv, AskedInv, ValueInv, BoundInv, Settling
<1>5. PendingInv'
  BY <1>1, <1>2, EndedStays DEF RedraftInv, PendingInv, SameUnit
<1>6. LostInv' /\ ResumeInv'
  BY <1>1, <1>2, <1>3 DEF RedraftInv, LostInv, ResumeInv, BrokeContract, SameUnit, Settling
<1> QED
  BY <1>4, <1>5, <1>6 DEF RedraftInv

LEMMA GraphEndsRedrafts == ASSUME IInv, RedraftInv, GraphEnds PROVE RedraftInv'
<1>1. /\ job.phase = "graph" /\ checkpoint.node = "done" /\ UNCHANGED <<record, receipts, checkpoint>>
  BY DEF GraphEnds, Running
<1>2. /\ job'.phase = "project" /\ job'.value = job.value
      /\ job'.repair = job.repair /\ job'.command = job.command
  BY <1>1, RedraftTypes DEF GraphEnds, JobType
<1>3. AskedInv' /\ ValueInv' /\ BoundInv'
  BY <1>1, <1>2 DEF RedraftInv, AskedInv, ValueInv, BoundInv, Settling
<1>4. PendingInv'
  BY <1>1, EndedStays DEF RedraftInv, PendingInv, SameUnit
<1>5. LostInv' /\ ResumeInv'
  BY <1>1, <1>2 DEF RedraftInv, LostInv, ResumeInv, BrokeContract, SameUnit, Settling,
                    IInv, RecordInv, Drafting
<1> QED
  BY <1>3, <1>4, <1>5 DEF RedraftInv

LEMMA FailRedrafts ==
  ASSUME IInv, RedraftInv, NEW failure \in Failures, Fail(failure), job.phase = "graph",
         failure = "contract" /\ checkpoint.node = "decision" => job.value # "none",
         UNCHANGED <<record, checkpoint, receipts>>
  PROVE  RedraftInv'
<1>1. /\ job'.phase = "failing" /\ job'.value = job.value /\ job'.failure = failure
      /\ job'.repair = job.repair /\ job'.command = job.command
  BY RedraftTypes DEF Fail, JobType
<1>2. AskedInv' /\ ValueInv' /\ BoundInv'
  BY <1>1 DEF RedraftInv, AskedInv, ValueInv, BoundInv, Settling
<1>3. PendingInv'
  BY EndedStays DEF RedraftInv, PendingInv, SameUnit
<1>4. LostInv' /\ ResumeInv'
  BY <1>1 DEF RedraftInv, LostInv, ResumeInv, BrokeContract, Settling
<1> QED
  BY <1>2, <1>3, <1>4 DEF RedraftInv

LEMMA DraftRejectedRedrafts ==
  ASSUME IInv, RedraftInv, NEW direction \in Directions \cup {NoDirection}, DraftRejected(direction)
  PROVE  RedraftInv'
<1>1. job.phase = "graph" /\ (checkpoint.node = "decision" => job.value # "none")
  BY DEF DraftRejected, Calls, Running, Answered, Deciding, HasAnswer
<1> QED
  BY <1>1, FailRedrafts DEF DraftRejected, Failures

LEMMA MismatchRedrafts == ASSUME IInv, RedraftInv, Mismatch PROVE RedraftInv'
  BY FailRedrafts DEF Mismatch, Failures, Deciding, Running

LEMMA NodeFailsRedrafts ==
  ASSUME IInv, RedraftInv, NEW failure \in {"transport", "other"}, NodeFails(failure) PROVE RedraftInv'
<1>1. job.phase = "graph"
  BY DEF NodeFails, Running
<1> QED
  BY <1>1, FailRedrafts DEF NodeFails, Failures

-----------------------------------------------------------------------------
(* Leaving the graph.                                                      *)
LEMMA ProjectRecord ==
  ASSUME IInv, Project
  PROVE  /\ record'.state.artifacts = checkpoint.state.artifacts
         /\ record'.state.redrafts = checkpoint.state.redrafts
         /\ record'.failure = "none"
         /\ record'.pending # NoDraft =>
              /\ checkpoint.asked /\ checkpoint.node = "decision"
              /\ record'.pending = checkpoint.state.candidate
              /\ record'.pending.unit = Unit(checkpoint.state)
              /\ record'.used = checkpoint.state.redrafts
<1>1. /\ record'.state.artifacts = checkpoint.state.artifacts
      /\ record'.state.redrafts = checkpoint.state.redrafts
      /\ record'.failure = "none"
  BY RedraftTypes DEF Project, RunStates
<1>2. record'.pending # NoDraft =>
        /\ checkpoint.asked
        /\ record'.pending = checkpoint.state.candidate
        /\ record'.used = checkpoint.state.redrafts
  BY DEF Project
<1>3. checkpoint.asked => checkpoint.node = "decision" /\ checkpoint.state.candidate.unit = Unit(checkpoint.state)
  BY DEF IInv, NodeInv, CandidateInv
<1> QED
  BY <1>1, <1>2, <1>3

LEMMA ProjectRedrafts == ASSUME IInv, RedraftInv, Project PROVE RedraftInv'
<1>1. job.phase = "project" /\ UNCHANGED <<checkpoint, receipts>>
  BY DEF Project
<1>2. /\ job'.phase = "settle" /\ job'.value = job.value
      /\ job'.repair = job.repair /\ job'.command = job.command
  BY RedraftTypes DEF Project, JobType
<1>3. checkpoint.state.redrafts \in Nat
  BY RedraftTypes
<1>4. AskedInv' /\ ValueInv' /\ ResumeInv' /\ LostInv'
  BY <1>1, <1>2, ProjectRecord DEF RedraftInv, AskedInv, ValueInv, ResumeInv, LostInv, BrokeContract, Settling
<1>5. BoundInv'
  BY <1>2, <1>3, ProjectRecord DEF BoundInv, Settling
<1>6. PendingInv'
  BY <1>1, <1>3, ProjectRecord DEF RedraftInv, AskedInv, PendingInv, SameUnit, Drafting, Stage
<1> QED
  BY <1>4, <1>5, <1>6 DEF RedraftInv

(* What a failure leaves of the redrafts: a retryable one those of the     *)
(* checkpoint, any other at most one more, when it ends a regeneration of  *)
(* the decision that was pending.                                          *)
LEMMA FailureRedrafts ==
  ASSUME IInv, ProjectFailure
  PROVE  /\ job.failure = "transport" => record'.state.redrafts = checkpoint.state.redrafts
         /\ record'.pending # NoDraft => record'.used = record.used
         /\ \/ record'.state.redrafts = checkpoint.state.redrafts
            \/ /\ job.command.action = "regenerate" /\ record.pending = job.command.draft
               /\ record'.state.redrafts = Larger(checkpoint.state.redrafts, record.used + 1)
  BY RedraftTypes DEF ProjectFailure, RunStates

LEMMA RegenerationLost ==
  ASSUME IInv, RedraftInv, ProjectFailure, BrokeContract'
  PROVE  \/ checkpoint.state.redrafts >= record'.state.redrafts
         \/ /\ checkpoint.state.redrafts + 1 = record'.state.redrafts
            /\ checkpoint.asked \/ ~checkpoint.listed
<1>1. job.phase = "failing" /\ job.failure = "contract"
  BY FailureRecord DEF ProjectFailure, BrokeContract
<1>2. checkpoint.state.redrafts \in Nat /\ record.used \in Nat /\ job \in JobType
  BY RedraftTypes
<1>3. CASE record'.state.redrafts = checkpoint.state.redrafts
  BY <1>2, <1>3
<1>4. CASE /\ job.command.action = "regenerate" /\ record.pending = job.command.draft
           /\ record'.state.redrafts = Larger(checkpoint.state.redrafts, record.used + 1)
  <2>1. job.command # NoCommand
    BY <1>4 DEF NoCommand
  <2>2. job.command \in receipts.begun /\ job.command \in Commands
    BY <2>1 DEF IInv, TypeOK, JobInv
  <2>3. record.pending # NoDraft
    BY <1>4, <2>2, NoDraftAssumption DEF Commands
  <2>4. ~Ended(record.pending)
    BY <1>4, <2>2 DEF Ended, IInv, TypeOK
  <2>5. /\ checkpoint.node # "decision" => ~checkpoint.listed
        /\ record.used <= checkpoint.state.redrafts
    BY <2>3, <2>4 DEF RedraftInv, PendingInv
  <2>6. checkpoint.asked \/ ~checkpoint.listed
    BY <1>1, <1>2, <2>5 DEF RedraftInv, ValueInv, JobType
  <2> QED
    BY <1>2, <1>4, <2>5, <2>6 DEF Larger
<1> QED
  BY <1>3, <1>4, FailureRedrafts

LEMMA ProjectFailureRedrafts == ASSUME IInv, RedraftInv, ProjectFailure PROVE RedraftInv'
<1>1. job.phase = "failing" /\ UNCHANGED <<checkpoint, receipts>>
  BY DEF ProjectFailure
<1>2. /\ job'.phase = "reconcile" /\ job'.value = job.value
      /\ job'.repair = job.repair /\ job'.command = job.command
  BY RedraftTypes DEF ProjectFailure, JobType
<1>3. AskedInv' /\ ValueInv' /\ ResumeInv'
  BY <1>1, <1>2 DEF RedraftInv, AskedInv, ValueInv, ResumeInv, Settling
<1>4. LostInv'
  BY <1>1, <1>2, RegenerationLost DEF LostInv
<1>5. BoundInv'
  BY <1>1, <1>2, FailureRecord DEF RedraftInv, BoundInv, Settling
<1>6. ASSUME record'.pending # NoDraft
      PROVE  /\ record'.pending = record.pending /\ record'.used = record.used /\ SameUnit /\ SameUnit'
             /\ record'.state.redrafts = checkpoint.state.redrafts
  BY <1>1, <1>6, FailureRecord, FailureRedrafts DEF SameUnit
<1>7. PendingInv'
  BY <1>1, <1>6, EndedStays DEF RedraftInv, PendingInv
<1> QED
  BY <1>3, <1>4, <1>5, <1>7 DEF RedraftInv

-----------------------------------------------------------------------------
LEMMA CommandRedrafts == ASSUME IInv, RedraftInv, Command PROVE RedraftInv'
<1>1. Submittable \subseteq Commands
  BY DEF Submittable, Commands, IInv, TypeOK
<1>2. CASE Start \/ \E c \in Submittable : Submit(c)
  BY <1>1, <1>2, StartRedrafts, SubmitRedrafts
<1>3. CASE \E c \in receipts.begun : SubmitAgain(c)
  <2>1. UNCHANGED <<record, checkpoint, job>> /\ receipts.begun \subseteq receipts'.begun
    BY <1>3 DEF SubmitAgain, IInv, TypeOK
  <2> QED
    BY <2>1, RecordingKeepsRedrafts
<1>4. CASE \E d \in Directions : Recover(d)
  BY <1>4, RecoverRedrafts
<1>5. CASE \E id \in RepairIds : BeginRepair(id)
  BY <1>5, RecordingKeepsRedrafts DEF BeginRepair
<1>6. CASE \E c \in repairs.begun : RepairIsPending(c)
  BY <1>6, RecordingKeepsRedrafts DEF RepairIsPending
<1>7. CASE \E c \in repairs.begun : ReplayRegeneration(c) \/ RetryLocally(c)
  BY <1>7, ReplayRedrafts, RetryLocallyRedrafts
<1> QED
  BY <1>2, <1>3, <1>4, <1>5, <1>6, <1>7 DEF Command

LEMMA GraphStepRedrafts == ASSUME IInv, RedraftInv, GraphStep PROVE RedraftInv'
<1>1. CASE \E d \in Directions \cup {NoDirection} : Draft(d)
  BY <1>1, RecordingKeepsRedrafts DEF Draft
<1>2. CASE \E d \in Directions \cup {NoDirection} : DraftRejected(d)
  BY <1>2, DraftRejectedRedrafts
<1>3. CASE \E draft \in drafted \cup rejected \cup repairs.begun : Generated(draft) \/ Regenerated(draft)
  BY <1>3, GeneratedRedrafts, RegeneratedRedrafts
<1>4. CASE StageStarted \/ AutoContinue \/ Ask \/ Mismatch
  BY <1>4, StageStartedRedrafts, AutoContinueRedrafts, AskRedrafts, MismatchRedrafts
<1>5. CASE Accepted \/ Cancelled \/ Commit \/ StageFinished \/ GraphEnds
  BY <1>5, AcceptedRedrafts, CancelledRedrafts, CommitRedrafts, StageFinishedRedrafts, GraphEndsRedrafts
<1> QED
  BY <1>1, <1>2, <1>3, <1>4, <1>5 DEF GraphStep

LEMMA NextRedrafts == ASSUME IInv, RedraftInv, [Next]_vars PROVE RedraftInv'
<1>1. CASE Command
  BY <1>1, CommandRedrafts
<1>2. CASE EnterFresh \/ EnterWithCommand \/ GraphStep \/ Project \/ ProjectFailure
  BY <1>2, EnterFreshRedrafts, EnterWithCommandRedrafts, GraphStepRedrafts, ProjectRedrafts,
     ProjectFailureRedrafts
<1>3. CASE Settle \/ ReconcileConsumed
  <2>1. /\ job' = NoJob /\ UNCHANGED <<record, checkpoint>>
        /\ receipts' = receipts \/ receipts' = Succeeded(job.command)
    BY <1>3 DEF Settle, ReconcileConsumed
  <2> QED
    BY <2>1, SucceededFacts, EndOfJobKeepsRedrafts
<1>4. CASE \E failure \in {"transport", "other"} : NodeFails(failure)
  BY <1>4, NodeFailsRedrafts
<1>5. CASE Crash
  BY <1>5, EndOfJobKeepsRedrafts DEF Crash
<1>6. CASE UNCHANGED vars
  BY <1>6, RecordingKeepsRedrafts DEF vars
<1> QED
  BY <1>1, <1>2, <1>3, <1>4, <1>5, <1>6 DEF Next, Step, Fault

LEMMA RedraftInvariance == Spec => [](IInv /\ RedraftInv)
<1>1. Init => IInv /\ RedraftInv
  BY InitIInv, InitRedrafts
<1>2. IInv /\ RedraftInv /\ [Next]_vars => (IInv /\ RedraftInv)'
  BY NextIInv, NextRedrafts
<1> QED
  BY <1>1, <1>2, PTL DEF Spec

(* Which steps change the repair a job is for, and which change the record. *)
LEMMA RepairChanges ==
  ASSUME IInv, [Next]_vars
  PROVE  \/ \E c \in repairs.begun : ReplayRegeneration(c) \/ RetryLocally(c)
         \/ job'.repair \in {job.repair, NoDraft}
<1>1. job \in JobType
  BY RedraftTypes
<1>2. \A phase : [job EXCEPT !.phase = phase].repair = job.repair
  BY <1>1 DEF JobType
<1>3. CASE Start \/ (\E c \in Submittable : Submit(c)) \/ (\E d \in Directions : Recover(d))
  BY <1>3 DEF Start, Submit, Recover, NoJob
<1>4. CASE \/ \E c \in receipts.begun : SubmitAgain(c)
           \/ \E id \in RepairIds : BeginRepair(id)
           \/ \E c \in repairs.begun : RepairIsPending(c)
           \/ \E d \in Directions \cup {NoDirection} : Draft(d)
           \/ StageStarted \/ AutoContinue \/ Commit \/ UNCHANGED vars
  BY <1>4 DEF SubmitAgain, BeginRepair, RepairIsPending, Draft, StageStarted, AutoContinue, Commit, vars
<1>5. CASE Settle \/ ReconcileConsumed \/ Crash
  BY <1>5, NoJobType DEF Settle, ReconcileConsumed, Crash
<1>6. CASE EnterFresh \/ EnterWithCommand \/ Ask \/ GraphEnds \/ Project \/ ProjectFailure
  BY <1>1, <1>6 DEF JobType, EnterFresh, EnterWithCommand, Ask, GraphEnds, Project, ProjectFailure
<1>7. CASE \/ \E d \in Directions \cup {NoDirection} : DraftRejected(d)
           \/ Mismatch
           \/ \E failure \in {"transport", "other"} : NodeFails(failure)
  BY <1>1, <1>7 DEF JobType, DraftRejected, Mismatch, NodeFails, Fail
<1>8. CASE \/ \E draft \in drafted \cup rejected \cup repairs.begun : Generated(draft) \/ Regenerated(draft)
           \/ Accepted \/ Cancelled \/ StageFinished
  BY <1>8, JobSteps DEF Generated, Regenerated, Accepted, Cancelled, StageFinished
<1> QED
  BY <1>3, <1>4, <1>5, <1>6, <1>7, <1>8 DEF Next, Command, GraphStep, Step, Fault

LEMMA RecordChanges ==
  ASSUME [Next]_vars
  PROVE  \/ \E d \in Directions : Recover(d)
         \/ \E c \in repairs.begun : RetryLocally(c)
         \/ Project \/ ProjectFailure
         \/ UNCHANGED record
<1>1. CASE Command
  BY <1>1 DEF Command, Start, Submit, SubmitAgain, BeginRepair, RepairIsPending, ReplayRegeneration
<1>2. CASE GraphStep
  BY <1>2 DEF GraphStep, StageStarted, Draft, DraftRejected, Generated, Regenerated, AutoContinue, Ask,
              Mismatch, Accepted, Cancelled, Commit, StageFinished, GraphEnds
<1>3. CASE EnterFresh \/ EnterWithCommand \/ Settle \/ ReconcileConsumed \/ Fault \/ UNCHANGED vars
  BY <1>3 DEF EnterFresh, EnterWithCommand, Settle, ReconcileConsumed, Fault, NodeFails, Crash, vars
<1> QED
  BY <1>1, <1>2, <1>3 DEF Next, Step

(* The resumption of a repair takes no redraft off the record.             *)
LEMMA ResumingKeepsRedrafts ==
  ASSUME IInv, [Next]_vars, job.repair = NoDraft, job'.repair # NoDraft
  PROVE  record'.state.redrafts >= record.state.redrafts
<1>1. record.state.redrafts \in Nat
  BY RedraftTypes
<1>2. PICK c \in repairs.begun : ReplayRegeneration(c) \/ RetryLocally(c)
  BY RepairChanges
<1>3. record'.state.redrafts = record.state.redrafts
  BY <1>2, RetryLocallyRecord DEF ReplayRegeneration
<1> QED
  BY <1>1, <1>3

(* The decision on a repair's candidate shows every redraft on record.     *)
LEMMA RepairDecisionKeepsRedrafts ==
  ASSUME IInv, RedraftInv, [Next]_vars, job.repair # NoDraft, record'.pending = job.repair
  PROVE  record'.used >= record.state.redrafts
<1>1. CASE UNCHANGED record
  BY <1>1 DEF RedraftInv, BoundInv
<1>2. CASE Project
  <2>1. /\ record'.pending.unit = Unit(checkpoint.state) /\ record'.used = checkpoint.state.redrafts
        /\ job.phase = "project"
    BY <1>2, ProjectRecord DEF Project
  <2>2. job.repair.unit = Unit(record.state)
    BY <2>1 DEF RedraftInv, BoundInv, Settling
  <2>3. SameUnit
    BY <2>1, <2>2, RedraftTypes DEF SameUnit
  <2>4. checkpoint.state.redrafts >= record.state.redrafts
    BY <2>1, <2>3 DEF RedraftInv, LostInv, ResumeInv, Settling
  <2> QED
    BY <2>1, <2>4
<1>3. CASE ProjectFailure
  <2>1. record.pending = job.repair
    BY <1>3, FailureRecord
  <2> QED
    BY <1>3, <2>1 DEF RedraftInv, BoundInv, ProjectFailure, Settling
<1>4. CASE \/ \E d \in Directions : Recover(d)
           \/ \E c \in repairs.begun : RetryLocally(c)
  BY <1>4, NoJobType DEF Recover, RetryLocally, Resumes
<1> QED
  BY <1>1, <1>2, <1>3, <1>4, RecordChanges

(* RepairKeepsRedrafts: neither the resumption of a repair nor the         *)
(* decision on its candidate gives back a redraft that was spent, whatever *)
(* the number of faults, repairs and redrafts.                             *)
THEOREM RepairsKeepRedrafts == Spec => RepairKeepsRedrafts
<1>1. ASSUME IInv, RedraftInv, [Next]_vars
      PROVE  [ /\ job.repair = NoDraft /\ job'.repair # NoDraft
                    => record'.state.redrafts >= record.state.redrafts
               /\ job.repair # NoDraft /\ record'.pending = job.repair
                    => record'.used >= record.state.redrafts ]_vars
  BY <1>1, ResumingKeepsRedrafts, RepairDecisionKeepsRedrafts
<1> QED
  BY <1>1, RedraftInvariance, PTL DEF Spec, RepairKeepsRedrafts

-----------------------------------------------------------------------------
(* The attempts and the redrafts of a stage.                               *)
Synced == record.state.attempts = checkpoint.state.attempts

(* A recovery that has not reached the graph yet.                          *)
Restarting ==
  record.pending = NoDraft /\ record.state.status = "running" /\ job.phase \in {"none", "input"}

WithinLimit(state) ==
  Len(state.artifacts) < Len(Route) => state.redrafts <= RedraftLimit[Stage(state)]

(* Record and checkpoint count the same attempts, except between a         *)
(* recovery and the graph's restart; neither counts more attempts or       *)
(* redrafts than the stage has.                                            *)
CountersInv ==
  /\ Synced \/ Restarting
  /\ \A stage \in Stages : record.state.attempts[stage] <= RedraftLimit[stage]
  /\ WithinLimit(record.state) /\ WithinLimit(checkpoint.state)
  /\ job.repair = NoDraft /\ job.command.action = "regenerate" /\ job.phase \notin Settling =>
       record.used < RedraftLimit[Stage(record.state)]

LEMMA LimitType == \A stage \in Stages : RedraftLimit[stage] \in Nat
  BY RouteAssumption

LEMMA InitCounters == ASSUME Init PROVE CountersInv
<1>1. /\ record.state = InitialState /\ checkpoint.state = InitialState
      /\ job.repair = NoDraft /\ job.command = NoCommand
  BY NoJobType DEF Init
<1>2. InitialState.redrafts = 0 /\ \A stage \in Stages : InitialState.attempts[stage] = 0
  BY DEF InitialState
<1>3. WithinLimit(InitialState)
  BY <1>2, InitialStateType, StageInRoute, LimitType DEF WithinLimit
<1>4. NoCommand.action = "none"
  BY DEF NoCommand
<1> QED
  BY <1>1, <1>2, <1>3, <1>4, LimitType DEF CountersInv, Synced

(* Steps that leave record and graph state alone.                          *)
LEMMA RestCounters ==
  ASSUME CountersInv, record' = record, checkpoint'.state = checkpoint.state,
         Restarting => job'.phase \in {"none", "input"},
         job'.repair = NoDraft /\ job'.command.action = "regenerate" /\ job'.phase \notin Settling =>
           record.used < RedraftLimit[Stage(record.state)]
  PROVE  CountersInv'
  BY DEF CountersInv, Synced, Restarting, WithinLimit, Stage, Unit

LEMMA EndCounters ==
  ASSUME CountersInv, UNCHANGED <<record, checkpoint>>, job' = NoJob
  PROVE  CountersInv'
<1>1. NoJob.phase = "none" /\ NoJob.command.action = "none"
  BY NoJobType DEF NoCommand
<1> QED
  BY <1>1, RestCounters

LEMMA StartCounters == ASSUME CountersInv, Start PROVE CountersInv'
<1>1. job'.phase = "input" /\ job'.command = NoCommand
  BY DEF Start, NoJob
<1> QED
  BY <1>1, RestCounters DEF Start, NoCommand

LEMMA SubmitCounters ==
  ASSUME CountersInv, NEW command \in Commands, Submit(command) PROVE CountersInv'
<1>1. job'.phase = "bind" /\ job'.command = command
  BY DEF Submit, NoJob
<1>2. ~Restarting
  BY NoDraftAssumption DEF Submit, Restarting, Commands
<1> QED
  BY <1>1, <1>2, RestCounters DEF Submit

LEMMA ReplayCounters ==
  ASSUME IInv, CountersInv, NEW candidate \in repairs.begun, ReplayRegeneration(candidate)
  PROVE  CountersInv'
<1>1. candidate \in Drafts
  BY DEF IInv, TypeOK
<1>2. PICK command \in receipts.succeeded :
        job' = [NoJob EXCEPT !.phase = "bind", !.command = command, !.repair = candidate]
  BY DEF ReplayRegeneration
<1>3. job'.repair = candidate
  BY <1>2 DEF NoJob
<1>4. ~Restarting
  BY DEF ReplayRegeneration, BrokeContract, Restarting
<1> QED
  BY <1>1, <1>3, <1>4, NoDraftAssumption, RestCounters DEF ReplayRegeneration

(* recover: the attempts grow, and with them nothing beyond the limit.     *)
LEMMA RecoverFacts ==
  ASSUME IInv, CountersInv, NEW direction \in Directions, Recover(direction)
  PROVE  LET state == record.state
             used  == Larger(state.attempts[Stage(state)], state.redrafts) + 1
         IN  /\ used \in Nat /\ used > state.attempts[Stage(state)]
             /\ used <= RedraftLimit[Stage(state)]
             /\ Unit(state) \in Units /\ Stage(state) \in Stages
             /\ record'.state.attempts = [state.attempts EXCEPT ![Stage(state)] = used]
             /\ record'.state.artifacts = state.artifacts
             /\ record'.state.redrafts = 0 /\ record'.state.direction = direction
             /\ record'.state.status = "running" /\ record'.pending = NoDraft
             /\ Synced /\ SameUnit
             /\ job'.phase = "input" /\ job'.command = NoCommand
<1> DEFINE state == record.state
           used == Larger(state.attempts[Stage(state)], state.redrafts)
<1>1. /\ state.status = "failed" /\ used < RedraftLimit[Stage(state)]
      /\ record' = [state   |-> [state EXCEPT !.status = "running",
                                              !.attempts[Stage(state)] = used + 1,
                                              !.redrafts = 0,
                                              !.candidate = NoDraft,
                                              !.action = "none",
                                              !.direction = direction],
                    pending |-> NoDraft,
                    used    |-> 0,
                    failure |-> "none"]
      /\ job' = [NoJob EXCEPT !.phase = "input"]
      /\ BrokeContract
  BY DEF Recover, BrokeContract
<1>2. state \in RunStates /\ Len(state.artifacts) < Len(Route)
  BY <1>1 DEF IInv, TypeOK, RecordInv, Closed
<1>3. Unit(state) \in Units /\ Stage(state) \in Stages
  BY <1>2, StageInRoute
<1>4. state.attempts[Stage(state)] \in Nat /\ state.redrafts \in Nat /\ RedraftLimit[Stage(state)] \in Nat
  BY <1>2, <1>3, StateFields, LimitType
<1>5. used \in Nat /\ used >= state.attempts[Stage(state)]
  BY <1>4, LargerIsNat
<1>6. Synced /\ SameUnit
  BY <1>1 DEF CountersInv, Restarting, IInv, RecordInv, SameUnit
<1>7. job'.phase = "input" /\ job'.command = NoCommand
  BY <1>1 DEF NoJob
<1> HIDE DEF used
<1>8. /\ record'.state.attempts = [state.attempts EXCEPT ![Stage(state)] = used + 1]
      /\ record'.state.artifacts = state.artifacts
      /\ record'.state.redrafts = 0 /\ record'.state.direction = direction
      /\ record'.state.status = "running" /\ record'.pending = NoDraft
  BY <1>1, <1>2 DEF RunStates
<1>9. used + 1 \in Nat /\ used + 1 > state.attempts[Stage(state)] /\ used + 1 <= RedraftLimit[Stage(state)]
  BY <1>1, <1>4, <1>5
<1> QED
  BY <1>3, <1>6, <1>7, <1>8, <1>9 DEF used

LEMMA RecoverCounters ==
  ASSUME IInv, CountersInv, NEW direction \in Directions, Recover(direction)
  PROVE  CountersInv'
<1> DEFINE used == Larger(record.state.attempts[Stage(record.state)], record.state.redrafts) + 1
<1>1. /\ used \in Nat /\ used <= RedraftLimit[Stage(record.state)]
      /\ record'.state.attempts = [record.state.attempts EXCEPT ![Stage(record.state)] = used]
      /\ record'.state.artifacts = record.state.artifacts
      /\ record'.state.redrafts = 0 /\ record'.state.status = "running" /\ record'.pending = NoDraft
      /\ job'.phase = "input" /\ job'.command = NoCommand
      /\ Stage(record.state) \in Stages
  BY RecoverFacts
<1> HIDE DEF used
<1>2. Restarting'
  BY <1>1 DEF Restarting
<1>3. record.state.attempts \in [Stages -> Nat] /\ checkpoint' = checkpoint
  BY RedraftTypes, StateFields DEF Recover
<1>4. \A stage \in Stages : record'.state.attempts[stage] <= RedraftLimit[stage]
  BY <1>1, <1>3 DEF CountersInv
<1>5. WithinLimit(record'.state)
  BY <1>1, LimitType DEF WithinLimit, Stage, Unit
<1>6. WithinLimit(checkpoint'.state)
  BY <1>3 DEF CountersInv
<1> QED
  BY <1>1, <1>2, <1>4, <1>5, <1>6 DEF CountersInv, WithinLimit, Stage, Unit, NoCommand
(* Where a state is on the route, and under which direction.               *)
SamePlace(s, t) == t.artifacts = s.artifacts /\ t.attempts = s.attempts /\ t.direction = s.direction

LEMMA SamePlaceFacts ==
  ASSUME NEW s, NEW t, SamePlace(s, t)
  PROVE  Unit(t) = Unit(s) /\ Stage(t) = Stage(s)
  BY DEF SamePlace, Unit, Stage

LEMMA RetryPlace ==
  ASSUME IInv, NEW candidate \in repairs.begun, RetryLocally(candidate)
  PROVE  /\ SamePlace(record.state, record'.state)
         /\ record'.state.redrafts = record.state.redrafts
         /\ checkpoint' = checkpoint /\ ~Restarting
         /\ job'.phase = "input" /\ job'.command = NoCommand
<1>1. record.state \in RunStates
  BY RedraftTypes
<1> QED
  BY <1>1 DEF RetryLocally, RunStates, SamePlace, BrokeContract, Restarting, NoJob

LEMMA RetryCounters ==
  ASSUME IInv, CountersInv, NEW candidate \in repairs.begun, RetryLocally(candidate)
  PROVE  CountersInv'
<1>1. /\ SamePlace(record.state, record'.state)
      /\ record'.state.redrafts = record.state.redrafts
      /\ checkpoint' = checkpoint /\ Synced /\ job'.command = NoCommand
  BY RetryPlace DEF CountersInv
<1>2. Synced' /\ WithinLimit(record.state)' /\ WithinLimit(checkpoint.state)'
  BY <1>1 DEF CountersInv, Synced, SamePlace, WithinLimit, Stage, Unit
<1> QED
  BY <1>1, <1>2 DEF CountersInv, SamePlace, NoCommand

LEMMA EnterFreshCounters == ASSUME IInv, CountersInv, EnterFresh PROVE CountersInv'
<1>1. /\ job'.repair = job.repair /\ job'.command = job.command /\ job.phase = "input"
      /\ record' = record /\ checkpoint'.state = record.state
  BY RedraftTypes DEF EnterFresh, JobType
<1>2. Synced' /\ WithinLimit(record.state)' /\ WithinLimit(checkpoint.state)'
  BY <1>1 DEF CountersInv, Synced, WithinLimit, Stage, Unit
<1> QED
  BY <1>1, <1>2 DEF CountersInv, Settling

LEMMA EnterWithCommandCounters == ASSUME IInv, CountersInv, EnterWithCommand PROVE CountersInv'
<1>1. /\ job'.repair = job.repair /\ job'.command = job.command /\ job.phase = "bind"
      /\ record' = record /\ checkpoint' = checkpoint
  BY RedraftTypes DEF EnterWithCommand, JobType
<1> QED
  BY <1>1, RestCounters DEF CountersInv, Settling, Restarting

(* A node that neither generates nor commits moves on from where it is.    *)
LEMMA NodeMoves ==
  ASSUME IInv, StageStarted \/ AutoContinue \/ Accepted \/ Cancelled \/ StageFinished
  PROVE  /\ job.phase = "graph" /\ job'.phase = "graph"
         /\ job'.command = job.command /\ job'.repair = job.repair
         /\ UNCHANGED <<record, receipts, operations, repairs>>
         /\ SamePlace(checkpoint.state, checkpoint'.state)
         /\ checkpoint'.state.redrafts \in {checkpoint.state.redrafts, 0}
         /\ checkpoint'.node # "decision"
<1>1. checkpoint.state \in RunStates /\ job \in JobType /\ checkpoint \in CheckpointType
  BY RedraftTypes
<1>2. CASE StageStarted
  BY <1>1, <1>2 DEF StageStarted, Running, Move, SamePlace, RunStates, CheckpointType
<1>3. CASE AutoContinue
  BY <1>1, <1>3 DEF AutoContinue, Running, Move, SamePlace, RunStates, CheckpointType
<1>4. CASE Accepted
  BY <1>1, <1>4, JobSteps DEF Accepted, Answered, Deciding, Running, Move, SamePlace, RunStates, CheckpointType
<1>5. CASE Cancelled
  BY <1>1, <1>5, JobSteps DEF Cancelled, Answered, Deciding, Running, Move, SamePlace, RunStates, CheckpointType
<1>6. CASE StageFinished
  BY <1>1, <1>6, JobSteps DEF StageFinished, Running, SamePlace, RunStates, CheckpointType
<1> QED
  BY <1>2, <1>3, <1>4, <1>5, <1>6

LEMMA NodeCounters ==
  ASSUME CountersInv, record' = record, job.phase = "graph", job'.phase = "graph",
         job'.command = job.command, job'.repair = job.repair,
         checkpoint'.state.attempts = checkpoint.state.attempts, WithinLimit(checkpoint'.state)
  PROVE  CountersInv'
<1>1. Synced'
  BY DEF CountersInv, Synced, Restarting
<1> QED
  BY <1>1 DEF CountersInv, Settling, WithinLimit, Stage, Unit

LEMMA NodeMovesCounters ==
  ASSUME IInv, CountersInv, StageStarted \/ AutoContinue \/ Accepted \/ Cancelled \/ StageFinished
  PROVE  CountersInv'
<1>1. /\ SamePlace(checkpoint.state, checkpoint'.state)
      /\ checkpoint'.state.redrafts \in {checkpoint.state.redrafts, 0}
  BY NodeMoves
<1>2. Len(checkpoint.state.artifacts) < Len(Route) => RedraftLimit[Stage(checkpoint.state)] \in Nat
  BY RedraftTypes, StageInRoute, LimitType
<1>3. WithinLimit(checkpoint'.state)
  BY <1>1, <1>2, SamePlaceFacts DEF CountersInv, WithinLimit, SamePlace
<1> QED
  BY <1>1, <1>3, NodeMoves, NodeCounters DEF SamePlace

(* The nodes that yield a candidate.                                       *)
LEMMA GeneratedPlace ==
  ASSUME IInv, NEW draft, Generated(draft)
  PROVE  /\ job.phase = "graph" /\ job'.phase = "graph" /\ checkpoint.node = "generate"
         /\ job'.command = job.command /\ job'.repair = job.repair
         /\ UNCHANGED <<record, receipts, operations, repairs>>
         /\ SamePlace(checkpoint.state, checkpoint'.state)
         /\ checkpoint'.state.redrafts = checkpoint.state.redrafts
         /\ checkpoint'.state.candidate = draft
<1>1. checkpoint.state \in RunStates /\ checkpoint \in CheckpointType
  BY RedraftTypes
<1>2. draft \in Drafts
  BY <1>1, ReturnFacts, StateFields DEF Generated
<1> QED
  BY <1>1, <1>2, JobSteps DEF Generated, Running, Move, SamePlace, RunStates, CheckpointType

LEMMA RegeneratedPlace ==
  ASSUME IInv, NEW draft, Regenerated(draft)
  PROVE  /\ job.phase = "graph" /\ job'.phase = "graph" /\ checkpoint.node = "decision"
         /\ job'.command = job.command /\ job'.repair = job.repair
         /\ UNCHANGED <<record, receipts, operations, repairs>>
         /\ SamePlace(checkpoint.state, checkpoint'.state)
         /\ checkpoint'.state.redrafts = checkpoint.state.redrafts + 1
         /\ checkpoint.state.redrafts < RedraftLimit[Stage(checkpoint.state)]
         /\ checkpoint'.state.candidate = draft
         /\ job.command \in receipts.begun /\ job.command \in Commands
         /\ job.command.action = "regenerate" /\ job.command.draft = checkpoint.state.candidate
         /\ Returns(draft, job.command.direction)
<1>1. checkpoint.state \in RunStates /\ checkpoint \in CheckpointType
  BY RedraftTypes
<1>2. /\ job.phase = "graph" /\ checkpoint.node = "decision"
      /\ job.command \in receipts.begun /\ job.command \in Commands
      /\ job.command.action = "regenerate" /\ job.command.draft = checkpoint.state.candidate
  BY AnsweredFacts DEF Regenerated
<1>3. /\ checkpoint.state.redrafts < RedraftLimit[Stage(checkpoint.state)]
      /\ Returns(draft, job.command.direction)
  BY <1>2 DEF Regenerated, Answered, Answers
<1>4. job'.phase = "graph" /\ job'.command = job.command /\ job'.repair = job.repair
  BY <1>2, JobSteps DEF Regenerated
<1>5. /\ SamePlace(checkpoint.state, checkpoint'.state)
      /\ checkpoint'.state.redrafts = checkpoint.state.redrafts + 1
      /\ checkpoint'.state.candidate = draft
  BY <1>1 DEF Regenerated, Move, SamePlace, RunStates, CheckpointType
<1> QED
  BY <1>2, <1>3, <1>4, <1>5 DEF Regenerated

LEMMA CommitPlace ==
  ASSUME IInv, Commit
  PROVE  /\ job.phase = "graph" /\ UNCHANGED <<record, receipts, operations, repairs, job>>
         /\ checkpoint.node = "commit" /\ checkpoint'.node # "decision"
         /\ checkpoint'.state \in RunStates
         /\ Unit(checkpoint'.state) = Unit(checkpoint.state) + 1
         /\ Len(checkpoint'.state.artifacts) = Len(checkpoint.state.artifacts) + 1
         /\ checkpoint'.state.attempts = checkpoint.state.attempts
         /\ checkpoint'.state.direction = NoDirection /\ checkpoint'.state.redrafts = 0
<1> DEFINE s == checkpoint.state
           s1 == [s EXCEPT !.artifacts = Append(@, s.candidate), !.candidate = NoDraft,
                           !.direction = NoDirection, !.action = "none", !.redrafts = 0]
<1>1. s \in RunStates /\ Len(s.artifacts) \in Nat /\ s.artifacts \in Seq(Drafts)
  BY RedraftTypes, StateFields
<1>2. checkpoint.node = "commit" /\ s.candidate \in Drafts /\ job.phase = "graph"
  BY DEF Commit, Running, IInv, CandidateInv
<1>3. Append(s.artifacts, s.candidate) \in Seq(Drafts)
  BY <1>1, <1>2
<1>4. /\ s1 \in RunStates /\ s1.artifacts = Append(s.artifacts, s.candidate)
      /\ s1.attempts = s.attempts /\ s1.direction = NoDirection /\ s1.redrafts = 0
  BY <1>1, <1>3 DEF RunStates
<1>5. Len(s1.artifacts) = Len(s.artifacts) + 1
  BY <1>1, <1>2, <1>4
<1>6. PICK node \in {"generate", "finished"} : Move(node, s1)
  BY DEF Commit
<1> HIDE DEF s1
<1>7. checkpoint'.state = s1 /\ checkpoint'.node = node
  BY <1>4, <1>6, MoveFacts DEF Nodes
<1> QED
  BY <1>1, <1>2, <1>4, <1>5, <1>6, <1>7 DEF Commit, Unit

LEMMA GeneratedCounters == ASSUME IInv, CountersInv, NEW draft, Generated(draft) PROVE CountersInv'
<1>1. WithinLimit(checkpoint'.state)
  BY GeneratedPlace, SamePlaceFacts DEF CountersInv, WithinLimit, SamePlace
<1> QED
  BY <1>1, GeneratedPlace, NodeCounters DEF SamePlace

LEMMA RegeneratedCounters == ASSUME IInv, CountersInv, NEW draft, Regenerated(draft) PROVE CountersInv'
<1>1. checkpoint.state.redrafts \in Nat
  BY RedraftTypes
<1>2. Len(checkpoint.state.artifacts) < Len(Route) => RedraftLimit[Stage(checkpoint.state)] \in Nat
  BY RedraftTypes, StageInRoute, LimitType
<1>3. WithinLimit(checkpoint'.state)
  BY <1>1, <1>2, RegeneratedPlace, SamePlaceFacts DEF WithinLimit, SamePlace
<1> QED
  BY <1>3, RegeneratedPlace, NodeCounters DEF SamePlace

LEMMA CommitCounters == ASSUME IInv, CountersInv, Commit PROVE CountersInv'
<1>1. WithinLimit(checkpoint'.state)
  BY CommitPlace, StageInRoute, LimitType DEF WithinLimit
<1> QED
  BY <1>1, CommitPlace, NodeCounters

(* The record moves to where the checkpoint is.                            *)
LEMMA ProjectPlace ==
  ASSUME IInv, Project
  PROVE  /\ job.phase = "project" /\ job'.phase = "settle"
         /\ UNCHANGED <<checkpoint, receipts, operations, repairs>>
         /\ SamePlace(checkpoint.state, record'.state)
         /\ record'.state.redrafts = checkpoint.state.redrafts
<1>1. checkpoint.state \in RunStates /\ job \in JobType
  BY RedraftTypes
<1> QED
  BY <1>1 DEF Project, SamePlace, RunStates, JobType

LEMMA FailurePlace ==
  ASSUME IInv, ProjectFailure
  PROVE  /\ job.phase = "failing" /\ job'.phase = "reconcile"
         /\ UNCHANGED <<checkpoint, receipts, operations, repairs>>
         /\ SamePlace(checkpoint.state, record'.state)
         /\ \/ record'.state.redrafts = checkpoint.state.redrafts
            \/ /\ job.command.action = "regenerate" /\ record.pending = job.command.draft
               /\ Stage(checkpoint.state) = Stage(record.state)
               /\ record'.state.redrafts = Larger(checkpoint.state.redrafts, record.used + 1)
<1>1. checkpoint.state \in RunStates /\ job \in JobType
  BY RedraftTypes
<1>2. /\ job.phase = "failing" /\ job'.phase = "reconcile"
      /\ UNCHANGED <<checkpoint, receipts, operations, repairs>>
      /\ SamePlace(checkpoint.state, record'.state)
  BY <1>1 DEF ProjectFailure, SamePlace, RunStates, JobType
<1>3. \/ record'.state.redrafts = checkpoint.state.redrafts
      \/ /\ job.command.action = "regenerate" /\ record.pending = job.command.draft
         /\ Stage(checkpoint.state) = Stage(record.state)
         /\ record'.state.redrafts = Larger(checkpoint.state.redrafts, record.used + 1)
  BY <1>1 DEF ProjectFailure, RunStates
<1> QED
  BY <1>2, <1>3

LEMMA ProjectedCounters ==
  ASSUME CountersInv, job.phase \in {"project", "failing"}, job'.phase \in Settling,
         UNCHANGED checkpoint, SamePlace(checkpoint.state, record'.state), WithinLimit(record'.state)
  PROVE  CountersInv'
<1>1. Synced /\ Synced'
  BY DEF CountersInv, Synced, Restarting, SamePlace
<1> QED
  BY <1>1 DEF CountersInv, Synced, WithinLimit, Stage, Unit

LEMMA ProjectCounters == ASSUME IInv, CountersInv, Project PROVE CountersInv'
<1>1. WithinLimit(record'.state)
  BY ProjectPlace, SamePlaceFacts DEF CountersInv, WithinLimit, SamePlace
<1> QED
  BY <1>1, ProjectPlace, ProjectedCounters DEF Settling

LEMMA ProjectFailureCounters == ASSUME IInv, RedraftInv, CountersInv, ProjectFailure PROVE CountersInv'
<1>1. SamePlace(checkpoint.state, record'.state) /\ job.phase = "failing"
  BY FailurePlace
<1>2. CASE record'.state.redrafts = checkpoint.state.redrafts
  <2>1. WithinLimit(record'.state)
    BY <1>1, <1>2, SamePlaceFacts DEF CountersInv, WithinLimit, SamePlace
  <2> QED
    BY <2>1, FailurePlace, ProjectedCounters DEF Settling
<1>3. CASE /\ job.command.action = "regenerate" /\ record.pending = job.command.draft
           /\ Stage(checkpoint.state) = Stage(record.state)
           /\ record'.state.redrafts = Larger(checkpoint.state.redrafts, record.used + 1)
  <2>1. job.command \in Commands
    BY <1>3 DEF NoCommand, IInv, TypeOK
  <2>2. job.repair = NoDraft
    BY <1>1, <1>3, <2>1, NoDraftAssumption DEF RedraftInv, BoundInv, Settling, Commands
  <2>3. record.used < RedraftLimit[Stage(record.state)]
    BY <1>1, <1>3, <2>2 DEF CountersInv, Settling
  <2>4. /\ record.used \in Nat /\ checkpoint.state.redrafts \in Nat
        /\ Len(checkpoint.state.artifacts) < Len(Route) => RedraftLimit[Stage(checkpoint.state)] \in Nat
    BY RedraftTypes, StageInRoute, LimitType
  <2>5. WithinLimit(record'.state)
    BY <1>1, <1>3, <2>3, <2>4, SamePlaceFacts DEF CountersInv, WithinLimit, SamePlace, Larger
  <2> QED
    BY <2>5, FailurePlace, ProjectedCounters DEF Settling
<1> QED
  BY <1>2, <1>3, FailurePlace

LEMMA FailCounters ==
  ASSUME IInv, CountersInv, NEW failure, Fail(failure), job.phase = "graph", UNCHANGED <<record, checkpoint>>
  PROVE  CountersInv'
<1>1. job'.phase = "failing" /\ job'.repair = job.repair /\ job'.command = job.command
  BY RedraftTypes DEF Fail, JobType
<1> QED
  BY <1>1, RestCounters DEF CountersInv, Settling, Restarting

LEMMA LeaveGraphCounters == ASSUME IInv, CountersInv, Ask \/ GraphEnds PROVE CountersInv'
<1>1. /\ job.phase = "graph" /\ job'.phase = "project" /\ job'.repair = job.repair /\ job'.command = job.command
      /\ record' = record /\ checkpoint'.state = checkpoint.state
  BY RedraftTypes DEF Ask, GraphEnds, Deciding, Running, JobType, CheckpointType
<1> QED
  BY <1>1, RestCounters DEF CountersInv, Settling, Restarting

LEMMA NextCounters == ASSUME IInv, RedraftInv, CountersInv, [Next]_vars PROVE CountersInv'
<1>1. Submittable \subseteq Commands
  BY DEF Submittable, Commands, IInv, TypeOK
<1>2. CASE Command
  <2>1. CASE \/ \E c \in receipts.begun : SubmitAgain(c)
             \/ \E id \in RepairIds : BeginRepair(id)
             \/ \E c \in repairs.begun : RepairIsPending(c)
    BY <2>1, RestCounters DEF SubmitAgain, BeginRepair, RepairIsPending, CountersInv, Restarting
  <2>2. CASE Start \/ (\E c \in Submittable : Submit(c)) \/ (\E d \in Directions : Recover(d))
    BY <1>1, <2>2, StartCounters, SubmitCounters, RecoverCounters
  <2>3. CASE \E c \in repairs.begun : ReplayRegeneration(c) \/ RetryLocally(c)
    BY <2>3, ReplayCounters, RetryCounters
  <2> QED
    BY <1>2, <2>1, <2>2, <2>3 DEF Command
<1>3. CASE GraphStep
  <2>1. CASE \E d \in Directions \cup {NoDirection} : Draft(d)
    BY <2>1, RestCounters DEF Draft, CountersInv, Restarting
  <2>2. CASE \/ \E d \in Directions \cup {NoDirection} : DraftRejected(d)
             \/ Mismatch
    BY <2>2, FailCounters DEF DraftRejected, Calls, Answered, Mismatch, Deciding, Running
  <2>3. CASE \E draft \in drafted \cup rejected \cup repairs.begun : Generated(draft) \/ Regenerated(draft)
    BY <2>3, GeneratedCounters, RegeneratedCounters
  <2>4. CASE StageStarted \/ AutoContinue \/ Accepted \/ Cancelled \/ StageFinished
    BY <2>4, NodeMovesCounters
  <2>5. CASE Commit \/ Ask \/ GraphEnds
    BY <2>5, CommitCounters, LeaveGraphCounters
  <2> QED
    BY <1>3, <2>1, <2>2, <2>3, <2>4, <2>5 DEF GraphStep
<1>4. CASE EnterFresh \/ EnterWithCommand \/ Project \/ ProjectFailure
  BY <1>4, EnterFreshCounters, EnterWithCommandCounters, ProjectCounters, ProjectFailureCounters
<1>5. CASE Settle \/ ReconcileConsumed \/ Crash
  BY <1>5, EndCounters DEF Settle, ReconcileConsumed, Crash
<1>6. CASE \E failure \in {"transport", "other"} : NodeFails(failure)
  BY <1>6, FailCounters DEF NodeFails, Running
<1>7. CASE UNCHANGED vars
  BY <1>7, RestCounters DEF vars, CountersInv, Restarting
<1> QED
  BY <1>2, <1>3, <1>4, <1>5, <1>6, <1>7 DEF Next, Step, Fault

LEMMA CountersInvariance == Spec => [](IInv /\ CountersInv)
<1>1. Init => IInv /\ RedraftInv /\ CountersInv
  BY InitIInv, InitRedrafts, InitCounters
<1>2. IInv /\ RedraftInv /\ CountersInv /\ [Next]_vars => (IInv /\ RedraftInv /\ CountersInv)'
  BY NextIInv, NextRedrafts, NextCounters
<1> QED
  BY <1>1, <1>2, PTL DEF Spec

-----------------------------------------------------------------------------
(* Where each operation of a unit comes from.                              *)
KeyOf(unit, attempt, direction) ==
  [unit |-> unit, attempt |-> attempt, direction |-> direction, texts |-> <<>>]

(* A slot is a place for one redraft: of the candidate generated, or       *)
(* repaired, under so many attempts when so many redrafts had been spent   *)
(* first, the one that brings the redrafts to this number.                 *)
Slots ==
  [unit : Units, origin : Drafts \cup {NoDraft}, attempts : Nat, first : Nat, redrafts : Nat]

(* Two histories the state does not hold: the direction each unit was      *)
(* generated with under each number of attempts, and the key in each slot. *)
Directed == [Units -> [Nat -> Directions \cup {NoDirection}]]
Redrafted == [Slots -> Drafts \cup {NoDraft}]

Origin(D, slot) ==
  IF slot.origin = NoDraft
    THEN KeyOf(slot.unit, slot.attempts + slot.first + 1, D[slot.unit][slot.attempts])
    ELSE slot.origin
CandidateOf(D, g, slot) == IF slot.first = slot.redrafts THEN Origin(D, slot) ELSE g[slot]
Before(slot) == [slot EXCEPT !.redrafts = @ - 1]

Attempts(unit) == record.state.attempts[Route[unit]]
Limit(unit) == RedraftLimit[Route[unit]]
Open(slot) ==
  /\ slot.origin # NoDraft => slot.origin \in repairs.begun /\ slot.origin.unit = slot.unit
  /\ slot.attempts <= Attempts(slot.unit)
  /\ slot.first <= slot.redrafts /\ slot.redrafts <= Limit(slot.unit)

(* The key in a slot is the one the author's command on the candidate      *)
(* before it asks for.                                                     *)
Asked(D, g, slot) ==
  \E command \in receipts.begun :
    /\ command.action = "regenerate" /\ command.draft = CandidateOf(D, g, Before(slot))
    /\ g[slot] = KeyOf(slot.unit, slot.attempts + slot.redrafts, command.direction)
ChainInv(D, g) ==
  \A slot \in Slots :
    g[slot] # NoDraft => Open(slot) /\ slot.first < slot.redrafts /\ Asked(D, g, slot)

(* Every operation was generated, or is in a slot.                         *)
FromGenerate(D, key) ==
  \E a \in 0 .. Attempts(key.unit), r \in 0 .. Limit(key.unit) :
    key = KeyOf(key.unit, a + r + 1, D[key.unit][a])
FromRedraft(g, key) == \E slot \in Slots : slot.unit = key.unit /\ g[slot] = key
KeysInv(D, g) == \A key \in drafted \cup rejected : FromGenerate(D, key) \/ FromRedraft(g, key)

(* Record and checkpoint have the direction of their attempts; later units *)
(* have none.                                                              *)
Directs(D, state) ==
  Len(state.artifacts) < Len(Route) =>
    state.direction = D[Unit(state)][state.attempts[Stage(state)]]
DirectionInv(D) ==
  /\ Directs(D, record.state) /\ Directs(D, checkpoint.state)
  /\ \A unit \in Units : unit > Unit(record.state) => \A a \in Nat : D[unit][a] = NoDirection

(* The candidate of a decision is a slot's, or the origin of slots.        *)
PlaceOf(slot, state) ==
  /\ slot.unit = Unit(state) /\ slot.attempts = state.attempts[Stage(state)]
  /\ slot.redrafts = state.redrafts
PlacedInv(D, g) ==
  checkpoint.node = "decision" =>
    \E slot \in Slots :
      /\ Open(slot) /\ PlaceOf(slot, checkpoint.state)
      /\ CandidateOf(D, g, slot) = checkpoint.state.candidate

History(D, g) == ChainInv(D, g) /\ KeysInv(D, g) /\ DirectionInv(D) /\ PlacedInv(D, g)
HistoryInv == \E D \in Directed, g \in Redrafted : History(D, g)

LEMMA NoCommandOnNothing ==
  ASSUME IInv, NEW command \in receipts.begun
  PROVE  command \in Commands /\ command.draft # NoDraft /\ command.draft \in Drafts
         /\ command.direction \in Directions \cup {NoDirection}
  BY NoDraftAssumption DEF IInv, TypeOK, Commands

LEMMA KeyOfType ==
  ASSUME NEW unit \in Units, NEW attempt \in Nat \ {0}, NEW direction \in Directions \cup {NoDirection}
  PROVE  KeyOf(unit, attempt, direction) \in Drafts /\ KeyOf(unit, attempt, direction).unit = unit
  BY DEF KeyOf, Drafts

LEMMA InitHistory == ASSUME Init PROVE HistoryInv
<1> DEFINE D == [unit \in Units |-> [a \in Nat |-> NoDirection]]
           g == [slot \in Slots |-> NoDraft]
<1>1. D \in Directed /\ g \in Redrafted
  BY DEF Directed, Redrafted
<1>2. \A unit \in Units : \A a \in Nat : D[unit][a] = NoDirection
  OBVIOUS
<1>3. \A slot \in Slots : g[slot] = NoDraft
  OBVIOUS
<1> HIDE DEF D, g
<1>4. record.state = InitialState /\ checkpoint.state = InitialState /\ checkpoint.node = "started"
      /\ drafted = {} /\ rejected = {}
  BY DEF Init
<1>5. InitialState \in RunStates /\ InitialState.direction = NoDirection
  BY InitialStateType DEF InitialState
<1>6. Directs(D, InitialState)
  BY <1>2, <1>5, StageInRoute, StateFields DEF Directs
<1>7. ChainInv(D, g) /\ KeysInv(D, g) /\ DirectionInv(D) /\ PlacedInv(D, g)
  BY <1>2, <1>3, <1>4, <1>6 DEF ChainInv, KeysInv, DirectionInv, PlacedInv
<1> QED
  BY <1>1, <1>7 DEF HistoryInv, History

(* What only grows keeps the histories.                                    *)
LEMMA OpenStays ==
  ASSUME record'.state.attempts = record.state.attempts, repairs.begun \subseteq repairs'.begun,
         NEW slot, Open(slot)
  PROVE  Open(slot)'
  BY DEF Open, Attempts, Limit

LEMMA ChainStays ==
  ASSUME record'.state.attempts = record.state.attempts, repairs.begun \subseteq repairs'.begun,
         receipts.begun \subseteq receipts'.begun, NEW D, NEW g, ChainInv(D, g)
  PROVE  ChainInv(D, g)'
<1> SUFFICES ASSUME NEW slot \in Slots, g[slot] # NoDraft
             PROVE  (Open(slot) /\ slot.first < slot.redrafts /\ Asked(D, g, slot))'
  BY DEF ChainInv
<1>1. Open(slot) /\ slot.first < slot.redrafts /\ Asked(D, g, slot)
  BY DEF ChainInv
<1>2. Open(slot)'
  BY <1>1, OpenStays
<1>3. Asked(D, g, slot)'
  BY <1>1 DEF Asked
<1> QED
  BY <1>1, <1>2, <1>3

LEMMA KeysStay ==
  ASSUME record'.state.attempts = record.state.attempts, UNCHANGED <<drafted, rejected>>,
         NEW D, NEW g, KeysInv(D, g)
  PROVE  KeysInv(D, g)'
  BY DEF KeysInv, FromGenerate, FromRedraft, Attempts, Limit

(* A step that neither makes an operation nor moves the record back.       *)
LEMMA HistoryStays ==
  ASSUME record'.state.attempts = record.state.attempts,
         Unit(record'.state) \in Nat, Unit(record.state) \in Nat, Unit(record'.state) >= Unit(record.state),
         UNCHANGED <<drafted, rejected>>, repairs.begun \subseteq repairs'.begun,
         receipts.begun \subseteq receipts'.begun,
         NEW D \in Directed, NEW g \in Redrafted, History(D, g),
         Directs(D, record'.state), Directs(D, checkpoint'.state), PlacedInv(D, g)'
  PROVE  HistoryInv'
<1>1. ChainInv(D, g)' /\ KeysInv(D, g)'
  BY ChainStays, KeysStay DEF History
<1>2. \A unit \in Units : unit > Unit(record'.state) => unit > Unit(record.state)
  BY DEF Units
<1>3. DirectionInv(D)'
  BY <1>2 DEF History, DirectionInv, Directs, Unit, Stage
<1> QED
  BY <1>1, <1>3 DEF HistoryInv, History

LEMMA PlacedStays ==
  ASSUME record'.state.attempts = record.state.attempts, repairs.begun \subseteq repairs'.begun,
         checkpoint'.node = checkpoint.node, checkpoint'.state = checkpoint.state,
         NEW D, NEW g, PlacedInv(D, g)
  PROVE  PlacedInv(D, g)'
<1>1. \A slot : Open(slot) => Open(slot)'
  BY OpenStays
<1> QED
  BY <1>1 DEF PlacedInv, PlaceOf, CandidateOf, Origin, Stage, Unit

LEMMA UnitsOf ==
  ASSUME IInv
  PROVE  /\ Unit(record.state) \in Nat /\ Unit(checkpoint.state) \in Nat
         /\ Unit(checkpoint.state) >= Unit(record.state)
<1>1. Len(record.state.artifacts) <= Len(checkpoint.state.artifacts)
  BY DEF IInv, RecordInv
<1>2. /\ Len(record.state.artifacts) \in Nat /\ Len(checkpoint.state.artifacts) \in Nat
      /\ Unit(record.state) = Len(record.state.artifacts) + 1
      /\ Unit(checkpoint.state) = Len(checkpoint.state.artifacts) + 1
  BY RedraftTypes
<1> QED
  BY <1>1, <1>2

(* Steps at rest: the checkpoint stays, the record moves to it or stays.   *)
LEMMA RestHistory ==
  ASSUME IInv, IInv', HistoryInv, Synced,
         SamePlace(record.state, record'.state) \/ SamePlace(checkpoint.state, record'.state),
         checkpoint'.state = checkpoint.state, checkpoint'.node = checkpoint.node,
         UNCHANGED <<drafted, rejected>>, repairs.begun \subseteq repairs'.begun,
         receipts.begun \subseteq receipts'.begun
  PROVE  HistoryInv'
<1>1. PICK D \in Directed, g \in Redrafted : History(D, g)
  BY DEF HistoryInv
<1>2. record'.state.attempts = record.state.attempts
  BY DEF Synced, SamePlace
<1>3. Unit(record'.state) \in {Unit(record.state), Unit(checkpoint.state)}
  BY SamePlaceFacts
<1>4. Directs(D, record'.state) /\ Directs(D, checkpoint'.state)
  BY <1>1, SamePlaceFacts DEF History, DirectionInv, Directs, SamePlace
<1>5. PlacedInv(D, g)'
  BY <1>1, <1>2, PlacedStays DEF History
<1> QED
  BY <1>1, <1>2, <1>3, <1>4, <1>5, UnitsOf, HistoryStays

LEMMA StillHistory ==
  ASSUME IInv, IInv', HistoryInv, record' = record,
         checkpoint'.state = checkpoint.state, checkpoint'.node = checkpoint.node,
         UNCHANGED <<drafted, rejected>>, repairs.begun \subseteq repairs'.begun,
         receipts.begun \subseteq receipts'.begun
  PROVE  HistoryInv'
<1>1. PICK D \in Directed, g \in Redrafted : History(D, g)
  BY DEF HistoryInv
<1>2. PlacedInv(D, g)'
  BY <1>1, PlacedStays DEF History
<1>3. Directs(D, record'.state) /\ Directs(D, checkpoint'.state)
  BY <1>1 DEF History, DirectionInv, Directs, Unit, Stage
<1>4. Unit(record'.state) = Unit(record.state)
  BY DEF Unit
<1> QED
  BY <1>1, <1>2, <1>3, <1>4, UnitsOf, HistoryStays

(* Steps of the graph after which no candidate waits for a decision.       *)
LEMMA MoveHistory ==
  ASSUME IInv, HistoryInv, record' = record,
         \A D \in Directed : DirectionInv(D) => Directs(D, checkpoint'.state),
         checkpoint'.node # "decision",
         UNCHANGED <<drafted, rejected, receipts, repairs>>
  PROVE  HistoryInv'
<1>1. PICK D \in Directed, g \in Redrafted : History(D, g)
  BY DEF HistoryInv
<1>2. PlacedInv(D, g)'
  BY DEF PlacedInv
<1>3. Directs(D, record'.state) /\ Directs(D, checkpoint'.state)
  BY <1>1 DEF History, DirectionInv, Directs, Unit, Stage
<1>4. Unit(record'.state) = Unit(record.state)
  BY DEF Unit
<1> QED
  BY <1>1, <1>2, <1>3, <1>4, UnitsOf, HistoryStays

LEMMA NodeMovesHistory ==
  ASSUME IInv, HistoryInv, StageStarted \/ AutoContinue \/ Accepted \/ Cancelled \/ StageFinished
  PROVE  HistoryInv'
<1>1. \A D \in Directed : DirectionInv(D) => Directs(D, checkpoint'.state)
  BY NodeMoves, SamePlaceFacts DEF DirectionInv, Directs, SamePlace
<1> QED
  BY <1>1, NodeMoves, MoveHistory DEF operations

LEMMA EnterFreshHistory == ASSUME IInv, HistoryInv, EnterFresh PROVE HistoryInv'
<1>1. checkpoint'.node = "started" /\ checkpoint'.state = record.state
  BY DEF EnterFresh
<1>2. \A D \in Directed : DirectionInv(D) => Directs(D, checkpoint'.state)
  BY <1>1 DEF DirectionInv, Directs, Unit, Stage
<1> QED
  BY <1>1, <1>2, MoveHistory DEF EnterFresh, operations

LEMMA CommitHistory == ASSUME IInv, HistoryInv, Commit PROVE HistoryInv'
<1> DEFINE state == checkpoint'.state
<1>1. /\ state \in RunStates /\ Unit(state) = Unit(checkpoint.state) + 1 /\ state.direction = NoDirection
      /\ UNCHANGED <<record, receipts, operations, repairs>> /\ checkpoint'.node # "decision"
  BY CommitPlace
<1> HIDE DEF state
<1>2. Unit(state) > Unit(record.state)
  BY <1>1, UnitsOf
<1>3. Len(state.artifacts) < Len(Route) => Unit(state) \in Units /\ state.attempts[Stage(state)] \in Nat
  BY <1>1, StageInRoute, StateFields
<1>4. \A D \in Directed : DirectionInv(D) => Directs(D, state)
  BY <1>1, <1>2, <1>3 DEF DirectionInv, Directs
<1> QED
  BY <1>1, <1>4, MoveHistory DEF operations, state

(* A command on the candidate of a slot fills the next slot, if it was not *)
(* filled, since a candidate never has two commands.                       *)
Following(slot) == [slot EXCEPT !.redrafts = @ + 1]

LEMMA FollowingFacts ==
  ASSUME NEW slot \in Slots, Open(slot)
  PROVE  /\ Following(slot) \in Slots /\ Following(slot) # slot /\ Before(Following(slot)) = slot
         /\ Following(slot).unit = slot.unit /\ Following(slot).origin = slot.origin
         /\ Following(slot).attempts = slot.attempts /\ Following(slot).first = slot.first
         /\ Following(slot).redrafts = slot.redrafts + 1 /\ slot.redrafts \in Nat
         /\ Following(slot).first < Following(slot).redrafts
<1>1. slot.redrafts \in Nat /\ slot.first \in Nat /\ slot.first <= slot.redrafts
  BY DEF Slots, Open
<1>2. /\ Following(slot) \in Slots
      /\ Following(slot).unit = slot.unit /\ Following(slot).origin = slot.origin
      /\ Following(slot).attempts = slot.attempts /\ Following(slot).first = slot.first
      /\ Following(slot).redrafts = slot.redrafts + 1
  BY <1>1 DEF Slots, Following
<1>3. Before(Following(slot)) = slot
  <2>1. (slot.redrafts + 1) - 1 = slot.redrafts
    BY <1>1
  <2>2. Before(Following(slot)) = [slot EXCEPT !.redrafts = slot.redrafts]
    BY <1>2, <2>1 DEF Slots, Following, Before
  <2> QED
    BY <2>2 DEF Slots
<1> QED
  BY <1>1, <1>2, <1>3

LEMMA BeforeFacts ==
  ASSUME NEW slot \in Slots, slot.first < slot.redrafts
  PROVE  Before(slot) \in Slots
<1>1. slot.redrafts - 1 \in Nat
  BY DEF Slots
<1> QED
  BY <1>1 DEF Slots, Before

Filled(g, slot, direction) ==
  [g EXCEPT ![Following(slot)] = KeyOf(slot.unit, slot.attempts + slot.redrafts + 1, direction)]

LEMMA FillingFacts ==
  ASSUME IInv, NEW D \in Directed, NEW g \in Redrafted, ChainInv(D, g),
         NEW slot \in Slots, Open(slot), slot.redrafts < Limit(slot.unit),
         NEW command \in receipts.begun, command.action = "regenerate",
         command.draft = CandidateOf(D, g, slot)
  PROVE  LET filled == Filled(g, slot, command.direction)
             key == KeyOf(slot.unit, slot.attempts + slot.redrafts + 1, command.direction)
         IN  /\ filled \in Redrafted /\ ChainInv(D, filled)
             /\ filled[Following(slot)] = key
             /\ \A s \in Slots : g[s] # NoDraft => filled[s] = g[s]
             /\ CandidateOf(D, filled, slot) = command.draft
             /\ key \in Drafts
<1> DEFINE filled == Filled(g, slot, command.direction)
           next == Following(slot)
           key == KeyOf(slot.unit, slot.attempts + slot.redrafts + 1, command.direction)
<1>1. /\ next \in Slots /\ next # slot /\ Before(next) = slot
      /\ next.unit = slot.unit /\ next.origin = slot.origin
      /\ next.attempts = slot.attempts /\ next.first = slot.first
      /\ next.redrafts = slot.redrafts + 1 /\ slot.redrafts \in Nat
      /\ next.first < next.redrafts
  BY FollowingFacts
<1>2. slot.unit \in Units /\ slot.attempts \in Nat
  BY DEF Slots
<1>3. slot.attempts + slot.redrafts + 1 = next.attempts + next.redrafts /\ slot.attempts + slot.redrafts + 1 \in Nat \ {0}
  BY <1>1, <1>2
<1>4. key \in Drafts /\ key = KeyOf(next.unit, next.attempts + next.redrafts, command.direction)
  BY <1>1, <1>2, <1>3, KeyOfType, NoCommandOnNothing
<1> HIDE DEF next, key
<1>5. filled \in Redrafted /\ filled[next] = key /\ \A s \in Slots : s # next => filled[s] = g[s]
  BY <1>1, <1>4 DEF Filled, Redrafted, key, next
<1> HIDE DEF filled
<1>6. g[next] # NoDraft => g[next] = key
  <2> SUFFICES ASSUME g[next] # NoDraft PROVE g[next] = key
    OBVIOUS
  <2>1. PICK c \in receipts.begun :
          /\ c.draft = CandidateOf(D, g, slot)
          /\ g[next] = KeyOf(next.unit, next.attempts + next.redrafts, c.direction)
    BY <1>1 DEF ChainInv, Asked
  <2>2. c = command
    BY <2>1 DEF IInv, TypeOK
  <2> QED
    BY <1>4, <2>1, <2>2
<1>7. \A s \in Slots : g[s] # NoDraft => filled[s] = g[s]
  BY <1>5, <1>6
<1>8. CandidateOf(D, filled, slot) = command.draft
  BY <1>1, <1>5 DEF CandidateOf
<1>9. ASSUME NEW s \in Slots, filled[s] # NoDraft
      PROVE  Open(s) /\ s.first < s.redrafts /\ Asked(D, filled, s)
  <2>1. CASE s = next
    <3>1. Limit(slot.unit) \in Nat
      BY <1>2, LimitType, RouteFacts DEF Limit
    <3>2. next.redrafts <= Limit(next.unit) /\ next.first <= next.redrafts
      BY <1>1, <3>1 DEF Slots
    <3>3. Open(next)
      BY <1>1, <3>2 DEF Open
    <3>4. Asked(D, filled, next)
      BY <1>1, <1>4, <1>5, <1>8 DEF Asked
    <3> QED
      BY <1>1, <2>1, <3>3, <3>4
  <2>2. CASE s # next
    <3>1. g[s] # NoDraft /\ filled[s] = g[s]
      BY <1>5, <1>9, <2>2
    <3>2. Open(s) /\ s.first < s.redrafts /\ Asked(D, g, s)
      BY <3>1 DEF ChainInv
    <3>3. PICK c \in receipts.begun :
            /\ c.action = "regenerate" /\ c.draft = CandidateOf(D, g, Before(s))
            /\ g[s] = KeyOf(s.unit, s.attempts + s.redrafts, c.direction)
      BY <3>2 DEF Asked
    <3>4. c.draft # NoDraft /\ Before(s) \in Slots
      BY <3>2, NoCommandOnNothing, BeforeFacts
    <3>5. c.draft = CandidateOf(D, filled, Before(s))
      BY <1>7, <3>3, <3>4 DEF CandidateOf
    <3> QED
      BY <3>1, <3>2, <3>3, <3>5 DEF Asked
  <2> QED
    BY <2>1, <2>2
<1> QED
  BY <1>4, <1>5, <1>7, <1>8, <1>9 DEF ChainInv, filled, next, key

(* The key of a call is a slot's of where the graph is.                    *)
LEMMA KeyIsKeyOf ==
  ASSUME NEW state, NEW direction
  PROVE  Key(state, direction) =
           KeyOf(Unit(state), state.attempts[Stage(state)] + state.redrafts + 1, direction)
  BY DEF Key, KeyOf

LEMMA CallPlace ==
  ASSUME IInv, CountersInv, job.phase = "graph", checkpoint.node \in Drafting
  PROVE  LET state == checkpoint.state
         IN  /\ Synced /\ Unit(state) \in Units /\ Stage(state) = Route[Unit(state)]
             /\ state.attempts[Stage(state)] \in Nat /\ state.redrafts \in Nat
             /\ state.attempts[Stage(state)] = Attempts(Unit(state))
             /\ state.redrafts <= Limit(Unit(state)) /\ Limit(Unit(state)) \in Nat
             /\ \A D : DirectionInv(D) => state.direction = D[Unit(state)][state.attempts[Stage(state)]]
<1> DEFINE state == checkpoint.state
<1>1. state \in RunStates /\ Len(state.artifacts) < Len(Route)
  BY RedraftTypes DEF IInv, NodeInv, Working, Drafting
<1>2. Unit(state) \in Units /\ Stage(state) \in Stages /\ Stage(state) = Route[Unit(state)]
  BY <1>1, StageInRoute DEF Stage
<1>3. state.attempts[Stage(state)] \in Nat /\ state.redrafts \in Nat
  BY <1>1, <1>2, StateFields
<1>4. Synced
  BY DEF CountersInv, Restarting
<1> QED
  BY <1>1, <1>2, <1>3, <1>4, LimitType DEF CountersInv, WithinLimit, Synced, Attempts, Limit, DirectionInv, Directs

LEMMA DraftHistory ==
  ASSUME IInv, CountersInv, HistoryInv, NEW direction \in Directions \cup {NoDirection}, Draft(direction)
  PROVE  HistoryInv'
<1> DEFINE state == checkpoint.state
           a == state.attempts[Stage(state)]
           key == Key(state, direction)
<1>1. /\ drafted' \cup rejected' = drafted \cup rejected \cup {key}
      /\ UNCHANGED <<record, checkpoint, receipts, repairs>>
      /\ Calls(direction)
  BY DEF Draft, Wants
<1>2. job.phase = "graph" /\ checkpoint.node \in Drafting
  BY <1>1, CallFacts
<1>3. /\ Unit(state) \in Units /\ a \in Nat /\ state.redrafts \in Nat
      /\ a = Attempts(Unit(state)) /\ state.redrafts <= Limit(Unit(state)) /\ Limit(Unit(state)) \in Nat
      /\ \A D : DirectionInv(D) => state.direction = D[Unit(state)][a]
  BY <1>2, CallPlace
<1>4. PICK D \in Directed, g \in Redrafted : History(D, g)
  BY DEF HistoryInv
<1>5. key = KeyOf(Unit(state), a + state.redrafts + 1, direction) /\ key.unit = Unit(state)
  BY KeyIsKeyOf DEF KeyOf
<1> HIDE DEF a, key
<1>6. ASSUME NEW h \in Redrafted, ChainInv(D, h), PlacedInv(D, h),
             \A s \in Slots : g[s] # NoDraft => h[s] = g[s],
             FromGenerate(D, key) \/ FromRedraft(h, key)
      PROVE  HistoryInv'
  <2>1. \A k \in drafted \cup rejected : k # NoDraft
    BY NoDraftAssumption DEF IInv, TypeOK
  <2>2. \A k \in drafted \cup rejected : FromRedraft(g, k) => FromRedraft(h, k)
    BY <1>6, <2>1 DEF FromRedraft
  <2>3. \A k \in drafted' \cup rejected' : FromGenerate(D, k) \/ FromRedraft(h, k)
    BY <1>1, <1>4, <1>6, <2>2 DEF History, KeysInv
  <2>4. KeysInv(D, h)'
    BY <1>1, <2>3 DEF KeysInv, FromGenerate, FromRedraft, Attempts
  <2>5. ChainInv(D, h)'
    BY <1>1, <1>6, ChainStays
  <2>6. PlacedInv(D, h)'
    BY <1>1, <1>6, PlacedStays
  <2>7. DirectionInv(D)'
    BY <1>1, <1>4 DEF History, DirectionInv, Directs, Unit, Stage
  <2> QED
    BY <2>4, <2>5, <2>6, <2>7 DEF HistoryInv, History
<1>7. CASE Running("generate") /\ direction = state.direction
  <2>1. direction = D[Unit(state)][a]
    BY <1>3, <1>4, <1>7 DEF History
  <2>2. a \in 0 .. Attempts(key.unit) /\ state.redrafts \in 0 .. Limit(key.unit)
    BY <1>3, <1>5
  <2>3. FromGenerate(D, key)
    BY <1>5, <2>1, <2>2 DEF FromGenerate
  <2> QED
    BY <1>4, <1>6, <2>3 DEF History
<1>8. CASE Answered("regenerate") /\ direction = job.command.direction
  <2>1. /\ checkpoint.node = "decision" /\ job.command \in receipts.begun
        /\ job.command.action = "regenerate" /\ job.command.draft = state.candidate
    BY <1>8, AnsweredFacts
  <2>2. state.redrafts < Limit(Unit(state))
    BY <1>8 DEF Answered, Answers, Limit, Stage
  <2>3. PICK slot \in Slots :
          /\ Open(slot) /\ PlaceOf(slot, state) /\ CandidateOf(D, g, slot) = state.candidate
    BY <1>4, <2>1 DEF History, PlacedInv
  <2>4. slot.unit = Unit(state) /\ slot.attempts = a /\ slot.redrafts = state.redrafts
    BY <2>3 DEF PlaceOf, a
  <2> DEFINE filled == Filled(g, slot, direction)
  <2>5. /\ filled \in Redrafted /\ ChainInv(D, filled)
        /\ filled[Following(slot)] = key
        /\ \A s \in Slots : g[s] # NoDraft => filled[s] = g[s]
        /\ CandidateOf(D, filled, slot) = state.candidate
    BY <1>4, <1>5, <1>8, <2>1, <2>2, <2>3, <2>4, FillingFacts DEF History
  <2> HIDE DEF filled
  <2>6. PlacedInv(D, filled)
    BY <2>3, <2>5 DEF PlacedInv
  <2>7. FromRedraft(filled, key)
    BY <1>5, <2>3, <2>4, <2>5, FollowingFacts DEF FromRedraft
  <2> QED
    BY <1>6, <2>5, <2>6, <2>7
<1> QED
  BY <1>1, <1>7, <1>8 DEF Calls

(* A candidate that heads a line of redrafts: generated, or a repair.      *)
LineHead(unit, origin, attempts, redrafts) ==
  [unit |-> unit, origin |-> origin, attempts |-> attempts, first |-> redrafts, redrafts |-> redrafts]

(* The driver of a repair returns a repair that was begun.                 *)
LEMMA RepairCall ==
  ASSUME IInv, NEW draft, NEW direction \in Directions \cup {NoDirection},
         Returns(draft, direction), job.repair # NoDraft
  PROVE  job.repair \in repairs.begun /\ job.repair.unit = Unit(checkpoint.state) /\ draft = job.repair
<1>1. draft = job.repair
  BY DEF Returns
<1>2. draft.unit = Unit(checkpoint.state)
  BY ReturnFacts
<1>3. job.repair \in repairs.begun
  BY DEF IInv, TypeOK
<1> QED
  BY <1>1, <1>2, <1>3

(* The next candidate that waits for a decision.                           *)
LEMMA CandidateHistory ==
  ASSUME IInv, NEW D \in Directed, NEW g \in Redrafted,
         ChainInv(D, g), KeysInv(D, g), DirectionInv(D),
         UNCHANGED <<record, receipts, operations, repairs>>,
         SamePlace(checkpoint.state, checkpoint'.state),
         NEW slot \in Slots, Open(slot), PlaceOf(slot, checkpoint'.state),
         CandidateOf(D, g, slot) = checkpoint'.state.candidate
  PROVE  HistoryInv'
<1>1. ChainInv(D, g)' /\ KeysInv(D, g)'
  BY ChainStays, KeysStay DEF operations
<1>2. DirectionInv(D)'
  BY SamePlaceFacts DEF DirectionInv, Directs, SamePlace, Unit, Stage
<1>3. Open(slot)'
  BY OpenStays
<1>4. PlacedInv(D, g)'
  BY <1>3 DEF PlacedInv, PlaceOf, CandidateOf, Origin, Unit, Stage
<1> QED
  BY <1>1, <1>2, <1>4 DEF HistoryInv, History

LEMMA GeneratedHistory ==
  ASSUME IInv, CountersInv, HistoryInv, NEW draft, Generated(draft) PROVE HistoryInv'
<1> DEFINE state == checkpoint.state
           a == state.attempts[Stage(state)]
<1>1. /\ job.phase = "graph" /\ checkpoint.node = "generate"
      /\ UNCHANGED <<record, receipts, operations, repairs>>
      /\ SamePlace(state, checkpoint'.state)
      /\ checkpoint'.state.redrafts = state.redrafts /\ checkpoint'.state.candidate = draft
      /\ Returns(draft, state.direction)
  BY GeneratedPlace DEF Generated
<1>2. /\ Unit(state) \in Units /\ a \in Nat /\ state.redrafts \in Nat
      /\ a = Attempts(Unit(state)) /\ state.redrafts <= Limit(Unit(state))
      /\ \A D : DirectionInv(D) => state.direction = D[Unit(state)][a]
  BY <1>1, CallPlace DEF Drafting
<1>3. PICK D \in Directed, g \in Redrafted : History(D, g)
  BY DEF HistoryInv
<1>4. job.repair # NoDraft => job.repair \in repairs.begun /\ job.repair.unit = Unit(state) /\ draft = job.repair
  <2>1. state.direction \in Directions \cup {NoDirection}
    BY RedraftTypes, StateFields
  <2> QED
    BY <1>1, <2>1, RepairCall
<1>5. job.repair = NoDraft => draft = KeyOf(Unit(state), a + state.redrafts + 1, D[Unit(state)][a])
  BY <1>1, <1>2, <1>3, KeyIsKeyOf DEF Returns, History
<1>6. job.repair \in Drafts \cup {NoDraft}
  BY RedraftTypes DEF JobType
<1> DEFINE slot == LineHead(Unit(state), job.repair, a, state.redrafts)
<1> HIDE DEF a
<1>7. /\ slot \in Slots /\ Open(slot) /\ CandidateOf(D, g, slot) = draft
      /\ slot.unit = Unit(state) /\ slot.attempts = a /\ slot.redrafts = state.redrafts
  <2>1. a <= Attempts(Unit(state)) /\ state.redrafts <= Limit(Unit(state))
    BY <1>2
  <2>2. job.repair # NoDraft => job.repair \in repairs.begun /\ job.repair.unit = Unit(state)
    BY <1>4
  <2>3. /\ slot \in Slots /\ Open(slot)
        /\ slot.unit = Unit(state) /\ slot.attempts = a /\ slot.redrafts = state.redrafts
        /\ job.repair = NoDraft =>
             CandidateOf(D, g, slot) = KeyOf(Unit(state), a + state.redrafts + 1, D[Unit(state)][a])
        /\ job.repair # NoDraft => CandidateOf(D, g, slot) = job.repair
    BY <1>2, <1>6, <2>1, <2>2 DEF LineHead, Slots, Open, CandidateOf, Origin
  <2> HIDE DEF slot
  <2> QED
    BY <1>4, <1>5, <2>3
<1> HIDE DEF slot
<1>8. PlaceOf(slot, checkpoint'.state)
  BY <1>1, <1>7, SamePlaceFacts DEF PlaceOf, SamePlace, a
<1> QED
  BY <1>1, <1>3, <1>7, <1>8, CandidateHistory DEF History

LEMMA RegeneratedHistory ==
  ASSUME IInv, CountersInv, HistoryInv, NEW draft, Regenerated(draft) PROVE HistoryInv'
<1> DEFINE state == checkpoint.state
           a == state.attempts[Stage(state)]
<1>1. /\ job.phase = "graph" /\ checkpoint.node = "decision"
      /\ UNCHANGED <<record, receipts, operations, repairs>>
      /\ SamePlace(state, checkpoint'.state)
      /\ checkpoint'.state.redrafts = state.redrafts + 1 /\ checkpoint'.state.candidate = draft
      /\ job.command \in receipts.begun
      /\ job.command.action = "regenerate" /\ job.command.draft = state.candidate
      /\ Returns(draft, job.command.direction)
  BY RegeneratedPlace
<1>2. /\ Unit(state) \in Units /\ a \in Nat /\ state.redrafts \in Nat
      /\ a = Attempts(Unit(state)) /\ Limit(Unit(state)) \in Nat
  BY <1>1, CallPlace DEF Drafting
<1>3. state.redrafts < Limit(Unit(state))
  BY RegeneratedPlace DEF Limit, Stage
<1>4. PICK D \in Directed, g \in Redrafted : History(D, g)
  BY DEF HistoryInv
<1>5. job.command.direction \in Directions \cup {NoDirection}
  BY <1>1, NoCommandOnNothing
<1>6. CASE job.repair = NoDraft
  <2>1. draft = KeyOf(Unit(state), a + state.redrafts + 1, job.command.direction)
    BY <1>1, <1>6, KeyIsKeyOf DEF Returns
  <2>2. PICK slot \in Slots :
          /\ Open(slot) /\ PlaceOf(slot, state) /\ CandidateOf(D, g, slot) = state.candidate
    BY <1>1, <1>4 DEF History, PlacedInv
  <2>3. slot.unit = Unit(state) /\ slot.attempts = a /\ slot.redrafts = state.redrafts
    BY <2>2 DEF PlaceOf
  <2> DEFINE filled == Filled(g, slot, job.command.direction)
             next == Following(slot)
  <2> HIDE DEF a
  <2>4. /\ filled \in Redrafted /\ ChainInv(D, filled) /\ filled[next] = draft
        /\ \A s \in Slots : g[s] # NoDraft => filled[s] = g[s]
        /\ draft \in Drafts
    BY <1>1, <1>3, <1>4, <2>1, <2>2, <2>3, FillingFacts DEF History
  <2>5. /\ next \in Slots /\ next.unit = slot.unit /\ next.attempts = slot.attempts
        /\ next.redrafts = slot.redrafts + 1 /\ next.first < next.redrafts
    BY <2>2, FollowingFacts
  <2> HIDE DEF filled, next
  <2>6. next.first # next.redrafts
    BY <2>5 DEF Slots
  <2>7. Open(next) /\ CandidateOf(D, filled, next) = draft
    BY <2>4, <2>5, <2>6, NoDraftAssumption DEF ChainInv, CandidateOf
  <2>8. KeysInv(D, filled)
    <3>1. \A k \in drafted \cup rejected : k # NoDraft
      BY NoDraftAssumption DEF IInv, TypeOK
    <3> QED
      BY <1>4, <2>4, <3>1 DEF History, KeysInv, FromRedraft
  <2>9. PlaceOf(next, checkpoint'.state)
    BY <1>1, <2>3, <2>5, SamePlaceFacts DEF PlaceOf, SamePlace, a
  <2> QED
    BY <1>1, <1>4, <2>4, <2>5, <2>7, <2>8, <2>9, CandidateHistory DEF History
<1>7. CASE job.repair # NoDraft
  <2>1. job.repair \in repairs.begun /\ job.repair.unit = Unit(state) /\ draft = job.repair
    BY <1>1, <1>5, <1>7, RepairCall
  <2>2. job.repair \in Drafts \cup {NoDraft} /\ state.redrafts + 1 \in Nat
    BY <1>2, RedraftTypes DEF JobType
  <2> DEFINE slot == LineHead(Unit(state), job.repair, a, state.redrafts + 1)
  <2> HIDE DEF a
  <2>3. a <= Attempts(Unit(state)) /\ state.redrafts + 1 <= Limit(Unit(state))
    BY <1>2, <1>3
  <2>4. /\ slot \in Slots /\ Open(slot) /\ CandidateOf(D, g, slot) = draft
        /\ slot.unit = Unit(state) /\ slot.attempts = a /\ slot.redrafts = state.redrafts + 1
    BY <1>2, <1>7, <2>1, <2>2, <2>3 DEF LineHead, Slots, Open, CandidateOf, Origin
  <2> HIDE DEF slot
  <2>5. PlaceOf(slot, checkpoint'.state)
    BY <1>1, <2>4, SamePlaceFacts DEF PlaceOf, SamePlace, a
  <2> QED
    BY <1>1, <1>4, <2>4, <2>5, CandidateHistory DEF History
<1> QED
  BY <1>6, <1>7

(* A recovery has a direction of its own for attempts that nothing of the  *)
(* unit was generated under.                                               *)
LEMMA RecoverHistory ==
  ASSUME IInv, CountersInv, HistoryInv, NEW direction \in Directions, Recover(direction)
  PROVE  HistoryInv'
<1> DEFINE state == record.state
<1>1. PICK u \in Units, stage \in Stages, n \in Nat :
        /\ u = Unit(state) /\ stage = Stage(state) /\ n > state.attempts[stage]
        /\ record'.state.attempts = [state.attempts EXCEPT ![stage] = n]
        /\ record'.state.artifacts = state.artifacts /\ record'.state.direction = direction
        /\ Synced /\ SameUnit
        /\ UNCHANGED <<checkpoint, receipts, operations, repairs>>
  BY RecoverFacts DEF Recover
<1>2. state.attempts \in [Stages -> Nat] /\ stage = Route[u]
  BY <1>1, RedraftTypes, StateFields DEF Stage
<1>3. PICK D \in Directed, g \in Redrafted : History(D, g)
  BY DEF HistoryInv
<1>4. PICK E \in Directed :
        /\ E[u][n] = direction
        /\ \A unit \in Units : \A a \in Nat : unit # u \/ a # n => E[unit][a] = D[unit][a]
  <2> DEFINE F == [D EXCEPT ![u][n] = direction]
  <2>1. F \in Directed /\ F[u][n] = direction
    BY DEF Directed
  <2>2. \A unit \in Units : \A a \in Nat : unit # u \/ a # n => F[unit][a] = D[unit][a]
    BY DEF Directed
  <2> HIDE DEF F
  <2> QED
    BY <2>1, <2>2
<1>5. \A unit \in Units :
        /\ Attempts(unit) \in Nat /\ Attempts(unit)' \in Nat /\ Attempts(unit) <= Attempts(unit)'
        /\ \A a \in Nat : a <= Attempts(unit) => E[unit][a] = D[unit][a]
  BY <1>1, <1>2, <1>4, RouteFacts DEF Attempts
<1>6. ASSUME NEW slot \in Slots, Open(slot)
      PROVE  Open(slot)' /\ Origin(E, slot) = Origin(D, slot) /\ CandidateOf(E, g, slot) = CandidateOf(D, g, slot)
  <2>1. /\ slot.unit \in Units /\ slot.attempts \in Nat /\ slot.attempts <= Attempts(slot.unit)
    BY <1>6 DEF Slots, Open
  <2>2. slot.attempts <= Attempts(slot.unit)'
    BY <1>5, <2>1
  <2>3. Origin(E, slot) = Origin(D, slot)
    BY <1>5, <2>1 DEF Origin
  <2> QED
    BY <1>1, <1>6, <2>2, <2>3 DEF Open, CandidateOf, Limit
<1>7. ChainInv(E, g)'
  <2> SUFFICES ASSUME NEW slot \in Slots, g[slot] # NoDraft
               PROVE  (Open(slot) /\ slot.first < slot.redrafts /\ Asked(E, g, slot))'
    BY DEF ChainInv
  <2>1. Open(slot) /\ slot.first < slot.redrafts /\ Asked(D, g, slot)
    BY <1>3 DEF History, ChainInv
  <2>2. Before(slot) \in Slots /\ Open(Before(slot))
    <3>1. Before(slot) \in Slots
      BY <2>1, BeforeFacts
    <3>2. /\ Before(slot).unit = slot.unit /\ Before(slot).origin = slot.origin
          /\ Before(slot).attempts = slot.attempts /\ Before(slot).first = slot.first
          /\ Before(slot).redrafts = slot.redrafts - 1
      BY DEF Slots, Before
    <3>3. Limit(slot.unit) \in Nat
      BY LimitType, RouteFacts DEF Limit, Slots
    <3> QED
      BY <2>1, <3>1, <3>2, <3>3 DEF Open, Slots
  <2>3. CandidateOf(E, g, Before(slot)) = CandidateOf(D, g, Before(slot))
    BY <1>6, <2>2
  <2>4. Asked(E, g, slot)
    BY <2>1, <2>3 DEF Asked
  <2>5. Asked(E, g, slot)'
    BY <1>1, <2>4 DEF Asked, CandidateOf, Origin
  <2> QED
    BY <1>6, <2>1, <2>5
<1>8. KeysInv(E, g)'
  <2> SUFFICES ASSUME NEW key \in drafted \cup rejected
               PROVE  FromGenerate(E, key)' \/ FromRedraft(g, key)'
    BY <1>1 DEF KeysInv, operations
  <2>1. FromGenerate(D, key) \/ FromRedraft(g, key)
    BY <1>3 DEF History, KeysInv
  <2>2. CASE FromRedraft(g, key)
    BY <2>2 DEF FromRedraft
  <2>3. CASE FromGenerate(D, key)
    <3>1. PICK a \in 0 .. Attempts(key.unit), r \in 0 .. Limit(key.unit) :
            key = KeyOf(key.unit, a + r + 1, D[key.unit][a])
      BY <2>3 DEF FromGenerate
    <3>2. key.unit \in Units
      BY DEF IInv, TypeOK, Drafts
    <3>3. a \in Nat /\ a <= Attempts(key.unit) /\ a \in 0 .. Attempts(key.unit)'
      BY <1>5, <3>1, <3>2
    <3>4. key = KeyOf(key.unit, a + r + 1, E[key.unit][a])
      BY <1>5, <3>1, <3>2, <3>3
    <3> QED
      BY <3>1, <3>3, <3>4 DEF FromGenerate, Limit
  <2> QED
    BY <2>1, <2>2, <2>3
<1>9. DirectionInv(E)'
  <2>1. Unit(record'.state) = u /\ Stage(record'.state) = stage /\ u \in Nat
    BY <1>1, RedraftTypes DEF Unit, Stage
  <2>2. Directs(E, record'.state)
    BY <1>1, <1>2, <1>4, <2>1 DEF Directs
  <2>3. Unit(checkpoint.state) = u /\ Stage(checkpoint.state) = stage
    BY <1>1 DEF SameUnit, Unit, Stage
  <2>4. checkpoint.state.attempts[stage] \in Nat /\ checkpoint.state.attempts[stage] # n
    BY <1>1, <1>2 DEF Synced
  <2>5. Directs(E, checkpoint.state)
    BY <1>1, <1>3, <1>4, <2>3, <2>4 DEF Directs, History, DirectionInv
  <2>6. \A unit \in Units : unit > u => \A a \in Nat : E[unit][a] = NoDirection
    BY <1>1, <1>3, <1>4, <2>1 DEF History, DirectionInv
  <2> QED
    BY <1>1, <2>1, <2>2, <2>5, <2>6 DEF DirectionInv, Directs, Unit, Stage
<1>10. PlacedInv(E, g)'
  BY <1>1, <1>3, <1>6 DEF History, PlacedInv, PlaceOf, CandidateOf, Origin, Unit, Stage
<1> QED
  BY <1>4, <1>7, <1>8, <1>9, <1>10 DEF HistoryInv, History

(* A projection after a failure, and one after success.                    *)
LEMMA ProjectedHistory ==
  ASSUME IInv, IInv', CountersInv, HistoryInv, job.phase \in {"project", "failing"},
         SamePlace(checkpoint.state, record'.state),
         UNCHANGED <<checkpoint, receipts, operations, repairs>>
  PROVE  HistoryInv'
<1>1. Synced
  BY DEF CountersInv, Restarting
<1> QED
  BY <1>1, RestHistory DEF operations

LEMMA RetryHistory ==
  ASSUME IInv, IInv', CountersInv, HistoryInv, NEW candidate \in repairs.begun, RetryLocally(candidate)
  PROVE  HistoryInv'
<1>1. SamePlace(record.state, record'.state) /\ checkpoint' = checkpoint /\ Synced
  BY RetryPlace DEF CountersInv
<1>2. UNCHANGED <<receipts, operations, repairs>>
  BY DEF RetryLocally
<1> QED
  BY <1>1, <1>2, RestHistory DEF operations

LEMMA CommandHistory == ASSUME IInv, IInv', CountersInv, HistoryInv, Command PROVE HistoryInv'
<1>1. /\ receipts \in [begun : SUBSET Commands, succeeded : SUBSET Commands]
      /\ repairs \in [begun : SUBSET Drafts, succeeded : SUBSET Drafts]
  BY DEF IInv, TypeOK
<1>2. CASE Start
  BY <1>2, StillHistory DEF Start, operations
<1>3. ASSUME NEW c \in Submittable, Submit(c) PROVE HistoryInv'
  <2>1. receipts.begun \subseteq receipts'.begun
    BY <1>1, <1>3 DEF Submit
  <2> QED
    BY <1>3, <2>1, StillHistory DEF Submit, operations
<1>4. ASSUME NEW c \in receipts.begun, SubmitAgain(c) PROVE HistoryInv'
  <2>1. receipts'.begun = receipts.begun
    BY <1>1, <1>4 DEF SubmitAgain
  <2> QED
    BY <1>4, <2>1, StillHistory DEF SubmitAgain, operations
<1>5. CASE \E d \in Directions : Recover(d)
  BY <1>5, RecoverHistory
<1>6. ASSUME NEW id \in RepairIds, BeginRepair(id) PROVE HistoryInv'
  <2>1. repairs.begun \subseteq repairs'.begun
    BY <1>1, <1>6 DEF BeginRepair
  <2> QED
    BY <1>6, <2>1, StillHistory DEF BeginRepair, operations
<1>7. ASSUME NEW c \in repairs.begun, RepairIsPending(c) PROVE HistoryInv'
  <2>1. repairs'.begun = repairs.begun
    BY <1>1, <1>7 DEF RepairIsPending
  <2> QED
    BY <1>7, <2>1, StillHistory DEF RepairIsPending, operations
<1>8. CASE \E c \in repairs.begun : ReplayRegeneration(c)
  BY <1>8, StillHistory DEF ReplayRegeneration, operations
<1>9. CASE \E c \in repairs.begun : RetryLocally(c)
  BY <1>9, RetryHistory
<1> QED
  BY <1>2, <1>3, <1>4, <1>5, <1>6, <1>7, <1>8, <1>9 DEF Command

LEMMA GraphStepHistory == ASSUME IInv, IInv', CountersInv, HistoryInv, GraphStep PROVE HistoryInv'
<1>1. CASE StageStarted \/ AutoContinue \/ Accepted \/ Cancelled \/ StageFinished
  BY <1>1, NodeMovesHistory
<1>2. CASE \E d \in Directions \cup {NoDirection} : Draft(d)
  BY <1>2, DraftHistory
<1>3. CASE \E d \in Directions \cup {NoDirection} : DraftRejected(d)
  BY <1>3, StillHistory DEF DraftRejected, operations
<1>4. CASE \E draft \in drafted \cup rejected \cup repairs.begun : Generated(draft) \/ Regenerated(draft)
  BY <1>4, GeneratedHistory, RegeneratedHistory
<1>5. CASE Mismatch
  BY <1>5, StillHistory DEF Mismatch, operations
<1>6. CASE Ask
  <2>1. checkpoint'.state = checkpoint.state /\ checkpoint'.node = checkpoint.node
    BY <1>6, RedraftTypes DEF Ask, CheckpointType
  <2> QED
    BY <1>6, <2>1, StillHistory DEF Ask, operations
<1>7. CASE Commit
  BY <1>7, CommitHistory
<1>8. CASE GraphEnds
  BY <1>8, StillHistory DEF GraphEnds, operations
<1> QED
  BY <1>1, <1>2, <1>3, <1>4, <1>5, <1>6, <1>7, <1>8 DEF GraphStep

LEMMA NextHistory ==
  ASSUME IInv, IInv', CountersInv, HistoryInv, [Next]_vars PROVE HistoryInv'
<1>1. CASE EnterFresh
  BY <1>1, EnterFreshHistory
<1>2. CASE EnterWithCommand
  BY <1>2, StillHistory DEF EnterWithCommand, operations
<1>3. CASE Project
  BY <1>3, ProjectPlace, ProjectedHistory
<1>4. CASE ProjectFailure
  BY <1>4, FailurePlace, ProjectedHistory
<1>5. CASE Settle
  <2>1. receipts'.begun = receipts.begun
    BY <1>5, SucceededFacts DEF Settle
  <2>2. repairs'.begun = repairs.begun
    BY <1>5 DEF Settle, IInv, TypeOK
  <2> QED
    BY <1>5, <2>1, <2>2, StillHistory DEF Settle, operations
<1>6. CASE ReconcileConsumed
  <2>1. receipts'.begun = receipts.begun
    BY <1>6, SucceededFacts DEF ReconcileConsumed
  <2> QED
    BY <1>6, <2>1, StillHistory DEF ReconcileConsumed, operations
<1>7. CASE \E failure \in {"transport", "other"} : NodeFails(failure)
  BY <1>7, StillHistory DEF NodeFails, operations
<1>8. CASE Crash
  BY <1>8, StillHistory DEF Crash, operations
<1>9. CASE UNCHANGED vars
  BY <1>9, StillHistory DEF vars, operations
<1> QED
  BY <1>1, <1>2, <1>3, <1>4, <1>5, <1>6, <1>7, <1>8, <1>9, CommandHistory, GraphStepHistory
     DEF Next, Step, Fault

(* The repairs begun are finitely many.                                    *)
RepairsFinite == IsFiniteSet(repairs.begun)

LEMMA InitRepairsFinite == ASSUME Init PROVE RepairsFinite
  BY FS_EmptySet DEF Init, NoReceipts, RepairsFinite

LEMMA NextRepairsFinite == ASSUME IInv, RepairsFinite, [Next]_vars PROVE RepairsFinite'
<1>1. repairs \in [begun : SUBSET Drafts, succeeded : SUBSET Drafts]
  BY DEF IInv, TypeOK
<1>2. ASSUME NEW id \in RepairIds, BeginRepair(id) PROVE RepairsFinite'
  <2>1. repairs'.begun = repairs.begun \cup {RepairOf(latest, id)}
    BY <1>1, <1>2 DEF BeginRepair
  <2> QED
    BY <2>1, FS_AddElement DEF RepairsFinite
<1>3. CASE \E c \in repairs.begun : RepairIsPending(c)
  BY <1>1, <1>3 DEF RepairIsPending, RepairsFinite
<1>4. CASE Settle
  BY <1>1, <1>4 DEF Settle, RepairsFinite
<1>5. CASE UNCHANGED repairs
  BY <1>5 DEF RepairsFinite
<1>6. CASE GraphStep
  BY <1>5, <1>6 DEF GraphStep, StageStarted, Draft, DraftRejected, Generated, Regenerated, AutoContinue, Ask,
     Mismatch, Accepted, Cancelled, Commit, StageFinished, GraphEnds
<1>7. CASE Command
  BY <1>2, <1>3, <1>5, <1>7 DEF Command, Start, Submit, SubmitAgain, Recover, ReplayRegeneration, RetryLocally
<1> QED
  BY <1>4, <1>5, <1>6, <1>7 DEF Next, Step, Fault, vars, EnterFresh, EnterWithCommand, Project, ProjectFailure,
     ReconcileConsumed, NodeFails, Crash

LEMMA HistoryInvariance == Spec => [](IInv /\ CountersInv /\ HistoryInv /\ RepairsFinite)
<1>1. Init => IInv /\ RedraftInv /\ CountersInv /\ HistoryInv /\ RepairsFinite
  BY InitIInv, InitRedrafts, InitCounters, InitHistory, InitRepairsFinite
<1>2. IInv /\ RedraftInv /\ CountersInv /\ HistoryInv /\ RepairsFinite /\ [Next]_vars
        => (IInv /\ RedraftInv /\ CountersInv /\ HistoryInv /\ RepairsFinite)'
  BY NextIInv, NextRedrafts, NextCounters, NextHistory, NextRepairsFinite
<1> QED
  BY <1>1, <1>2, PTL DEF Spec

-----------------------------------------------------------------------------
(* How many keys and slots there are.                                      *)
LEMMA ImageSize ==
  ASSUME NEW S, IsFiniteSet(S), NEW T, NEW f \in [S -> T]
  PROVE  /\ IsFiniteSet({f[x] : x \in S})
         /\ Cardinality({f[x] : x \in S}) <= Cardinality(S)
<1>1. f \in Surjection(S, {f[x] : x \in S})
  BY DEF Surjection
<1> QED
  BY <1>1, FS_Surjection

Square(limit) == (0 .. limit) \X (0 .. limit)
Rising(limit) == {pair \in Square(limit) : pair[1] < pair[2]}
Falling(limit) == {pair \in Square(limit) : pair[2] < pair[1]}
Level(limit) == {pair \in Square(limit) : pair[1] = pair[2]}

LEMMA SquareSize ==
  ASSUME NEW limit \in Nat
  PROVE  IsFiniteSet(Square(limit)) /\ Cardinality(Square(limit)) = (limit + 1) * (limit + 1)
<1>1. IsFiniteSet(0 .. limit) /\ Cardinality(0 .. limit) = limit + 1
  BY FS_Interval
<1> QED
  BY <1>1, FS_Product DEF Square

LEMMA LevelSize == ASSUME NEW limit \in Nat PROVE Cardinality(Level(limit)) = limit + 1
<1> DEFINE f == [x \in 0 .. limit |-> <<x, x>>]
<1>1. IsFiniteSet(0 .. limit) /\ Cardinality(0 .. limit) = limit + 1
  BY FS_Interval
<1>2. f \in [0 .. limit -> Level(limit)]
  BY DEF Level, Square
<1>3. \A x, y \in 0 .. limit : f[x] = f[y] => x = y
  OBVIOUS
<1>4. \A pair \in Level(limit) : \E x \in 0 .. limit : f[x] = pair
  <2> SUFFICES ASSUME NEW pair \in Level(limit) PROVE \E x \in 0 .. limit : f[x] = pair
    OBVIOUS
  <2>1. pair[1] \in 0 .. limit /\ f[pair[1]] = pair
    BY DEF Level, Square
  <2> QED
    BY <2>1
<1>5. ExistsBijection(0 .. limit, Level(limit))
  BY <1>2, <1>3, <1>4 DEF ExistsBijection, Bijection, Injection, Surjection, IsInjective
<1> QED
  BY <1>1, <1>5, FS_Bijection

LEMMA FallingSize ==
  ASSUME NEW limit \in Nat
  PROVE  Cardinality(Falling(limit)) = Cardinality(Rising(limit))
<1> DEFINE f == [pair \in Rising(limit) |-> <<pair[2], pair[1]>>]
<1>1. IsFiniteSet(Rising(limit))
  BY SquareSize, FS_Subset DEF Rising
<1>2. f \in [Rising(limit) -> Falling(limit)]
  BY DEF Rising, Falling, Square
<1>3. \A x, y \in Rising(limit) : f[x] = f[y] => x = y
  BY DEF Rising, Square
<1>4. \A pair \in Falling(limit) : \E x \in Rising(limit) : f[x] = pair
  <2> SUFFICES ASSUME NEW pair \in Falling(limit) PROVE \E x \in Rising(limit) : f[x] = pair
    OBVIOUS
  <2>1. <<pair[2], pair[1]>> \in Rising(limit) /\ f[<<pair[2], pair[1]>>] = pair
    BY DEF Rising, Falling, Square
  <2> QED
    BY <2>1
<1>5. ExistsBijection(Rising(limit), Falling(limit))
  BY <1>2, <1>3, <1>4 DEF ExistsBijection, Bijection, Injection, Surjection, IsInjective
<1> QED
  BY <1>1, <1>5, FS_Bijection

(* There are half as many rising pairs as pairs of different numbers.      *)
LEMMA RisingSize ==
  ASSUME NEW limit \in Nat
  PROVE  LET size == Cardinality(Rising(limit))
         IN  /\ IsFiniteSet(Rising(limit)) /\ size \in Nat
             /\ (limit + 1) * (limit + 1) = 2 * size + (limit + 1)
<1> DEFINE Slanted == Rising(limit) \cup Falling(limit)
<1>1. IsFiniteSet(Rising(limit)) /\ IsFiniteSet(Falling(limit)) /\ IsFiniteSet(Level(limit))
  BY SquareSize, FS_Subset DEF Rising, Falling, Level
<1>2. Cardinality(Rising(limit)) \in Nat
  BY <1>1, FS_CardinalityType
<1>3. IsFiniteSet(Slanted) /\ Cardinality(Slanted) = 2 * Cardinality(Rising(limit))
  <2>1. Rising(limit) \cap Falling(limit) = {}
    BY DEF Rising, Falling, Square
  <2>2. Cardinality({}) = 0
    BY FS_EmptySet
  <2>3. /\ IsFiniteSet(Slanted)
        /\ Cardinality(Slanted) = Cardinality(Rising(limit)) + Cardinality(Falling(limit)) - Cardinality({})
    BY <1>1, <2>1, FS_Union
  <2> QED
    BY <1>2, <2>2, <2>3, FallingSize
<1>4. Cardinality(Square(limit)) = Cardinality(Slanted) + Cardinality(Level(limit))
  <2>1. Square(limit) = Slanted \cup Level(limit)
    BY DEF Rising, Falling, Level, Square
  <2>2. Slanted \cap Level(limit) = {}
    BY DEF Rising, Falling, Level, Square
  <2>3. Cardinality({}) = 0
    BY FS_EmptySet
  <2>4. Cardinality(Slanted \cup Level(limit))
          = Cardinality(Slanted) + Cardinality(Level(limit)) - Cardinality({})
    BY <1>1, <1>3, <2>2, FS_Union
  <2> QED
    BY <1>2, <1>3, <2>1, <2>3, <2>4, LevelSize
<1> QED
  BY <1>1, <1>2, <1>3, <1>4, SquareSize, LevelSize

LEMMA HalfOfSquare ==
  ASSUME NEW n \in Nat, NEW size \in Nat, n * n = 2 * size + n
  PROVE  (n * n * (n - 1)) \div 2 = n * size
<1>1. n * size \in Nat
  OBVIOUS
<1>2. n * n * (n - 1) = n * (n * n) - n * n
  OBVIOUS
<1>3. n * (n * n) = n * (2 * size + n)
  OBVIOUS
<1>4. n * (2 * size + n) = 2 * (n * size) + n * n
  OBVIOUS
<1>5. n * n * (n - 1) = 2 * (n * size)
  BY <1>1, <1>2, <1>3, <1>4
<1>6. \A x \in Nat : (2 * x) \div 2 = x
  OBVIOUS
<1> QED
  BY <1>1, <1>5, <1>6

(* The keys of a unit, and where they come from.                           *)
KeysOf(unit) == {key \in drafted \cup rejected : key.unit = unit}
RepairsOf(unit) == {candidate \in repairs.begun : candidate.unit = unit}
Lines(unit) == (RepairsOf(unit) \cup {NoDraft}) \X ((0 .. Limit(unit)) \X Rising(Limit(unit)))
SlotOf(unit, line) ==
  [unit |-> unit, origin |-> line[1], attempts |-> line[2][1],
   first |-> line[2][2][1], redrafts |-> line[2][2][2]]
GeneratedKey(D, unit) ==
  [pair \in Square(Limit(unit)) |-> KeyOf(unit, pair[1] + pair[2] + 1, D[unit][pair[1]])]
RedraftedKey(g, unit) == [line \in Lines(unit) |-> g[SlotOf(unit, line)]]

LEMMA KeysHaveSources ==
  ASSUME IInv, CountersInv, NEW D \in Directed, NEW g \in Redrafted, History(D, g), NEW unit \in Units
  PROVE  KeysOf(unit) \subseteq
           {GeneratedKey(D, unit)[pair] : pair \in Square(Limit(unit))}
           \cup {RedraftedKey(g, unit)[line] : line \in Lines(unit)}
<1> SUFFICES ASSUME NEW key \in drafted \cup rejected, key.unit = unit
             PROVE  \/ \E pair \in Square(Limit(unit)) : GeneratedKey(D, unit)[pair] = key
                    \/ \E line \in Lines(unit) : RedraftedKey(g, unit)[line] = key
  BY DEF KeysOf
<1>1. Route[unit] \in Stages /\ Limit(unit) \in Nat
  BY RouteFacts, LimitType DEF Limit
<1>2. Attempts(unit) \in Nat /\ Attempts(unit) <= Limit(unit)
  BY <1>1, RedraftTypes, StateFields DEF CountersInv, Attempts, Limit
<1>3. key # NoDraft
  BY NoDraftAssumption DEF IInv, TypeOK
<1>4. CASE FromGenerate(D, key)
  <2>1. PICK a \in 0 .. Attempts(unit), r \in 0 .. Limit(unit) : key = KeyOf(unit, a + r + 1, D[unit][a])
    BY <1>4 DEF FromGenerate
  <2>2. <<a, r>> \in Square(Limit(unit))
    BY <1>1, <1>2 DEF Square
  <2>3. GeneratedKey(D, unit)[<<a, r>>] = key
    BY <2>1, <2>2 DEF GeneratedKey
  <2> QED
    BY <2>2, <2>3
<1>5. CASE FromRedraft(g, key)
  <2>1. PICK slot \in Slots : slot.unit = unit /\ g[slot] = key
    BY <1>5 DEF FromRedraft
  <2>2. Open(slot) /\ slot.first < slot.redrafts
    BY <1>3, <2>1 DEF History, ChainInv
  <2> DEFINE line == <<slot.origin, <<slot.attempts, <<slot.first, slot.redrafts>>>>>>
  <2>3. slot.origin \in RepairsOf(unit) \cup {NoDraft}
    BY <2>1, <2>2 DEF Open, RepairsOf
  <2>4. slot.attempts \in 0 .. Limit(unit)
    BY <1>1, <1>2, <2>1, <2>2 DEF Slots, Open
  <2>5. <<slot.first, slot.redrafts>> \in Rising(Limit(unit))
    BY <1>1, <2>1, <2>2 DEF Slots, Open, Rising, Square
  <2>6. line \in Lines(unit)
    BY <2>3, <2>4, <2>5 DEF Lines
  <2>7. SlotOf(unit, line) = slot
    BY <2>1 DEF SlotOf, Slots
  <2>8. RedraftedKey(g, unit)[line] = key
    BY <2>1, <2>6, <2>7 DEF RedraftedKey
  <2> QED
    BY <2>6, <2>8
<1> QED
  BY <1>4, <1>5 DEF History, KeysInv

LEMMA LinesSize ==
  ASSUME IInv, RepairsFinite, NEW unit \in Units
  PROVE  LET n == Limit(unit) + 1
         IN  /\ IsFiniteSet(Lines(unit))
             /\ Cardinality(Lines(unit)) = (Cardinality(RepairsOf(unit)) + 1) * ((n * n * (n - 1)) \div 2)
<1> DEFINE n == Limit(unit) + 1
           size == Cardinality(Rising(Limit(unit)))
<1>1. Limit(unit) \in Nat
  BY RouteFacts, LimitType DEF Limit
<1>2. IsFiniteSet(Rising(Limit(unit))) /\ size \in Nat /\ n * n = 2 * size + n
  BY <1>1, RisingSize
<1>3. IsFiniteSet(0 .. Limit(unit)) /\ Cardinality(0 .. Limit(unit)) = n
  BY <1>1, FS_Interval
<1>4. /\ IsFiniteSet((0 .. Limit(unit)) \X Rising(Limit(unit)))
      /\ Cardinality((0 .. Limit(unit)) \X Rising(Limit(unit))) = n * size
  BY <1>2, <1>3, FS_Product
<1>5. NoDraft \notin RepairsOf(unit) /\ IsFiniteSet(RepairsOf(unit))
  BY NoDraftAssumption, FS_Subset DEF RepairsOf, RepairsFinite, IInv, TypeOK
<1>6. /\ IsFiniteSet(RepairsOf(unit) \cup {NoDraft})
      /\ Cardinality(RepairsOf(unit) \cup {NoDraft}) = Cardinality(RepairsOf(unit)) + 1
  BY <1>5, FS_AddElement
<1>7. /\ IsFiniteSet(Lines(unit))
      /\ Cardinality(Lines(unit)) = (Cardinality(RepairsOf(unit)) + 1) * (n * size)
  BY <1>4, <1>6, FS_Product DEF Lines
<1>8. (n * n * (n - 1)) \div 2 = n * size
  BY <1>1, <1>2, HalfOfSquare
<1> QED
  BY <1>7, <1>8

LEMMA KeysAreBounded ==
  ASSUME IInv, CountersInv, HistoryInv, RepairsFinite, NEW unit \in Units
  PROVE  LET n == Limit(unit) + 1
         IN  Cardinality(KeysOf(unit))
               <= n * n + (Cardinality(RepairsOf(unit)) + 1) * ((n * n * (n - 1)) \div 2)
<1> DEFINE n == Limit(unit) + 1
<1>1. PICK D \in Directed, g \in Redrafted : History(D, g)
  BY DEF HistoryInv
<1> DEFINE G == {GeneratedKey(D, unit)[pair] : pair \in Square(Limit(unit))}
           R == {RedraftedKey(g, unit)[line] : line \in Lines(unit)}
<1>2. Limit(unit) \in Nat
  BY RouteFacts, LimitType DEF Limit
<1>3. IsFiniteSet(Square(Limit(unit))) /\ Cardinality(Square(Limit(unit))) = n * n
  BY <1>2, SquareSize
<1>4. GeneratedKey(D, unit) \in [Square(Limit(unit)) -> {GeneratedKey(D, unit)[pair] : pair \in Square(Limit(unit))}]
  BY DEF GeneratedKey
<1>5. IsFiniteSet(G) /\ Cardinality(G) <= Cardinality(Square(Limit(unit)))
  BY <1>3, <1>4, ImageSize
<1>6. RedraftedKey(g, unit) \in [Lines(unit) -> {RedraftedKey(g, unit)[line] : line \in Lines(unit)}]
  BY DEF RedraftedKey
<1>7. /\ IsFiniteSet(Lines(unit))
      /\ Cardinality(Lines(unit)) = (Cardinality(RepairsOf(unit)) + 1) * ((n * n * (n - 1)) \div 2)
  BY LinesSize
<1>8. IsFiniteSet(R) /\ Cardinality(R) <= Cardinality(Lines(unit))
  BY <1>6, <1>7, ImageSize
<1>9. KeysOf(unit) \in SUBSET (G \cup R)
  BY <1>1, KeysHaveSources
<1> HIDE DEF G, R
<1>10. Cardinality(KeysOf(unit)) <= Cardinality(G) + Cardinality(R)
  <2>1. IsFiniteSet(G \cup R) /\ Cardinality(G \cup R) = Cardinality(G) + Cardinality(R) - Cardinality(G \cap R)
    BY <1>5, <1>8, FS_Union
  <2>2. IsFiniteSet(G \cap R)
    BY <1>5, FS_Intersection
  <2>3. IsFiniteSet(KeysOf(unit)) /\ Cardinality(KeysOf(unit)) <= Cardinality(G \cup R)
    BY <1>9, <2>1, FS_Subset
  <2>4. /\ Cardinality(G) \in Nat /\ Cardinality(R) \in Nat /\ Cardinality(G \cap R) \in Nat
        /\ Cardinality(KeysOf(unit)) \in Nat /\ Cardinality(G \cup R) \in Nat
    BY <1>5, <1>8, <2>1, <2>2, <2>3, FS_CardinalityType
  <2> QED
    BY <2>1, <2>3, <2>4
<1>11. /\ Cardinality(G) \in Nat /\ Cardinality(R) \in Nat /\ Cardinality(Lines(unit)) \in Nat
       /\ Cardinality(KeysOf(unit)) \in Nat /\ n * n \in Nat
  <2>1. IsFiniteSet(KeysOf(unit))
    BY <1>5, <1>8, <1>9, FS_Union, FS_Subset
  <2> QED
    BY <1>2, <1>5, <1>7, <1>8, <2>1, FS_CardinalityType
<1> DEFINE bound == (Cardinality(RepairsOf(unit)) + 1) * ((n * n * (n - 1)) \div 2)
<1>12. Cardinality(Lines(unit)) = bound
  BY <1>7
<1> HIDE DEF n, bound
<1>13. Cardinality(KeysOf(unit)) <= n * n + bound
  BY <1>3, <1>5, <1>8, <1>10, <1>11, <1>12
<1> QED
  BY <1>13 DEF n, bound

(* DraftsAreBounded: however redrafts, recoveries, repairs and restarts    *)
(* follow each other, the operation keys of a unit are those that its      *)
(* attempts and redrafts generated, and at most one for each redraft of a  *)
(* line that such a candidate, or a repaired one, heads.                   *)
THEOREM DraftsStayBounded == Spec => []DraftsAreBounded
<1>1. ASSUME IInv, CountersInv, HistoryInv, RepairsFinite PROVE DraftsAreBounded
  BY <1>1, KeysAreBounded DEF DraftsAreBounded, KeysOf, RepairsOf, Limit
<1>2. IInv /\ CountersInv /\ HistoryInv /\ RepairsFinite => DraftsAreBounded
  BY <1>1
<1> QED
  BY <1>2, HistoryInvariance, PTL
=============================================================================
