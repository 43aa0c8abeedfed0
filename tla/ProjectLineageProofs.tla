------------------------- MODULE ProjectLineageProofs -------------------------
(***************************************************************************)
(* Machine-checked proofs about ProjectLineage, for every number of        *)
(* stages, amendments and branches.                                        *)
(***************************************************************************)
EXTENDS ProjectLineage, FiniteSetTheorems, TLAPS

Fields == {"by", "status", "frontier", "refs", "revision", "amendment", "stale"}

(* A Run's record, whatever it was seeded from.                            *)
ShapeInv ==
  \A run \in DOMAIN runs :
    /\ DOMAIN runs[run] = Fields
    /\ runs[run].revision \in Nat
    /\ DOMAIN runs[run].refs = Stages

(* An amendment was made of a Run's record at its revision, and as long as *)
(* that revision stands it names what the Run has committed since.         *)
ImpactInv ==
  \A id \in DOMAIN amendments :
    /\ id.run \in DOMAIN runs
    /\ id.revision \in Nat
    /\ id.revision <= runs[id.run].revision
    /\ amendments[id] \subseteq Below(id.stage)
    /\ runs[id.run].revision = id.revision => amendments[id] = Material(id.run, id.stage)

(* An amended Run is at rest for good.                                     *)
AmendedInv ==
  \A run \in DOMAIN runs : runs[run].amendment # None => runs[run].status = "needs_action"

(* What the request in hand was given to work with.                        *)
RequestInv ==
  /\ "at" \in DOMAIN req
  /\ At("branch") => "by" \in DOMAIN req
  /\ At("begin") => DOMAIN req.by.inherited = Stages
  /\ At("apply") => req.plan.amendment \in DOMAIN amendments

(* Every plan of a branch gives its successor a reference for every stage. *)
PlanInv == \A id \in DOMAIN branchPlans : DOMAIN branchPlans[id].inherited = Stages

RunsInv == ShapeInv /\ ImpactInv /\ AmendedInv /\ StaleCoversMaterial

IInv == RunsInv /\ RequestInv /\ PlanInv

-----------------------------------------------------------------------------
LEMMA InitInvariant == Init => IInv
  BY DEF Init, IInv, RunsInv, ShapeInv, ImpactInv, AmendedInv, StaleCoversMaterial,
         RequestInv, PlanInv, Idle, At

(* Steps that leave Runs, amendments and plans alone.                      *)
LEMMA RunsUntouched ==
  ASSUME RunsInv, runs' = runs, amendments' = amendments
  PROVE  RunsInv'
  BY DEF RunsInv, ShapeInv, ImpactInv, AmendedInv, StaleCoversMaterial, Material, Below

(* A request moves on to a point at which nothing is remembered of it.     *)
LEMMA RequestMovesOn ==
  ASSUME RequestInv, NEW point, point \notin {"branch", "begin", "apply"},
         req' = [req EXCEPT !.at = point]
  PROVE  RequestInv'
  BY DEF RequestInv, At

LEMMA RequestWaits ==
  ASSUME RequestInv, req' = req, DOMAIN amendments \subseteq DOMAIN amendments'
  PROVE  RequestInv'
  BY DEF RequestInv, At

LEMMA RequestEnds ==
  ASSUME req' = Idle
  PROVE  RequestInv'
  BY DEF RequestInv, At, Idle

-----------------------------------------------------------------------------
(* A new Run is not amended, and no amendment was made of it.              *)
LEMMA PublishKeepsRuns ==
  ASSUME RunsInv, NEW by, NEW after, PublishRun(by, after),
         by \in Creates \/ DOMAIN by.inherited = Stages
  PROVE  RunsInv'
<1> DEFINE run == RunName(by)
<1>1. /\ run \notin DOMAIN runs
      /\ DOMAIN runs' = DOMAIN runs \cup {run}
      /\ runs'[run] = Seed(by)
      /\ \A other \in DOMAIN runs : runs'[other] = runs[other]
      /\ amendments' = amendments
  BY DEF PublishRun, Put, Exists, amending
<1>2. /\ DOMAIN Seed(by) = Fields
      /\ Seed(by).revision = 0
      /\ DOMAIN Seed(by).refs = Stages
      /\ Seed(by).amendment = None
  BY DEF Seed, NewRun, Fields, NothingCommitted
<1> HIDE DEF run
<1>3. ShapeInv'
  BY <1>1, <1>2 DEF RunsInv, ShapeInv
<1>4. ImpactInv'
  BY <1>1 DEF RunsInv, ImpactInv, Material, Below
<1>5. AmendedInv'
  BY <1>1, <1>2 DEF RunsInv, AmendedInv
<1>6. StaleCoversMaterial'
  BY <1>1, <1>2 DEF RunsInv, StaleCoversMaterial, Material, Below
<1> QED BY <1>3, <1>4, <1>5, <1>6 DEF RunsInv

(* An execution steps a Run that is not amended; what it commits makes its *)
(* record a new revision, so that no amendment made before names it.       *)
LEMMA StepKeepsRuns ==
  ASSUME RunsInv, NEW run \in DOMAIN runs, NEW from, NEW record,
         from # "needs_action", Step(run, from, record),
         DOMAIN record = Fields, DOMAIN record.refs = Stages,
         record.amendment = runs[run].amendment, record.revision \in Nat,
         \/ record.revision > runs[run].revision
         \/ /\ record.revision = runs[run].revision
            /\ record.refs = runs[run].refs
            /\ record.frontier = runs[run].frontier
  PROVE  RunsInv'
<1>1. /\ DOMAIN runs' = DOMAIN runs
      /\ runs'[run] = record
      /\ \A other \in DOMAIN runs \ {run} : runs'[other] = runs[other]
      /\ amendments' = amendments
  BY DEF Step, amending
<1>2. record.amendment = None
  BY DEF RunsInv, AmendedInv, Step
<1>3. ShapeInv'
  BY <1>1 DEF RunsInv, ShapeInv
<1>4. ImpactInv'
  <2> SUFFICES ASSUME NEW id \in DOMAIN amendments
               PROVE  /\ id.run \in DOMAIN runs'
                      /\ id.revision \in Nat
                      /\ id.revision <= runs'[id.run].revision
                      /\ amendments[id] \subseteq Below(id.stage)
                      /\ runs'[id.run].revision = id.revision
                           => amendments[id] = Material(id.run, id.stage)'
    BY <1>1 DEF ImpactInv, Below
  <2>1. /\ id.run \in DOMAIN runs /\ id.revision \in Nat
        /\ id.revision <= runs[id.run].revision /\ runs[id.run].revision \in Nat
        /\ amendments[id] \subseteq Below(id.stage)
        /\ runs[id.run].revision = id.revision => amendments[id] = Material(id.run, id.stage)
    BY DEF RunsInv, ImpactInv, ShapeInv
  <2>2. CASE id.run # run
    BY <1>1, <2>1, <2>2 DEF Material, Below
  <2>3. CASE id.run = run /\ record.revision > runs[run].revision
    BY <1>1, <2>1, <2>3
  <2>4. CASE /\ id.run = run /\ record.revision = runs[run].revision
             /\ record.refs = runs[run].refs /\ record.frontier = runs[run].frontier
    BY <1>1, <2>1, <2>4 DEF Material, Below
  <2> QED BY <2>2, <2>3, <2>4
<1>5. AmendedInv'
  BY <1>1, <1>2 DEF RunsInv, AmendedInv
<1>6. StaleCoversMaterial'
  BY <1>1, <1>2 DEF RunsInv, StaleCoversMaterial, Material, Below
<1> QED BY <1>3, <1>4, <1>5, <1>6 DEF RunsInv

-----------------------------------------------------------------------------
(* A new amendment names the Run's material at its present revision.       *)
LEMMA CreateKeepsRuns ==
  ASSUME RunsInv, NEW run \in DOMAIN runs, NEW stage, NEW payload,
         CreateAmendment(run, stage, payload)
  PROVE  RunsInv'
<1> DEFINE id == AmendmentId(run, stage, payload)
<1>1. /\ runs' = runs
      /\ DOMAIN amendments' = DOMAIN amendments \cup {id}
      /\ amendments'[id] = Material(run, stage)
      /\ \A other \in DOMAIN amendments \ {id} : amendments'[other] = amendments[other]
  BY DEF CreateAmendment, Put
<1>2. id.run = run /\ id.stage = stage /\ id.revision = runs[run].revision
  BY DEF AmendmentId
<1> HIDE DEF id
<1>3. runs[run].revision \in Nat
  BY DEF RunsInv, ShapeInv
<1>4. ImpactInv'
  BY <1>1, <1>2, <1>3 DEF RunsInv, ImpactInv, Material, Below
<1>5. ShapeInv' /\ AmendedInv' /\ StaleCoversMaterial'
  BY <1>1 DEF RunsInv, ShapeInv, AmendedInv, StaleCoversMaterial, Material, Below
<1> QED BY <1>4, <1>5 DEF RunsInv

(* The Run is still at the amendment's revision, so what it names is all   *)
(* the Run has committed below the amended stage.                          *)
LEMMA ApplyKeepsRuns ==
  ASSUME RunsInv, RequestInv, ProjectApply
  PROVE  RunsInv'
<1> SUFFICES ASSUME NEW id, id = req.plan.amendment, NEW run, run = id.run
             PROVE  RunsInv'
  OBVIOUS
<1>1. id \in DOMAIN amendments
  BY DEF RequestInv, ProjectApply, Applies
<1>2. /\ run \in DOMAIN runs /\ DOMAIN runs[run] = Fields /\ runs[run].revision \in Nat
      /\ DOMAIN runs[run].refs = Stages
  BY <1>1 DEF RunsInv, ShapeInv, ImpactInv
<1>3. runs[run].revision = id.revision
  BY DEF ProjectApply, AtFrontier
<1>4. /\ DOMAIN runs' = DOMAIN runs
      /\ \A other \in DOMAIN runs \ {run} : runs'[other] = runs[other]
      /\ amendments' = amendments
  BY DEF ProjectApply, amending
<1>5. /\ DOMAIN runs'[run] = Fields
      /\ runs'[run].status = "needs_action"
      /\ runs'[run].refs = [runs[run].refs EXCEPT ![id.stage] = id.payload]
      /\ runs'[run].revision = runs[run].revision + 1
      /\ runs'[run].amendment = id
      /\ runs'[run].stale = StaleScope(req.plan)
      /\ runs'[run].frontier = runs[run].frontier
  BY <1>2 DEF ProjectApply, Fields
<1>6. /\ Material(run, id.stage) \subseteq StaleScope(req.plan)
      /\ StaleScope(req.plan) \subseteq Below(id.stage)
  BY <1>1, <1>3 DEF RunsInv, ImpactInv, StaleScope, Material
<1>7. Material(run, id.stage)' = Material(run, id.stage)
  <2>1. \A k \in Below(id.stage) : k \in Stages /\ k # id.stage
    BY DEF Below, Stages
  <2>2. \A k \in Below(id.stage) : runs'[run].refs[k] = runs[run].refs[k]
    BY <1>2, <1>5, <2>1
  <2> QED BY <1>5, <2>2 DEF Material, Below
<1>8. ShapeInv'
  BY <1>2, <1>4, <1>5 DEF RunsInv, ShapeInv
<1>9. ImpactInv'
  <2> SUFFICES ASSUME NEW other \in DOMAIN amendments
               PROVE  /\ other.run \in DOMAIN runs'
                      /\ other.revision \in Nat
                      /\ other.revision <= runs'[other.run].revision
                      /\ amendments[other] \subseteq Below(other.stage)
                      /\ runs'[other.run].revision = other.revision
                           => amendments[other] = Material(other.run, other.stage)'
    BY <1>4 DEF ImpactInv, Below
  <2>1. /\ other.run \in DOMAIN runs /\ other.revision \in Nat
        /\ other.revision <= runs[other.run].revision
        /\ amendments[other] \subseteq Below(other.stage)
        /\ runs[other.run].revision = other.revision
             => amendments[other] = Material(other.run, other.stage)
    BY DEF RunsInv, ImpactInv
  <2>2. CASE other.run = run
    BY <1>2, <1>4, <1>5, <2>1, <2>2
  <2>3. CASE other.run # run
    BY <1>4, <2>1, <2>3 DEF Material, Below
  <2> QED BY <2>2, <2>3
<1>10. AmendedInv'
  <2>1. AmendedInv
    BY DEF RunsInv
  <2>2. ASSUME NEW other \in DOMAIN runs, runs'[other].amendment # None
        PROVE  runs'[other].status = "needs_action"
    <3>1. CASE other = run
      BY <1>5, <3>1
    <3>2. CASE other # run
      BY <1>4, <2>1, <2>2, <3>2 DEF AmendedInv
    <3> QED BY <3>1, <3>2
  <2> QED BY <1>4, <2>2 DEF AmendedInv
<1>11. StaleCoversMaterial'
  <2> SUFFICES ASSUME NEW other \in DOMAIN runs, runs'[other].amendment # None
               PROVE  /\ Material(other, runs[other].amendment.stage)' \subseteq runs'[other].stale
                      /\ \A k \in Stages :
                           k \in runs'[other].stale => k > runs'[other].amendment.stage
    BY <1>4 DEF StaleCoversMaterial, Material, Below
  <2>1. CASE other = run
    <3>1. Material(other, runs[other].amendment.stage)' = Material(run, id.stage)'
      BY <1>5, <2>1 DEF Material, Below
    <3>2. \A k \in Stages : k \in StaleScope(req.plan) => k > id.stage
      BY <1>6 DEF Below
    <3>3. Material(other, runs[other].amendment.stage)' \subseteq StaleScope(req.plan)
      BY <1>6, <1>7, <3>1
    <3>4. runs'[other].stale = StaleScope(req.plan) /\ runs'[other].amendment = id
      BY <1>5, <2>1
    <3> QED BY <3>2, <3>3, <3>4
  <2>2. CASE other # run
    BY <1>4, <2>2 DEF RunsInv, StaleCoversMaterial, Material, Below
  <2> QED BY <2>1, <2>2
<1> QED BY <1>8, <1>9, <1>10, <1>11 DEF RunsInv

-----------------------------------------------------------------------------
LEMMA RequestsStep == IInv /\ Requests => IInv'
<1> SUFFICES ASSUME IInv, Requests PROVE IInv'
  OBVIOUS
<1> USE DEF IInv
<1>1. UNCHANGED <<runs, amendments, branchPlans>>
  BY DEF Requests, PostProject, PostApply, PostBranch, Arrives, amending, branching
<1>2. RunsInv' /\ PlanInv'
  BY <1>1, RunsUntouched DEF PlanInv
<1>3. RequestInv'
  <2>1. ASSUME NEW c \in Creates, PostProject(c) PROVE RequestInv'
    BY <2>1 DEF PostProject, Arrives, RequestInv, At
  <2>2. ASSUME NEW id \in DOMAIN amendments, NEW scope \in Scopes, PostApply(id, scope)
        PROVE  RequestInv'
    BY <1>1, <2>2 DEF PostApply, Arrives, ApplyPlan, RequestInv, At
  <2>3. ASSUME NEW id, NEW key \in Keys, PostBranch(id, key) PROVE RequestInv'
    BY <2>3 DEF PostBranch, Arrives, RequestInv, At
  <2> QED BY <2>1, <2>2, <2>3 DEF Requests
<1> QED BY <1>2, <1>3

LEMMA GiveUpStep == IInv /\ GiveUp => IInv'
  BY RunsUntouched, RequestEnds DEF IInv, GiveUp, End, PlanInv, amending, branching

LEMMA CreationStep == IInv /\ Creation => IInv'
<1> SUFFICES ASSUME IInv, NEW c \in Creates,
                    \/ Reserve(c) \/ RecoverReserved(c) \/ CreateOrReuseDefinition(c)
                    \/ MarkPrepared(c) \/ ReadPreparation(c) \/ Register(c)
             PROVE  IInv'
  BY DEF Creation
<1> USE DEF IInv
<1>1. UNCHANGED <<amendments, branchPlans>>
  BY DEF Reserve, RecoverReserved, CreateOrReuseDefinition, StageRun, PublishRun, MarkPrepared,
         ReadPreparation, Register, amending, branching
<1>2. PlanInv'
  BY <1>1 DEF PlanInv
<1>3. CASE PublishRun(c, "markPrepared")
  <2>1. RunsInv'
    BY <1>3, PublishKeepsRuns
  <2>2. RequestInv'
    BY <1>3, RequestMovesOn DEF PublishRun, Goto
  <2> QED BY <1>2, <2>1, <2>2
<1>4. CASE ~PublishRun(c, "markPrepared")
  <2>1. runs' = runs
    BY <1>4 DEF Reserve, RecoverReserved, CreateOrReuseDefinition, StageRun, MarkPrepared,
                ReadPreparation, Register
  <2>2. \/ req' = req \/ req' = Idle
        \/ \E point \in {"createRun", "markPrepared", "register"} : req' = [req EXCEPT !.at = point]
    BY <1>4 DEF Reserve, RecoverReserved, CreateOrReuseDefinition, StageRun, MarkPrepared,
                ReadPreparation, Register, Goto, End
  <2>3. RequestInv'
    BY <1>1, <2>2, RequestWaits, RequestEnds, RequestMovesOn
  <2> QED BY <1>1, <1>2, <2>1, <2>3, RunsUntouched
<1> QED BY <1>3, <1>4

LEMMA AmendingStep == IInv /\ Amending => IInv'
<1> SUFFICES ASSUME IInv, Amending PROVE IInv'
  OBVIOUS
<1> USE DEF IInv
<1>1. branchPlans' = branchPlans
  BY DEF Amending, CreateAmendment, ProjectApply, RecoverReceipt, CompleteApply, branching
<1>2. PlanInv'
  BY <1>1 DEF PlanInv
<1>3. ASSUME NEW run \in DOMAIN runs, NEW stage \in PlanningStages, NEW payload \in Payloads,
             CreateAmendment(run, stage, payload)
      PROVE  IInv'
  BY <1>2, <1>3, CreateKeepsRuns, RequestWaits DEF CreateAmendment, Put
<1>4. CASE ProjectApply
  BY <1>2, <1>4, ApplyKeepsRuns, RequestMovesOn DEF ProjectApply, Goto
<1>5. CASE RecoverReceipt
  BY <1>2, <1>5, RunsUntouched, RequestMovesOn DEF RecoverReceipt, Goto, amending
<1>6. CASE CompleteApply
  BY <1>2, <1>6, RunsUntouched, RequestEnds DEF CompleteApply, End
<1> QED BY <1>3, <1>4, <1>5, <1>6 DEF Amending

LEMMA BranchingStep == IInv /\ Branching => IInv'
<1> SUFFICES ASSUME IInv, Branching PROVE IInv'
  OBVIOUS
<1> USE DEF IInv
<1>1. ASSUME NEW time \in Times, BuildPlan(time) PROVE IInv'
  <2>1. RunsInv' /\ PlanInv'
    BY <1>1, RunsUntouched DEF BuildPlan, PlanInv, amending, branching
  <2>2. RequestInv'
    BY <1>1 DEF BuildPlan, BranchPlan, RequestInv, At
  <2> QED BY <2>1, <2>2
<1>2. CASE ResumePlan
  <2>1. RunsInv' /\ PlanInv'
    BY <1>2, RunsUntouched DEF ResumePlan, PlanInv, amending, branching
  <2>2. RequestInv'
    BY <1>2 DEF ResumePlan, RequestInv, At
  <2> QED BY <2>1, <2>2
<1>3. CASE BeginBranch
  <2>1. RunsInv'
    BY <1>3, RunsUntouched DEF BeginBranch, amending
  <2>2. PlanInv'
    BY <1>3 DEF BeginBranch, PlanInv, Put, RequestInv, At
  <2>3. RequestInv'
    BY <1>3 DEF BeginBranch, RequestInv, At
  <2> QED BY <2>1, <2>2, <2>3
<1>4. CASE PointBranch
  BY <1>4, RunsUntouched, RequestMovesOn DEF PointBranch, Goto, PlanInv, amending
<1>5. ASSUME NEW id \in DOMAIN branchPlans, NEW plan, plan = branchPlans[id],
             \/ CopyArtifacts(plan) \/ CreateTarget(plan) \/ LogSeeded(plan) \/ AppendRun(plan)
             \/ LogBranched(plan) \/ CompleteBranch(plan)
      PROVE  IInv'
  <2>1. UNCHANGED <<amendments, branchPlans>>
    BY <1>5 DEF CopyArtifacts, CreateTarget, StageRun, PublishRun, ReuseTarget, LogSeeded, AppendRun,
                LogBranched, CompleteBranch, amending, branching
  <2>2. PlanInv'
    BY <2>1 DEF PlanInv
  <2>3. CASE PublishRun(plan, "seedEvent")
    <3>1. RunsInv'
      BY <1>5, <2>3, PublishKeepsRuns DEF PlanInv
    <3>2. RequestInv'
      BY <2>3, RequestMovesOn DEF PublishRun, Goto
    <3> QED BY <2>2, <3>1, <3>2
  <2>4. CASE ~PublishRun(plan, "seedEvent")
    <3>1. runs' = runs
      BY <1>5, <2>4 DEF CopyArtifacts, CreateTarget, StageRun, ReuseTarget, LogSeeded, AppendRun,
                        LogBranched, CompleteBranch
    <3>2. \/ req' = req \/ req' = Idle
          \/ \E point \in {"createRun", "seedEvent", "appendRun", "sourceEvent", "completeBranch"} :
               req' = [req EXCEPT !.at = point]
      BY <1>5, <2>4 DEF CopyArtifacts, CreateTarget, StageRun, ReuseTarget, LogSeeded, AppendRun,
                        LogBranched, CompleteBranch, Goto, End
    <3>3. RequestInv'
      BY <2>1, <3>2, RequestWaits, RequestEnds, RequestMovesOn
    <3> QED BY <2>1, <2>2, <3>1, <3>3, RunsUntouched
  <2> QED BY <2>3, <2>4
<1> QED BY <1>1, <1>2, <1>3, <1>4, <1>5 DEF Branching

LEMMA ExecutionStep == IInv /\ Execution => IInv'
<1> SUFFICES ASSUME IInv, NEW run \in DOMAIN runs,
                    StartRun(run) \/ CommitStage(run) \/ FailRun(run) \/ RecoverRun(run)
             PROVE  IInv'
  BY DEF Execution
<1> USE DEF IInv
<1>1. UNCHANGED <<req, amendments, branchPlans>>
  BY DEF StartRun, CommitStage, FailRun, RecoverRun, Step, amending, branching
<1>2. RequestInv' /\ PlanInv'
  BY <1>1, RequestWaits DEF PlanInv
<1>3. /\ DOMAIN runs[run] = Fields /\ runs[run].revision \in Nat
      /\ DOMAIN runs[run].refs = Stages
  BY DEF RunsInv, ShapeInv
<1>4. ASSUME NEW status, NEW record, record = [runs[run] EXCEPT !.status = status]
      PROVE  /\ DOMAIN record = Fields /\ DOMAIN record.refs = Stages
             /\ record.amendment = runs[run].amendment /\ record.revision = runs[run].revision
             /\ record.refs = runs[run].refs /\ record.frontier = runs[run].frontier
  BY <1>3, <1>4 DEF Fields
<1>5. ASSUME NEW from, NEW status, from # "needs_action",
             Step(run, from, [runs[run] EXCEPT !.status = status])
      PROVE  RunsInv'
  <2> DEFINE record == [runs[run] EXCEPT !.status = status]
  <2>1. /\ DOMAIN record = Fields /\ DOMAIN record.refs = Stages
        /\ record.amendment = runs[run].amendment /\ record.revision = runs[run].revision
        /\ record.refs = runs[run].refs /\ record.frontier = runs[run].frontier
    BY <1>4
  <2>2. Step(run, from, record)
    BY <1>5
  <2> HIDE DEF record
  <2> QED BY <1>3, <1>5, <2>1, <2>2, StepKeepsRuns
<1>6. CASE StartRun(run) \/ FailRun(run) \/ RecoverRun(run)
  BY <1>2, <1>5, <1>6 DEF StartRun, FailRun, RecoverRun
<1>7. CASE CommitStage(run)
  <2> DEFINE stage == runs[run].frontier
             status == IF stage = NumStages THEN "completed" ELSE "open"
             record == [runs[run] EXCEPT !.refs[stage] = Original, !.frontier = stage + 1,
                                         !.revision = @ + 1, !.status = status]
  <2>1. Step(run, "open", record)
    BY <1>7 DEF CommitStage
  <2>2. /\ DOMAIN record = Fields /\ DOMAIN record.refs = Stages
        /\ record.amendment = runs[run].amendment
        /\ record.revision = runs[run].revision + 1
    BY <1>3 DEF Fields
  <2> HIDE DEF record
  <2>3. RunsInv'
    BY <1>3, <2>1, <2>2, StepKeepsRuns
  <2> QED BY <1>2, <2>3
<1> QED BY <1>6, <1>7

LEMMA StutterStep == IInv /\ UNCHANGED vars => IInv'
  BY RunsUntouched, RequestWaits DEF IInv, vars, PlanInv, amending, branching

-----------------------------------------------------------------------------
(* The inductive invariant holds in every reachable state.                 *)
THEOREM Invariance == Spec => []IInv
<1>1. IInv /\ [Next]_vars => IInv'
  BY RequestsStep, GiveUpStep, CreationStep, AmendingStep, BranchingStep, ExecutionStep, StutterStep
     DEF Next
<1> QED BY InitInvariant, <1>1, PTL DEF Spec

(* Whatever a Run had committed below an amended stage stays marked stale, *)
(* whichever requests are sent again and whatever dies between two files.  *)
THEOREM StaleKeepsCovering == Spec => []StaleCoversMaterial
<1>1. IInv => StaleCoversMaterial
  BY DEF IInv, RunsInv
<1> QED BY Invariance, <1>1, PTL

-----------------------------------------------------------------------------
(* The second invariant: the line of Runs, the files of a branch, and the  *)
(* requests that write them.                                               *)
Unfinished == {"created", "open", "failed"}
LogEvents ==
  [kind : {"applied"}, plan : [amendment : AmendmentIds, scope : Scopes]]
    \cup [kind : {"seeded", "branched"}, plan : Plans]

(* What a Run's record says when no amendment was applied, and when one    *)
(* was: then it is the Run's last word.                                    *)
RecordOf(run) ==
  LET r == runs[run]
  IN  /\ run \in Names /\ RunName(r.by) = run
      /\ r.by \in Creates \cup Range(branchPlans)
      /\ r.status \in Unfinished \cup {"completed", "needs_action"}
      /\ r.frontier \in 1 .. NumStages + 1
      /\ r.status \in Unfinished => r.frontier \in Stages
      /\ r.refs \in [Stages -> Versions]
      /\ r.status = "needs_action" <=> r.amendment # None

AmendedRecordOf(run) ==
  LET r == runs[run]
      id == r.amendment
  IN  /\ id \in DOMAIN amendments /\ id.run = run
      /\ r.refs[id.stage] = id.payload
      /\ r.stale \subseteq Below(id.stage) /\ r.stale # {}

RecordsInv ==
  \A run \in DOMAIN runs :
    RecordOf(run) /\ (runs[run].amendment # None => AmendedRecordOf(run))

(* Every file refers to files that were written before.                    *)
FilesInv ==
  /\ DOMAIN events = DOMAIN runs
  /\ \A run \in DOMAIN runs : events[run] \in Seq(LogEvents)
  /\ lineage \in Seq(DOMAIN runs)
  /\ DOMAIN amendments \subseteq AmendmentIds
  /\ DOMAIN receipts \subseteq DOMAIN amendments
  /\ \A key \in DOMAIN branchKeys : branchKeys[key] \in Range(branchPlans)

(* A preparation is bound to a definition a creation key made.             *)
PreparationsInv ==
  preparations \in
    [Creates -> [status : {"none", "reserved", "prepared"}, definition : Creates \cup {None}]]
  /\ \A c \in Creates : preparations[c].status = "prepared" => preparations[c].definition \in Creates

(* A branch plan belongs to the one amendment of its source Run, whose     *)
(* receipt is there.                                                       *)
PlanOf(id, plan) ==
  /\ plan \in Plans /\ plan.amendment = id
  /\ id \in DOMAIN receipts /\ id.run \in DOMAIN runs
  /\ runs[id.run].amendment = id /\ id # None
  /\ plan.inherited[id.stage] = id.payload

PlansInv == \A id \in DOMAIN branchPlans : PlanOf(id, branchPlans[id])

(* The three kinds of requests, and where each can be.                     *)
CreationRequest ==
  /\ DOMAIN req = {"at", "by"} /\ req.by \in Creates
  /\ req.at \in {"prepare", "createRun", "markPrepared", "register"}
  /\ req.at \in {"markPrepared", "register"} => Exists(RunName(req.by))

ApplyRequest ==
  /\ DOMAIN req = {"at", "plan"} /\ req.at \in {"apply", "completeApply"}
  /\ req.plan \in [amendment : DOMAIN amendments, scope : Scopes]

BranchRequest ==
  /\ DOMAIN req = {"at", "amendment", "key", "by"}
  /\ req.amendment \in DOMAIN amendments /\ req.key \in Keys
  /\ \/ req.at = "branch"
     \/ req.at = "begin" /\ PlanOf(req.amendment, req.by)
     \/ /\ req.at \in {"pointBranch", "materialize", "createRun", "seedEvent", "appendRun",
                       "sourceEvent", "completeBranch"}
        /\ req.by \in Range(branchPlans)

RequestsInv == req = Idle \/ CreationRequest \/ ApplyRequest \/ BranchRequest

(* What of a branch is on disk by the time its request is at a point.      *)
Copied(plan) == RunName(plan) \in copied
Made(plan) == Exists(RunName(plan)) /\ runs[RunName(plan)].by = plan
Linked(plan) == Edge(plan.amendment.run, RunName(plan))
AtEnd(plan) == lineage # <<>> /\ (Linked(plan) \/ Last(lineage) = plan.amendment.run)
Seeded(plan) == Logged(RunName(plan), SeededEvent(plan))
Branched(plan) == Logged(plan.amendment.run, BranchedEvent(plan))

ProgressOf(plan) ==
  /\ At("createRun") => Copied(plan) /\ AtEnd(plan)
  /\ At("seedEvent") => Copied(plan) /\ AtEnd(plan) /\ Made(plan)
  /\ At("appendRun") => Copied(plan) /\ AtEnd(plan) /\ Made(plan) /\ Seeded(plan)
  /\ At("sourceEvent") => Copied(plan) /\ Linked(plan) /\ Made(plan) /\ Seeded(plan)
  /\ At("completeBranch") =>
       Copied(plan) /\ Linked(plan) /\ Made(plan) /\ Seeded(plan) /\ Branched(plan)

ProgressInv ==
  \A plan \in Range(branchPlans) : "by" \in DOMAIN req /\ req.by = plan => ProgressOf(plan)

ResolvedInv ==
  \A id \in DOMAIN resolved :
    /\ id \in DOMAIN branchPlans /\ resolved[id] = branchPlans[id]
    /\ LET plan == branchPlans[id]
       IN  Copied(plan) /\ Linked(plan) /\ Made(plan) /\ Seeded(plan) /\ Branched(plan)

LineInv ==
  /\ RecordsInv /\ FilesInv /\ PreparationsInv /\ PlansInv /\ RequestsInv /\ ProgressInv
  /\ ResolvedInv

-----------------------------------------------------------------------------
(* Every nonempty set of stages has an earliest one.                       *)
LEMMA EarliestIsLeast ==
  ASSUME NEW S \in SUBSET Stages, S # {}
  PROVE  Earliest(S) \in S /\ \A k \in S : Earliest(S) <= k
<1> DEFINE Before(k) == {j \in S : j < k}
           R == StrictSubsetOrdering(S)
           T == {Before(k) : k \in S}
<1>1. NumStages \in Int /\ \A k \in S : k \in Int
  BY StagesAssumption DEF Stages
<1>2. IsFiniteSet(S)
  <2>1. IsFiniteSet(Stages)
    BY <1>1, FS_Interval DEF Stages
  <2> QED BY <2>1, FS_Subset
<1>3. IsWellFoundedOn(R, FiniteSubsetsOf(S))
  BY <1>2, FS_StrictSubsetOrderingWellFounded
<1>4. T \subseteq FiniteSubsetsOf(S) /\ T # {}
  <2>1. \A k \in S : Before(k) \in FiniteSubsetsOf(S)
    BY <1>2, FS_Subset DEF FiniteSubsetsOf
  <2> QED BY <2>1
<1>5. PICK X \in T : \A Y \in T : ~ (<<Y, X>> \in R)
  <2> HIDE DEF T, R
  <2> QED BY <1>3, <1>4, WFMin
<1>6. PICK x \in S : X = Before(x)
  OBVIOUS
<1>7. ASSUME NEW y \in S, y < x PROVE FALSE
  <2>1. ASSUME NEW j \in Before(y) PROVE j \in Before(x)
    <3>1. j \in S /\ j < y
      OBVIOUS
    <3>2. j < x
      BY <1>1, <1>7, <3>1
    <3> QED BY <3>1, <3>2
  <2>2. y \in Before(x) /\ y \notin Before(y)
    BY <1>1, <1>7
  <2>3. <<Before(y), X>> \in R
    BY <1>6, <2>1, <2>2 DEF StrictSubsetOrdering
  <2> QED BY <1>5, <2>3
<1>8. \A y \in S : x <= y
  BY <1>1, <1>7
<1> QED BY <1>8 DEF Earliest

(* A root's name has one part; a successor's has its source's and another. *)
LEMMA RootName ==
  ASSUME NEW c \in Creates
  PROVE  RunName(c) \in Names /\ RunName(c) = <<RootOf[c]>> /\ Len(RunName(c)) = 1
  BY DEF RunName, Names

LEMMA SuccessorName ==
  ASSUME NEW plan \in Plans
  PROVE  /\ plan \notin Creates
         /\ RunName(plan) \in Names /\ Len(RunName(plan)) # 1
         /\ Front(RunName(plan)) = plan.amendment.run
<1> DEFINE id == plan.amendment
           Parts == {RootOf[c] : c \in Creates} \cup (PlanningStages \X Payloads \X Nat \X Keys)
           part == <<id.stage, id.payload, id.revision, plan.key>>
<1>1. plan \notin Creates
  BY KindsAssumption
<1>2. id \in AmendmentIds /\ plan.key \in Keys
  BY DEF Plans
<1>3. id.run \in Seq(Parts) /\ id.run # <<>> /\ part \in Parts
  BY <1>2 DEF AmendmentIds, Names
<1>4. RunName(plan) = Append(id.run, part)
  BY <1>1 DEF RunName, Target
<1>5. Len(id.run) \in Nat /\ Len(id.run) > 0
  BY <1>3
<1> HIDE DEF id, part, Parts
<1>6. /\ Append(id.run, part) \in Seq(Parts) /\ Len(Append(id.run, part)) = Len(id.run) + 1
      /\ SubSeq(Append(id.run, part), 1, Len(id.run)) = id.run
  BY <1>3, <1>5
<1>7. Append(id.run, part) # <<>>
  BY <1>3, <1>5, <1>6
<1> QED BY <1>1, <1>4, <1>5, <1>6, <1>7 DEF Names, Front, id, Parts

-----------------------------------------------------------------------------
(* How a step may change each file: it only adds.                          *)
AddsRun(by) ==
  /\ RunName(by) \notin DOMAIN runs
  /\ runs' = Put(runs, RunName(by), Seed(by))
  /\ events' = Put(events, RunName(by), <<>>)

KeepsRuns ==
  /\ DOMAIN runs \subseteq DOMAIN runs'
  /\ \A run \in DOMAIN runs :
       /\ runs'[run].by = runs[run].by
       /\ runs[run].amendment # None => runs'[run] = runs[run]

KeepsPlans ==
  /\ DOMAIN amendments \subseteq DOMAIN amendments' /\ DOMAIN receipts \subseteq DOMAIN receipts'
  /\ copied \subseteq copied'
  /\ DOMAIN branchPlans \subseteq DOMAIN branchPlans'
  /\ \A id \in DOMAIN branchPlans : branchPlans'[id] = branchPlans[id]

KeepsLine == \A source, target : Edge(source, target) => Edge(source, target)'
KeepsLog == \A run \in DOMAIN runs : \A event : Logged(run, event) => Logged(run, event)'

Steps(run, record) ==
  /\ runs[run].status \in Unfinished /\ runs' = [runs EXCEPT ![run] = record]
  /\ record.by = runs[run].by /\ record.amendment = runs[run].amendment
  /\ record.status \in Unfinished \cup {"completed"}
  /\ record.frontier \in 1 .. NumStages + 1
  /\ record.status \in Unfinished => record.frontier \in Stages
  /\ record.refs \in [Stages -> Versions]

LEMMA ExecutionRuns ==
  ASSUME IInv, LineInv, Execution
  PROVE  \E run \in DOMAIN runs : \E record : Steps(run, record)
<1>1. PICK run \in DOMAIN runs : StartRun(run) \/ CommitStage(run) \/ FailRun(run) \/ RecoverRun(run)
  BY DEF Execution
<1>2. /\ DOMAIN runs[run] = Fields /\ RecordOf(run)
  BY DEF IInv, RunsInv, ShapeInv, LineInv, RecordsInv
<1>3. ASSUME NEW from \in Unfinished, NEW status \in Unfinished,
             Step(run, from, [runs[run] EXCEPT !.status = status])
      PROVE  Steps(run, [runs[run] EXCEPT !.status = status])
  BY <1>2, <1>3 DEF Step, Steps, RecordOf, Fields, Unfinished
<1>4. CASE CommitStage(run)
  <2> DEFINE stage == runs[run].frontier
             status == IF stage = NumStages THEN "completed" ELSE "open"
             record == [runs[run] EXCEPT !.refs[stage] = Original, !.frontier = stage + 1,
                                         !.revision = @ + 1, !.status = status]
  <2>1. runs[run].status = "open" /\ runs' = [runs EXCEPT ![run] = record]
    BY <1>4 DEF CommitStage, Step
  <2>2. stage \in Stages /\ NumStages \in Nat
    BY <1>2, <2>1, StagesAssumption DEF RecordOf, Unfinished
  <2>3. /\ record.by = runs[run].by /\ record.amendment = runs[run].amendment
        /\ record.status = status /\ record.frontier = stage + 1
        /\ record.refs = [runs[run].refs EXCEPT ![stage] = Original]
    BY <1>2 DEF Fields
  <2>4. record.refs \in [Stages -> Versions]
    <3> HIDE DEF record
    <3>1. runs[run].refs \in [Stages -> Versions] /\ Original \in Versions
      BY <1>2 DEF RecordOf, Versions
    <3>2. [runs[run].refs EXCEPT ![stage] = Original] \in [Stages -> Versions]
      BY <3>1
    <3> QED BY <2>3, <3>2
  <2>5. stage + 1 \in 1 .. NumStages + 1 /\ (stage # NumStages => stage + 1 \in Stages)
    BY <2>2 DEF Stages
  <2>6. Steps(run, record)
    <3> HIDE DEF record
    <3> QED BY <2>1, <2>3, <2>4, <2>5 DEF Steps, Unfinished
  <2> QED BY <2>6
<1>5. CASE StartRun(run) \/ FailRun(run) \/ RecoverRun(run)
  <2>1. "created" \in Unfinished /\ "open" \in Unfinished /\ "failed" \in Unfinished
    BY DEF Unfinished
  <2>2. PICK from \in Unfinished, status \in Unfinished :
          Step(run, from, [runs[run] EXCEPT !.status = status])
    BY <1>5, <2>1 DEF StartRun, FailRun, RecoverRun
  <2> QED BY <1>3, <2>2
<1> QED BY <1>1, <1>4, <1>5

(* Every way the Runs on disk change.                                      *)
LEMMA RunsChange ==
  ASSUME IInv, LineInv, [Next]_vars
  PROVE  \/ runs' = runs
         \/ \E by \in Creates \cup Range(branchPlans) : AddsRun(by)
         \/ ProjectApply
         \/ \E run \in DOMAIN runs : \E record : Steps(run, record)
<1>1. CASE Requests \/ GiveUp \/ UNCHANGED vars
  BY <1>1 DEF Requests, PostProject, PostApply, PostBranch, Arrives, GiveUp, vars
<1>2. CASE Creation
  <2>1. PICK c \in Creates : \/ Reserve(c) \/ RecoverReserved(c) \/ CreateOrReuseDefinition(c)
                             \/ MarkPrepared(c) \/ ReadPreparation(c) \/ Register(c)
    BY <1>2 DEF Creation
  <2> QED BY <2>1 DEF Reserve, RecoverReserved, CreateOrReuseDefinition, StageRun, PublishRun, AddsRun,
                      Exists, MarkPrepared, ReadPreparation, Register
<1>3. CASE Amending
  BY <1>3 DEF Amending, CreateAmendment, RecoverReceipt, CompleteApply
<1>4. CASE Branching
  <2>1. CASE (\E time \in Times : BuildPlan(time)) \/ ResumePlan \/ BeginBranch \/ PointBranch
    BY <2>1 DEF BuildPlan, ResumePlan, BeginBranch, PointBranch
  <2>2. ASSUME NEW id \in DOMAIN branchPlans, NEW plan, plan = branchPlans[id],
               \/ CopyArtifacts(plan) \/ CreateTarget(plan) \/ LogSeeded(plan) \/ AppendRun(plan)
               \/ LogBranched(plan) \/ CompleteBranch(plan)
        PROVE  runs' = runs \/ AddsRun(plan)
    BY <2>2 DEF CopyArtifacts, CreateTarget, StageRun, PublishRun, AddsRun, Exists, ReuseTarget, LogSeeded,
                AppendRun, LogBranched, CompleteBranch
  <2>3. \A id \in DOMAIN branchPlans : branchPlans[id] \in Range(branchPlans)
    BY DEF Range
  <2> QED BY <1>4, <2>1, <2>2, <2>3 DEF Branching
<1>5. CASE Execution
  BY <1>5, ExecutionRuns
<1> QED BY <1>1, <1>2, <1>3, <1>4, <1>5 DEF Next

LEMMA RunsKept == ASSUME IInv, LineInv, [Next]_vars PROVE KeepsRuns
<1>1. CASE runs' = runs
  BY <1>1 DEF KeepsRuns
<1>2. ASSUME NEW by, AddsRun(by) PROVE KeepsRuns
  BY <1>2 DEF AddsRun, Put, KeepsRuns
<1>3. CASE ProjectApply
  <2>1. /\ req.plan.amendment.run \in DOMAIN runs
        /\ runs[req.plan.amendment.run].amendment = None
        /\ DOMAIN runs[req.plan.amendment.run] = Fields
    BY <1>3 DEF IInv, RunsInv, ImpactInv, RequestInv, AmendedInv, ShapeInv, ProjectApply, Applies,
                AtFrontier, Settled
  <2> QED BY <1>3, <2>1 DEF ProjectApply, KeepsRuns, Fields
<1>4. ASSUME NEW run \in DOMAIN runs, NEW record, Steps(run, record) PROVE KeepsRuns
  <2>1. runs[run].amendment = None
    BY <1>4 DEF IInv, RunsInv, AmendedInv, Steps, Unfinished
  <2> QED BY <1>4, <2>1 DEF Steps, KeepsRuns
<1> QED BY <1>1, <1>2, <1>3, <1>4, RunsChange

(* All actions, flattened.                                                 *)
CreationBy(c) ==
  \/ Reserve(c) \/ RecoverReserved(c) \/ StageRun(c) \/ PublishRun(c, "markPrepared")
  \/ MarkPrepared(c) \/ ReadPreparation(c) \/ Register(c)

BranchingBy(plan) ==
  \/ CopyArtifacts(plan) \/ StageRun(plan) \/ PublishRun(plan, "seedEvent") \/ ReuseTarget(plan)
  \/ LogSeeded(plan) \/ AppendRun(plan) \/ LogBranched(plan) \/ CompleteBranch(plan)

LEMMA NextCases ==
  ASSUME [Next]_vars
  PROVE  \/ Requests \/ GiveUp \/ Execution \/ UNCHANGED vars
         \/ \E c \in Creates : CreationBy(c)
         \/ \E run \in DOMAIN runs, stage \in PlanningStages, payload \in Payloads :
              CreateAmendment(run, stage, payload)
         \/ ProjectApply \/ RecoverReceipt \/ CompleteApply
         \/ \E time \in Times : BuildPlan(time)
         \/ ResumePlan \/ BeginBranch \/ PointBranch
         \/ \E id \in DOMAIN branchPlans : BranchingBy(branchPlans[id])
  BY DEF Next, Creation, CreationBy, CreateOrReuseDefinition, Amending, Branching, BranchingBy, CreateTarget

LEMMA PlansKept == ASSUME LineInv, [Next]_vars PROVE KeepsPlans
<1> USE DEF KeepsPlans
<1>1. CASE Requests \/ GiveUp \/ UNCHANGED vars
  BY <1>1 DEF Requests, PostProject, PostApply, PostBranch, Arrives, GiveUp, vars, amending, branching
<1>2. CASE Execution
  BY <1>2 DEF Execution, StartRun, CommitStage, FailRun, RecoverRun, Step, amending, branching
<1>3. ASSUME NEW c \in Creates, CreationBy(c) PROVE KeepsPlans
  BY <1>3 DEF CreationBy, Reserve, RecoverReserved, StageRun, PublishRun, MarkPrepared, ReadPreparation,
              Register, amending, branching
<1>4. ASSUME NEW run, NEW stage, NEW payload, CreateAmendment(run, stage, payload) PROVE KeepsPlans
  BY <1>4 DEF CreateAmendment, Put, branching
<1>5. CASE ProjectApply \/ RecoverReceipt \/ CompleteApply
  BY <1>5 DEF ProjectApply, RecoverReceipt, CompleteApply, Put, amending, branching
<1>6. CASE (\E time \in Times : BuildPlan(time)) \/ ResumePlan \/ PointBranch
  BY <1>6 DEF BuildPlan, ResumePlan, PointBranch, amending, branching
<1>7. CASE BeginBranch
  BY <1>7 DEF BeginBranch, Put, amending
<1>8. ASSUME NEW plan, BranchingBy(plan) PROVE KeepsPlans
  BY <1>8 DEF BranchingBy, CopyArtifacts, StageRun, PublishRun, ReuseTarget, LogSeeded, AppendRun,
              LogBranched, CompleteBranch, amending, branching
<1> QED BY <1>1, <1>2, <1>3, <1>4, <1>5, <1>6, <1>7, <1>8, NextCases

(* The line changes at a registration, from nothing, or at its end.        *)
LEMMA LineChange ==
  ASSUME [Next]_vars
  PROVE  \/ lineage' = lineage
         \/ \E c \in Creates : Register(c)
         \/ \E id \in DOMAIN branchPlans : AppendRun(branchPlans[id])
<1>1. CASE Requests \/ GiveUp \/ UNCHANGED vars
  BY <1>1 DEF Requests, PostProject, PostApply, PostBranch, Arrives, GiveUp, vars
<1>2. CASE Execution
  BY <1>2 DEF Execution, StartRun, CommitStage, FailRun, RecoverRun, Step
<1>3. ASSUME NEW c \in Creates, CreationBy(c) PROVE lineage' = lineage \/ Register(c)
  BY <1>3 DEF CreationBy, Reserve, RecoverReserved, StageRun, PublishRun, MarkPrepared, ReadPreparation
<1>4. ASSUME NEW run, NEW stage, NEW payload, CreateAmendment(run, stage, payload) PROVE lineage' = lineage
  BY <1>4 DEF CreateAmendment
<1>5. CASE ProjectApply \/ RecoverReceipt \/ CompleteApply
  BY <1>5 DEF ProjectApply, RecoverReceipt, CompleteApply
<1>6. CASE (\E time \in Times : BuildPlan(time)) \/ ResumePlan \/ BeginBranch \/ PointBranch
  BY <1>6 DEF BuildPlan, ResumePlan, BeginBranch, PointBranch
<1>7. ASSUME NEW plan, BranchingBy(plan) PROVE lineage' = lineage \/ AppendRun(plan)
  BY <1>7 DEF BranchingBy, CopyArtifacts, StageRun, PublishRun, ReuseTarget, LogSeeded,
              LogBranched, CompleteBranch
<1> QED BY <1>1, <1>2, <1>3, <1>4, <1>5, <1>6, <1>7, NextCases

LEMMA LineKept == ASSUME LineInv, [Next]_vars PROVE KeepsLine
<1>1. lineage \in Seq(DOMAIN runs)
  BY DEF LineInv, FilesInv
<1>2. CASE lineage' = lineage
  BY <1>2 DEF KeepsLine, Edge
<1>3. ASSUME NEW c \in Creates, Register(c) PROVE KeepsLine
  <2>1. PICK name : lineage = <<>> \/ lineage = <<name>>
    BY <1>3 DEF Register
  <2>2. Len(lineage) = 0 \/ Len(lineage) = 1
    <3>1. CASE lineage = <<>>
      BY <3>1
    <3>2. CASE lineage = <<name>>
      BY <3>2
    <3> QED BY <2>1, <3>1, <3>2
  <2> QED BY <1>1, <2>2 DEF KeepsLine, Edge
<1>4. ASSUME NEW plan, AppendRun(plan) PROVE KeepsLine
  <2>1. lineage' = lineage \/ \E run : lineage' = Append(lineage, run)
    BY <1>4 DEF AppendRun
  <2>2. ASSUME NEW run, lineage' = Append(lineage, run) PROVE KeepsLine
    <3>1. /\ Len(lineage') = Len(lineage) + 1 /\ Len(lineage) \in Nat
          /\ \A i \in 1 .. Len(lineage) : lineage'[i] = lineage[i]
      BY <1>1, <2>2
    <3> QED BY <3>1 DEF KeepsLine, Edge
  <2> QED BY <1>2, <2>1, <2>2
<1> QED BY <1>2, <1>3, <1>4, LineChange

(* Events are appended, and a new Run starts with none.                    *)
LEMMA LogChange ==
  ASSUME IInv, LineInv, [Next]_vars
  PROVE  \/ events' = events
         \/ \E by \in Creates \cup Range(branchPlans) : AddsRun(by)
         \/ \E run \in DOMAIN runs, event \in LogEvents :
              events' = [events EXCEPT ![run] = Append(@, event)]
<1>1. CASE Requests \/ GiveUp \/ UNCHANGED vars
  BY <1>1 DEF Requests, PostProject, PostApply, PostBranch, Arrives, GiveUp, vars
<1>2. CASE Execution
  BY <1>2 DEF Execution, StartRun, CommitStage, FailRun, RecoverRun, Step
<1>3. ASSUME NEW c \in Creates, CreationBy(c) PROVE events' = events \/ AddsRun(c)
  BY <1>3 DEF CreationBy, Reserve, RecoverReserved, StageRun, PublishRun, AddsRun, Exists, MarkPrepared,
              ReadPreparation, Register
<1>4. ASSUME NEW run, NEW stage, NEW payload, CreateAmendment(run, stage, payload) PROVE events' = events
  BY <1>4 DEF CreateAmendment
<1>5. CASE RecoverReceipt \/ CompleteApply
  BY <1>5 DEF RecoverReceipt, CompleteApply
<1>6. CASE ProjectApply
  <2>1. At("apply") /\ req.plan.amendment \in DOMAIN amendments
    BY <1>6 DEF ProjectApply, Applies, IInv, RequestInv
  <2>2. req.plan \in [amendment : DOMAIN amendments, scope : Scopes]
    BY <2>1 DEF At, LineInv, RequestsInv, Idle, CreationRequest, ApplyRequest, BranchRequest
  <2>3. AppliedEvent(req.plan) \in LogEvents
    BY <2>2 DEF LineInv, FilesInv, AppliedEvent, LogEvents
  <2>4. req.plan.amendment.run \in DOMAIN runs
    BY <2>1 DEF IInv, RunsInv, ImpactInv
  <2> QED BY <1>6, <2>3, <2>4 DEF ProjectApply
<1>7. CASE (\E time \in Times : BuildPlan(time)) \/ ResumePlan \/ BeginBranch \/ PointBranch
  BY <1>7 DEF BuildPlan, ResumePlan, BeginBranch, PointBranch
<1>8. ASSUME NEW id \in DOMAIN branchPlans, NEW plan, plan = branchPlans[id], BranchingBy(plan)
      PROVE  \/ events' = events
             \/ AddsRun(plan)
             \/ \E run \in DOMAIN runs, event \in LogEvents :
                  events' = [events EXCEPT ![run] = Append(@, event)]
  <2>1. PlanOf(id, plan)
    BY <1>8 DEF LineInv, PlansInv
  <2>2. SeededEvent(plan) \in LogEvents /\ BranchedEvent(plan) \in LogEvents
    BY <2>1 DEF PlanOf, SeededEvent, BranchedEvent, LogEvents
  <2>3. CASE LogSeeded(plan)
    <3>1. Made(plan)
      BY <1>8, <2>3 DEF LogSeeded, LineInv, Range, ProgressInv, ProgressOf, RequestsInv, Idle, At,
                        CreationRequest, ApplyRequest, BranchRequest
    <3> QED BY <2>2, <2>3, <3>1 DEF LogSeeded, LogOnce, Made, Exists
  <2>4. CASE LogBranched(plan)
    BY <2>1, <2>2, <2>4 DEF LogBranched, LogOnce, PlanOf
  <2>5. CASE PublishRun(plan, "seedEvent")
    BY <2>5 DEF PublishRun, AddsRun, Exists
  <2> QED BY <1>8, <2>3, <2>4, <2>5 DEF BranchingBy, CopyArtifacts, StageRun, ReuseTarget, AppendRun,
                                       CompleteBranch
<1>9. \A id \in DOMAIN branchPlans : branchPlans[id] \in Range(branchPlans)
  BY DEF Range
<1> QED BY <1>1, <1>2, <1>3, <1>4, <1>5, <1>6, <1>7, <1>8, <1>9, NextCases

LEMMA LogKept == ASSUME IInv, LineInv, [Next]_vars PROVE KeepsLog
<1>1. DOMAIN events = DOMAIN runs /\ \A run \in DOMAIN runs : events[run] \in Seq(LogEvents)
  BY DEF LineInv, FilesInv
<1>2. CASE events' = events
  BY <1>2 DEF KeepsLog, Logged
<1>3. ASSUME NEW by, AddsRun(by) PROVE KeepsLog
  BY <1>1, <1>3 DEF AddsRun, Put, KeepsLog, Logged
<1>4. ASSUME NEW run \in DOMAIN runs, NEW event \in LogEvents,
             events' = [events EXCEPT ![run] = Append(@, event)]
      PROVE  KeepsLog
  <2>1. ASSUME NEW other \in DOMAIN runs, NEW e, Logged(other, e) PROVE Logged(other, e)'
    <3>1. CASE other # run
      BY <1>1, <1>4, <2>1, <3>1 DEF Logged
    <3>2. CASE other = run
      <4>1. PICK i \in DOMAIN events[run] : events[run][i] = e
        BY <2>1, <3>2 DEF Logged
      <4>2. events'[run] = Append(events[run], event)
        BY <1>1, <1>4
      <4>3. i \in 1 .. Len(events[run]) /\ Len(events[run]) \in Nat
        BY <1>1, <4>1
      <4>4. i \in DOMAIN events'[run] /\ events'[run][i] = e
        BY <1>1, <4>1, <4>2, <4>3
      <4> QED BY <3>2, <4>4 DEF Logged
    <3> QED BY <3>1, <3>2
  <2> QED BY <2>1 DEF KeepsLog
<1> QED BY <1>2, <1>3, <1>4, LogChange

-----------------------------------------------------------------------------
(* What was true of a plan stays true.                                     *)
LEMMA PlanStays ==
  ASSUME IInv, LineInv, [Next]_vars, NEW id, NEW plan, PlanOf(id, plan)
  PROVE  PlanOf(id, plan)'
  BY RunsKept, PlansKept DEF KeepsRuns, KeepsPlans, PlanOf

LEMMA FactsStay ==
  ASSUME IInv, LineInv, [Next]_vars, NEW id \in DOMAIN branchPlans, NEW plan, plan = branchPlans[id]
  PROVE  /\ Copied(plan) => Copied(plan)'
         /\ Made(plan) => Made(plan)'
         /\ Linked(plan) => Linked(plan)'
         /\ Made(plan) /\ Seeded(plan) => Seeded(plan)'
         /\ Branched(plan) => Branched(plan)'
         /\ lineage' = lineage /\ AtEnd(plan) => AtEnd(plan)'
<1>1. PlanOf(id, plan)
  BY DEF LineInv, PlansInv
<1>2. RunName(plan)' = RunName(plan)
  BY DEF RunName, Target
<1>3. KeepsRuns /\ KeepsPlans /\ KeepsLine /\ KeepsLog
  BY RunsKept, PlansKept, LineKept, LogKept
<1>4. Copied(plan) => Copied(plan)'
  BY <1>3 DEF KeepsPlans, Copied
<1>5. Made(plan) => Made(plan)'
  BY <1>3 DEF KeepsRuns, Made, Exists
<1>6. Linked(plan) => Linked(plan)'
  BY <1>3 DEF KeepsLine, Linked
<1>7. Made(plan) /\ Seeded(plan) => Seeded(plan)'
  BY <1>3 DEF KeepsLog, Made, Exists, Seeded
<1>8. Branched(plan) => Branched(plan)'
  BY <1>1, <1>3 DEF KeepsLog, PlanOf, Branched
<1>9. lineage' = lineage /\ AtEnd(plan) => AtEnd(plan)'
  BY <1>6 DEF AtEnd
<1> QED BY <1>4, <1>5, <1>6, <1>7, <1>8, <1>9

-----------------------------------------------------------------------------
(* The conjuncts of the second invariant, one by one.                      *)
LEMMA PlansGrow ==
  ASSUME LineInv, [Next]_vars
  PROVE  /\ Range(branchPlans) \subseteq Range(branchPlans')
         /\ \A id \in DOMAIN branchPlans : branchPlans[id] \in Plans
  BY PlansKept DEF KeepsPlans, Range, LineInv, PlansInv, PlanOf

LEMMA SeedFacts ==
  ASSUME LineInv, NEW by \in Creates \cup Range(branchPlans)
  PROVE  /\ RunName(by) \in Names
         /\ Seed(by).by = by /\ Seed(by).status = "created" /\ Seed(by).amendment = None
         /\ Seed(by).frontier \in Stages /\ Seed(by).refs \in [Stages -> Versions]
<1>1. CASE by \in Creates
  <2>1. 1 \in Stages
    BY StagesAssumption DEF Stages
  <2> QED BY <1>1, <2>1, RootName DEF Seed, NewRun, NothingCommitted, Versions
<1>2. CASE by \in Range(branchPlans)
  <2>1. by \in Plans
    BY <1>2 DEF Range, LineInv, PlansInv, PlanOf
  <2>2. by \notin Creates /\ RunName(by) \in Names
    BY <2>1, SuccessorName
  <2>3. by.frontier \in Stages /\ by.inherited \in [Stages -> Versions]
    BY <2>1 DEF Plans
  <2> QED BY <2>2, <2>3 DEF Seed, NewRun
<1> QED BY <1>1, <1>2

LEMMA RecordCarried ==
  ASSUME LineInv, [Next]_vars, NEW run \in DOMAIN runs, runs'[run] = runs[run]
  PROVE  RecordOf(run)' /\ (runs'[run].amendment # None => AmendedRecordOf(run)')
<1>1. RecordOf(run) /\ (runs[run].amendment # None => AmendedRecordOf(run))
  BY DEF LineInv, RecordsInv
<1>2. RecordOf(run)'
  BY <1>1, PlansGrow DEF RecordOf, RunName, Target
<1>3. runs'[run].amendment # None => AmendedRecordOf(run)'
  BY <1>1, PlansKept DEF KeepsPlans, AmendedRecordOf, Below
<1> QED BY <1>2, <1>3

LEMMA ApplyRecords ==
  ASSUME IInv, LineInv, ProjectApply, NEW id, id = req.plan.amendment
  PROVE  /\ id.run \in DOMAIN runs /\ DOMAIN runs' = DOMAIN runs
         /\ \A other \in DOMAIN runs \ {id.run} : runs'[other] = runs[other]
         /\ RecordOf(id.run)' /\ AmendedRecordOf(id.run)' /\ runs'[id.run].amendment # None
<1>1. id \in DOMAIN amendments
  BY DEF IInv, RequestInv, ProjectApply, Applies
<1>2. id \in AmendmentIds /\ id.run \in DOMAIN runs /\ id # None
  BY <1>1, KindsAssumption DEF LineInv, FilesInv, IInv, RunsInv, ImpactInv
<1>3. id.stage \in Stages /\ id.payload \in Versions
  BY <1>2, StagesAssumption DEF AmendmentIds, Versions
<1>4. DOMAIN runs[id.run] = Fields /\ RecordOf(id.run)
  BY <1>2 DEF IInv, RunsInv, ShapeInv, LineInv, RecordsInv
<1>5. /\ runs'[id.run].status = "needs_action"
      /\ runs'[id.run].refs = [runs[id.run].refs EXCEPT ![id.stage] = id.payload]
      /\ runs'[id.run].amendment = id
      /\ runs'[id.run].stale = StaleScope(req.plan)
      /\ runs'[id.run].frontier = runs[id.run].frontier
      /\ runs'[id.run].by = runs[id.run].by
  BY <1>2, <1>4 DEF ProjectApply, Fields
<1>6. /\ amendments' = amendments /\ branchPlans' = branchPlans /\ DOMAIN runs' = DOMAIN runs
      /\ \A other \in DOMAIN runs \ {id.run} : runs'[other] = runs[other]
  BY <1>2 DEF ProjectApply, amending, branching
<1>7. StaleScope(req.plan) \subseteq Below(id.stage) /\ StaleScope(req.plan) # {}
  BY <1>1 DEF ProjectApply, Applies, StaleScope, IInv, RunsInv, ImpactInv
<1>8. runs'[id.run].refs \in [Stages -> Versions] /\ runs'[id.run].refs[id.stage] = id.payload
  <2>1. runs[id.run].refs \in [Stages -> Versions]
    BY <1>4 DEF RecordOf
  <2>2. PICK refs, stage, payload :
          refs = runs[id.run].refs /\ stage = id.stage /\ payload = id.payload
    OBVIOUS
  <2>3. [refs EXCEPT ![stage] = payload] \in [Stages -> Versions]
    BY <1>3, <2>1, <2>2
  <2>4. [refs EXCEPT ![stage] = payload][stage] = payload
    BY <1>3, <2>1, <2>2
  <2> QED BY <1>5, <2>2, <2>3, <2>4
<1>9. RecordOf(id.run)'
  BY <1>2, <1>4, <1>5, <1>6, <1>8 DEF RecordOf, Unfinished, RunName, Target
<1>10. AmendedRecordOf(id.run)'
  BY <1>1, <1>5, <1>6, <1>7, <1>8 DEF AmendedRecordOf, Below
<1> QED BY <1>2, <1>5, <1>6, <1>9, <1>10

LEMMA RecordsStep == ASSUME IInv, LineInv, [Next]_vars PROVE RecordsInv'
<1> USE DEF RecordsInv
<1>1. CASE runs' = runs
  BY <1>1, RecordCarried
<1>2. ASSUME NEW by \in Creates \cup Range(branchPlans), AddsRun(by) PROVE RecordsInv'
  <2>1. /\ DOMAIN runs' = DOMAIN runs \cup {RunName(by)} /\ runs'[RunName(by)] = Seed(by)
        /\ \A other \in DOMAIN runs : runs'[other] = runs[other]
    BY <1>2 DEF AddsRun, Put
  <2>2. RunName(by)' = RunName(by)
    BY DEF RunName, Target
  <2>3. by \in Creates \cup Range(branchPlans')
    BY PlansGrow
  <2>4. Stages \subseteq 1 .. NumStages + 1
    BY StagesAssumption DEF Stages
  <2>5. RecordOf(RunName(by))'
    BY <2>1, <2>2, <2>3, <2>4, SeedFacts DEF RecordOf, Unfinished
  <2>6. runs'[RunName(by)].amendment = None
    BY <2>1, SeedFacts
  <2> QED BY <2>1, <2>5, <2>6, RecordCarried
<1>3. CASE ProjectApply
  BY <1>3, ApplyRecords, RecordCarried
<1>4. ASSUME NEW run \in DOMAIN runs, NEW record, Steps(run, record) PROVE RecordsInv'
  <2>1. RecordOf(run) /\ runs[run].amendment = None
    BY <1>4 DEF LineInv, RecordOf, Steps, Unfinished
  <2>2. DOMAIN runs' = DOMAIN runs /\ runs'[run] = record
    BY <1>4 DEF Steps
  <2>3. \A other \in DOMAIN runs \ {run} : runs'[other] = runs[other]
    BY <1>4 DEF Steps
  <2>4. RecordOf(run)' /\ runs'[run].amendment = None
    BY <1>4, <2>1, <2>2, PlansGrow DEF RecordOf, Steps, Unfinished, RunName, Target
  <2> QED BY <2>2, <2>3, <2>4, RecordCarried
<1> QED BY <1>1, <1>2, <1>3, <1>4, RunsChange

(* Who writes the files of amendments and branches.                        *)
LEMMA Writers ==
  ASSUME [Next]_vars
  PROVE  /\ \/ amendments' = amendments
            \/ \E run \in DOMAIN runs, stage \in PlanningStages, payload \in Payloads :
                 CreateAmendment(run, stage, payload)
         /\ receipts' = receipts \/ CompleteApply
         /\ branchPlans' = branchPlans \/ BeginBranch
         /\ branchKeys' = branchKeys \/ PointBranch
         /\ resolved' = resolved \/ \E id \in DOMAIN branchPlans : CompleteBranch(branchPlans[id])
         /\ \/ preparations' = preparations
            \/ \E c \in Creates : Reserve(c) \/ MarkPrepared(c) \/ ReadPreparation(c)
<1>1. CASE Requests \/ GiveUp \/ UNCHANGED vars
  BY <1>1 DEF Requests, PostProject, PostApply, PostBranch, Arrives, GiveUp, vars, amending, branching,
              creation
<1>2. CASE Execution
  BY <1>2 DEF Execution, StartRun, CommitStage, FailRun, RecoverRun, Step, amending, branching, creation
<1>3. ASSUME NEW c \in Creates, CreationBy(c)
      PROVE  /\ UNCHANGED <<amending, branching>>
             /\ preparations' = preparations \/ Reserve(c) \/ MarkPrepared(c) \/ ReadPreparation(c)
  BY <1>3 DEF CreationBy, Reserve, RecoverReserved, StageRun, PublishRun, MarkPrepared, ReadPreparation,
              Register, amending, branching, creation
<1>4. ASSUME NEW run, NEW stage, NEW payload, CreateAmendment(run, stage, payload)
      PROVE  UNCHANGED <<receipts, branching, creation>>
  BY <1>4 DEF CreateAmendment
<1>5. CASE ProjectApply \/ RecoverReceipt \/ CompleteApply
  BY <1>5 DEF ProjectApply, RecoverReceipt, CompleteApply, amending, branching, creation
<1>6. CASE (\E time \in Times : BuildPlan(time)) \/ ResumePlan \/ BeginBranch \/ PointBranch
  BY <1>6 DEF BuildPlan, ResumePlan, BeginBranch, PointBranch, amending, branching, creation
<1>7. ASSUME NEW plan, BranchingBy(plan)
      PROVE  /\ UNCHANGED <<amending, branchPlans, branchKeys, preparations>>
             /\ resolved' = resolved \/ CompleteBranch(plan)
  BY <1>7 DEF BranchingBy, CopyArtifacts, StageRun, PublishRun, ReuseTarget, LogSeeded, AppendRun,
              LogBranched, CompleteBranch, amending, branching, creation
<1> QED BY <1>1, <1>2, <1>3, <1>4, <1>5, <1>6, <1>7, NextCases DEF amending, branching, creation

LEMMA EventsStep ==
  ASSUME IInv, LineInv, [Next]_vars
  PROVE  /\ DOMAIN events' = DOMAIN runs'
         /\ \A run \in DOMAIN runs' : events'[run] \in Seq(LogEvents)
<1>1. DOMAIN events = DOMAIN runs /\ \A run \in DOMAIN runs : events[run] \in Seq(LogEvents)
  BY DEF LineInv, FilesInv
<1>2. ASSUME NEW by, AddsRun(by)
      PROVE  /\ DOMAIN events' = DOMAIN runs'
             /\ \A run \in DOMAIN runs' : events'[run] \in Seq(LogEvents)
  <2>1. <<>> \in Seq(LogEvents)
    OBVIOUS
  <2> QED BY <1>1, <1>2, <2>1 DEF AddsRun, Put
<1>3. CASE ~ \E by \in Creates \cup Range(branchPlans) : AddsRun(by)
  <2>1. DOMAIN runs' = DOMAIN runs
    BY <1>3, RunsChange DEF ProjectApply, Steps
  <2>2. CASE events' = events
    BY <1>1, <2>1, <2>2
  <2>3. ASSUME NEW run \in DOMAIN runs, NEW event \in LogEvents,
               events' = [events EXCEPT ![run] = Append(@, event)]
        PROVE  /\ DOMAIN events' = DOMAIN runs
               /\ \A other \in DOMAIN runs : events'[other] \in Seq(LogEvents)
    <3>1. Append(events[run], event) \in Seq(LogEvents)
      BY <1>1
    <3> QED BY <1>1, <2>3, <3>1
  <2> QED BY <1>3, <2>1, <2>2, <2>3, LogChange
<1> QED BY <1>2, <1>3

LEMMA LineStep == ASSUME IInv, LineInv, [Next]_vars PROVE lineage' \in Seq(DOMAIN runs')
<1>1. lineage \in Seq(DOMAIN runs) /\ DOMAIN runs \subseteq DOMAIN runs'
  BY RunsKept DEF LineInv, FilesInv, KeepsRuns
<1>2. CASE lineage' = lineage
  BY <1>1, <1>2
<1>3. ASSUME NEW c \in Creates, Register(c) PROVE lineage' \in Seq(DOMAIN runs')
  <2>1. RunName(c) \in DOMAIN runs
    BY <1>3 DEF Register, At, LineInv, RequestsInv, Idle, CreationRequest, ApplyRequest, BranchRequest,
                Exists
  <2>2. lineage' = <<RunName(c)>> /\ RunName(c) \in DOMAIN runs'
    BY <1>1, <1>3, <2>1 DEF Register
  <2> QED BY <2>2
<1>4. ASSUME NEW id \in DOMAIN branchPlans, NEW plan, plan = branchPlans[id], AppendRun(plan)
      PROVE  lineage' \in Seq(DOMAIN runs')
  <2>1. Made(plan)
    BY <1>4 DEF AppendRun, At, LineInv, Range, ProgressInv, ProgressOf, RequestsInv, Idle, CreationRequest,
                ApplyRequest, BranchRequest
  <2>2. RunName(plan) \in DOMAIN runs'
    BY <1>1, <2>1 DEF Made, Exists
  <2>3. lineage \in Seq(DOMAIN runs')
    BY <1>1
  <2>4. Append(lineage, RunName(plan)) \in Seq(DOMAIN runs')
    BY <2>2, <2>3
  <2> QED BY <1>4, <2>3, <2>4 DEF AppendRun
<1> QED BY <1>2, <1>3, <1>4, LineChange

LEMMA FilesStep == ASSUME IInv, LineInv, [Next]_vars PROVE FilesInv'
<1>1. /\ DOMAIN amendments \subseteq AmendmentIds /\ DOMAIN receipts \subseteq DOMAIN amendments
      /\ \A key \in DOMAIN branchKeys : branchKeys[key] \in Range(branchPlans)
  BY DEF LineInv, FilesInv
<1>2. DOMAIN amendments' \subseteq AmendmentIds
  <2>1. ASSUME NEW run \in DOMAIN runs, NEW stage \in PlanningStages, NEW payload \in Payloads,
               CreateAmendment(run, stage, payload)
        PROVE  DOMAIN amendments' \subseteq AmendmentIds
    <3>1. run \in Names /\ runs[run].refs \in [Stages -> Versions] /\ runs[run].revision \in Nat
      BY DEF LineInv, RecordsInv, RecordOf, IInv, RunsInv, ShapeInv
    <3>2. AmendmentId(run, stage, payload) \in AmendmentIds
      BY <3>1, StagesAssumption DEF AmendmentId, AmendmentIds
    <3> QED BY <1>1, <2>1, <3>2 DEF CreateAmendment, Put
  <2> QED BY <1>1, <2>1, Writers
<1>3. DOMAIN receipts' \subseteq DOMAIN amendments'
  <2>1. CASE CompleteApply
    <3>1. req.plan.amendment \in DOMAIN amendments
      BY <2>1 DEF CompleteApply, At, LineInv, RequestsInv, Idle, CreationRequest, ApplyRequest,
                  BranchRequest
    <3> QED BY <1>1, <2>1, <3>1 DEF CompleteApply, Put
  <2> QED BY <1>1, <2>1, Writers, PlansKept DEF KeepsPlans
<1>4. \A key \in DOMAIN branchKeys' : branchKeys'[key] \in Range(branchPlans')
  <2>1. CASE PointBranch
    <3>1. req.by \in Range(branchPlans)
      BY <2>1 DEF PointBranch, At, LineInv, RequestsInv, Idle, CreationRequest, ApplyRequest,
                  BranchRequest
    <3> QED BY <1>1, <2>1, <3>1, PlansGrow DEF PointBranch, Put
  <2> QED BY <1>1, <2>1, Writers, PlansGrow
<1> QED BY <1>2, <1>3, <1>4, EventsStep, LineStep DEF FilesInv

LEMMA PreparationsStep == ASSUME IInv, LineInv, [Next]_vars PROVE PreparationsInv'
<1> USE DEF PreparationsInv
<1>1. PreparationsInv
  BY DEF LineInv
<1>2. ASSUME NEW c \in Creates, RunName(c) \in DOMAIN runs PROVE runs[RunName(c)].by \in Creates
  <2>1. RecordOf(RunName(c))
    BY <1>2 DEF LineInv, RecordsInv
  <2>2. ASSUME runs[RunName(c)].by \in Range(branchPlans) PROVE FALSE
    <3>1. runs[RunName(c)].by \in Plans
      BY <2>2, PlansGrow DEF Range, LineInv, PlansInv, PlanOf
    <3>2. Len(RunName(c)) # 1
      BY <2>1, <3>1, SuccessorName DEF RecordOf
    <3>3. Len(RunName(c)) = 1
      BY RootName
    <3> QED BY <3>2, <3>3
  <2> QED BY <2>1, <2>2 DEF RecordOf
<1>3. ASSUME NEW c \in Creates, Reserve(c) PROVE PreparationsInv'
  BY <1>1, <1>3 DEF Reserve, Preparation
<1>4. ASSUME NEW c \in Creates, MarkPrepared(c) PROVE PreparationsInv'
  <2>1. RunName(c) \in DOMAIN runs
    BY <1>4 DEF MarkPrepared, At, LineInv, RequestsInv, Idle, CreationRequest, ApplyRequest,
                BranchRequest, Exists
  <2>2. runs[RunName(c)].by \in Creates
    BY <1>2, <2>1
  <2> QED BY <1>1, <1>4, <2>2 DEF MarkPrepared, Preparation
<1>5. ASSUME NEW c \in Creates, ReadPreparation(c) PROVE PreparationsInv'
  <2>1. runs[RunName(c)].by \in Creates
    BY <1>2, <1>5 DEF ReadPreparation, Exists
  <2> QED BY <1>1, <1>5, <2>1 DEF ReadPreparation, Preparation
<1> QED BY <1>1, <1>3, <1>4, <1>5, Writers

LEMMA PlansStep == ASSUME IInv, LineInv, [Next]_vars PROVE PlansInv'
<1>1. \A id \in DOMAIN branchPlans : PlanOf(id, branchPlans[id])
  BY DEF LineInv, PlansInv
<1>2. \A id \in DOMAIN branchPlans : branchPlans'[id] = branchPlans[id]
  BY PlansKept DEF KeepsPlans
<1>3. \A id \in DOMAIN branchPlans : PlanOf(id, branchPlans[id])'
  <2> SUFFICES ASSUME NEW id \in DOMAIN branchPlans PROVE PlanOf(id, branchPlans[id])'
    OBVIOUS
  <2>1. PICK plan : plan = branchPlans[id]
    OBVIOUS
  <2>2. PlanOf(id, plan)'
    BY <1>1, <2>1, PlanStays
  <2> QED BY <1>2, <2>1, <2>2 DEF PlanOf
<1>4. CASE BeginBranch
  <2>1. ASSUME req.amendment \notin DOMAIN branchPlans
        PROVE  PlanOf(req.amendment, req.by) /\ branchPlans' = Put(branchPlans, req.amendment, req.by)
    BY <1>4, <2>1 DEF BeginBranch, At, LineInv, RequestsInv, Idle, CreationRequest, ApplyRequest,
                      BranchRequest
  <2>2. CASE req.amendment \in DOMAIN branchPlans
    BY <1>3, <1>4, <2>2 DEF BeginBranch, Put, PlansInv
  <2>3. CASE req.amendment \notin DOMAIN branchPlans
    <3>1. PICK id, plan : id = req.amendment /\ plan = req.by
      OBVIOUS
    <3>2. PlanOf(id, plan)'
      BY <2>1, <2>3, <3>1, PlanStays
    <3>3. branchPlans' = Put(branchPlans, id, plan)
      BY <2>1, <2>3, <3>1
    <3>4. DOMAIN branchPlans' = DOMAIN branchPlans \cup {id} /\ branchPlans'[id] = plan
      BY <3>3 DEF Put
    <3>5. PlanOf(id, branchPlans[id])'
      BY <3>2, <3>4 DEF PlanOf
    <3> QED BY <1>3, <3>4, <3>5 DEF PlansInv
  <2> QED BY <2>2, <2>3
<1> QED BY <1>3, <1>4, Writers DEF PlansInv

LEMMA ResolvedStep == ASSUME IInv, LineInv, [Next]_vars PROVE ResolvedInv'
<1> USE DEF ResolvedInv
<1>1. ResolvedInv
  BY DEF LineInv
<1>2. ASSUME NEW id \in DOMAIN branchPlans, NEW plan, plan = branchPlans[id],
             Copied(plan) /\ Linked(plan) /\ Made(plan) /\ Seeded(plan) /\ Branched(plan)
      PROVE  /\ id \in DOMAIN branchPlans' /\ branchPlans'[id] = branchPlans[id]
             /\ (LET p == branchPlans[id]
                 IN  Copied(p) /\ Linked(p) /\ Made(p) /\ Seeded(p) /\ Branched(p))'
  <2>1. id \in DOMAIN branchPlans' /\ branchPlans'[id] = plan
    BY <1>2, PlansKept DEF KeepsPlans
  <2>2. Copied(plan)' /\ Linked(plan)' /\ Made(plan)' /\ Seeded(plan)' /\ Branched(plan)'
    BY <1>2, FactsStay
  <2> QED BY <1>2, <2>1, <2>2 DEF Copied, Linked, Made, Seeded, Branched, Edge, RunName, Logged, Exists,
                                  Target, SeededEvent, BranchedEvent
<1>3. CASE resolved' = resolved
  BY <1>1, <1>2, <1>3
<1>4. ASSUME NEW id \in DOMAIN branchPlans, NEW plan, plan = branchPlans[id], CompleteBranch(plan)
      PROVE  ResolvedInv'
  <2>1. plan.amendment = id
    BY <1>4 DEF LineInv, PlansInv, PlanOf
  <2>2. Copied(plan) /\ Linked(plan) /\ Made(plan) /\ Seeded(plan) /\ Branched(plan)
    BY <1>4 DEF CompleteBranch, At, LineInv, Range, ProgressInv, ProgressOf, RequestsInv, Idle, CreationRequest,
                ApplyRequest, BranchRequest
  <2>3. resolved' = Put(resolved, id, plan)
    BY <1>4, <2>1 DEF CompleteBranch
  <2>4. /\ DOMAIN resolved' = DOMAIN resolved \cup {id} /\ resolved'[id] = branchPlans[id]
        /\ \A other \in DOMAIN resolved \ {id} : resolved'[other] = resolved[other]
    BY <1>4, <2>3 DEF Put
  <2> QED BY <1>1, <1>2, <1>4, <2>2, <2>4
<1> QED BY <1>3, <1>4, Writers

-----------------------------------------------------------------------------
(* The request in hand.                                                    *)
BranchPoints ==
  {"pointBranch", "materialize", "createRun", "seedEvent", "appendRun", "sourceEvent", "completeBranch"}

LEMMA RequestKept == ASSUME IInv, LineInv, [Next]_vars, req' = req PROVE RequestsInv'
<1>1. KeepsRuns /\ KeepsPlans
  BY RunsKept, PlansKept
<1>2. CASE req = Idle
  BY <1>2 DEF RequestsInv, Idle
<1>3. CASE CreationRequest
  BY <1>1, <1>3 DEF KeepsRuns, RequestsInv, CreationRequest, Exists, RunName, Target
<1>4. CASE ApplyRequest
  <2>1. req.plan \in [amendment : DOMAIN amendments', scope : Scopes]
    BY <1>1, <1>4 DEF KeepsPlans, ApplyRequest
  <2> QED BY <1>4, <2>1 DEF RequestsInv, ApplyRequest
<1>5. CASE BranchRequest
  <2>1. CASE req.at = "begin" /\ PlanOf(req.amendment, req.by)
    <3>1. PICK id, plan : id = req.amendment /\ plan = req.by
      OBVIOUS
    <3>2. PlanOf(id, plan)'
      BY <2>1, <3>1, PlanStays
    <3>3. PlanOf(req.amendment, req.by)'
      BY <3>1, <3>2 DEF PlanOf
    <3> QED BY <1>1, <1>5, <2>1, <3>3 DEF KeepsPlans, RequestsInv, BranchRequest
  <2>2. CASE ~ (req.at = "begin" /\ PlanOf(req.amendment, req.by))
    BY <1>1, <1>5, <2>2, PlansGrow DEF KeepsPlans, RequestsInv, BranchRequest
  <2> QED BY <2>1, <2>2
<1> QED BY <1>2, <1>3, <1>4, <1>5 DEF LineInv, RequestsInv

LEMMA CreationMoves ==
  ASSUME CreationRequest, NEW point, req' = [req EXCEPT !.at = point],
         \/ point = "createRun"
         \/ point \in {"markPrepared", "register"} /\ RunName(req.by) \in DOMAIN runs'
  PROVE  RequestsInv'
<1>1. DOMAIN req' = {"at", "by"} /\ req'.at = point /\ req'.by = req.by /\ req.by \in Creates
  BY DEF CreationRequest
<1> QED BY <1>1 DEF RequestsInv, CreationRequest, Exists, RunName, Target

LEMMA BranchMoves ==
  ASSUME LineInv, [Next]_vars, BranchRequest, NEW point \in BranchPoints, NEW plan \in Range(branchPlans'),
         \/ req' = [req EXCEPT !.at = point] /\ req.by = plan
         \/ req' = [req EXCEPT !.at = point, !.by = plan]
  PROVE  RequestsInv'
<1>1. /\ DOMAIN req' = {"at", "amendment", "key", "by"} /\ req'.at = point /\ req'.by = plan
      /\ req'.amendment = req.amendment /\ req'.key = req.key
  BY DEF BranchRequest
<1>2. req.amendment \in DOMAIN amendments' /\ req.key \in Keys
  BY PlansKept DEF KeepsPlans, BranchRequest
<1> QED BY <1>1, <1>2 DEF RequestsInv, BranchRequest, BranchPoints

(* A plan is made of an amended Run, whose stale stages lie below the      *)
(* amended one, so that this one is inherited.                             *)
LEMMA PlanIsMade ==
  ASSUME IInv, LineInv, NEW time \in Times, BuildPlan(time),
         NEW id, id = req.amendment, NEW key, key = req.key
  PROVE  BranchRequest /\ PlanOf(id, BranchPlan(id, key, time))
<1>1. BranchRequest
  BY DEF BuildPlan, At, LineInv, RequestsInv, Idle, CreationRequest, ApplyRequest
<1>2. id \in DOMAIN amendments /\ id \in AmendmentIds /\ key \in Keys /\ id.run \in DOMAIN runs
  BY <1>1 DEF BranchRequest, LineInv, FilesInv, IInv, RunsInv, ImpactInv
<1>3. runs[id.run].amendment = id /\ id \in DOMAIN receipts /\ id # None
  BY <1>2, KindsAssumption DEF BuildPlan, Applied
<1>4. RecordOf(id.run) /\ AmendedRecordOf(id.run)
  BY <1>2, <1>3 DEF LineInv, RecordsInv
<1>5. /\ runs[id.run].refs \in [Stages -> Versions] /\ runs[id.run].refs[id.stage] = id.payload
      /\ runs[id.run].stale \subseteq Below(id.stage) /\ runs[id.run].stale # {}
  BY <1>3, <1>4 DEF RecordOf, AmendedRecordOf
<1>6. PICK frontier : frontier = Earliest(runs[id.run].stale)
  OBVIOUS
<1>7. frontier \in Below(id.stage)
  BY <1>5, <1>6, EarliestIsLeast DEF Below
<1>8. id.stage \in Stages /\ frontier \in Stages /\ id.stage < frontier
  BY <1>2, <1>7, StagesAssumption DEF AmendmentIds, Below, Stages
<1>9. PICK inherited :
        inherited = [k \in Stages |-> IF k < frontier THEN runs[id.run].refs[k] ELSE None]
  OBVIOUS
<1>10. inherited \in [Stages -> Versions] /\ inherited[id.stage] = id.payload
  BY <1>5, <1>8, <1>9 DEF Versions
<1>11. BranchPlan(id, key, time) =
         [amendment |-> id, key |-> key, frontier |-> frontier, time |-> time, inherited |-> inherited]
  BY <1>6, <1>9 DEF BranchPlan
<1>12. BranchPlan(id, key, time) \in Plans
  BY <1>2, <1>8, <1>10, <1>11 DEF Plans
<1> QED BY <1>1, <1>2, <1>3, <1>10, <1>11, <1>12 DEF PlanOf

LEMMA RequestStep == ASSUME IInv, LineInv, [Next]_vars PROVE RequestsInv'
<1>1. CASE req' = req
  BY <1>1, RequestKept
<1>2. CASE req' = Idle
  BY <1>2 DEF RequestsInv, Idle
<1>3. CASE Requests
  <2>1. ASSUME NEW c \in Creates, PostProject(c) PROVE RequestsInv'
    BY <2>1 DEF PostProject, Arrives, RequestsInv, CreationRequest
  <2>2. ASSUME NEW id \in DOMAIN amendments, NEW scope \in Scopes, PostApply(id, scope) PROVE RequestsInv'
    BY <2>2 DEF PostApply, Arrives, ApplyPlan, amending, RequestsInv, ApplyRequest
  <2>3. ASSUME NEW id \in DOMAIN amendments, NEW key \in Keys, PostBranch(id, key) PROVE RequestsInv'
    BY <2>3 DEF PostBranch, Arrives, amending, RequestsInv, BranchRequest
  <2> QED BY <1>3, <2>1, <2>2, <2>3 DEF Requests
<1>4. CASE GiveUp \/ Execution \/ UNCHANGED vars
  BY <1>1, <1>2, <1>4 DEF GiveUp, End, Execution, StartRun, CommitStage, FailRun, RecoverRun, Step, vars
<1>5. ASSUME NEW c \in Creates, CreationBy(c) PROVE RequestsInv'
  <2>1. CASE StageRun(c) \/ ReadPreparation(c) \/ Register(c)
    BY <1>1, <1>2, <2>1 DEF StageRun, ReadPreparation, Register, End
  <2>2. CASE Reserve(c) \/ RecoverReserved(c) \/ PublishRun(c, "markPrepared") \/ MarkPrepared(c)
    <3>1. req.by = c /\ req.at \in {"prepare", "createRun", "markPrepared"}
      BY <2>2 DEF Reserve, RecoverReserved, PublishRun, Creating, MarkPrepared, At
    <3>2. c \notin Plans /\ Range(branchPlans) \subseteq Plans
      BY PlansGrow, KindsAssumption DEF Range
    <3>3. CreationRequest
      BY <3>1, <3>2 DEF LineInv, RequestsInv, Idle, ApplyRequest, BranchRequest
    <3>4. CASE Reserve(c)
      BY <3>3, <3>4, CreationMoves DEF Reserve, Goto
    <3>5. CASE RecoverReserved(c)
      BY <3>1, <3>3, <3>5, CreationMoves DEF RecoverReserved, Goto, Exists
    <3>6. CASE PublishRun(c, "markPrepared")
      <4>1. RunName(c) \in DOMAIN runs'
        BY <3>6 DEF PublishRun, Put
      <4> QED BY <3>1, <3>3, <3>6, <4>1, CreationMoves DEF PublishRun, Goto
    <3>7. CASE MarkPrepared(c)
      BY <3>1, <3>3, <3>7, CreationMoves DEF MarkPrepared, Goto, At, CreationRequest, Exists
    <3> QED BY <2>2, <3>4, <3>5, <3>6, <3>7
  <2> QED BY <1>5, <2>1, <2>2 DEF CreationBy
<1>6. ASSUME NEW run, NEW stage, NEW payload, CreateAmendment(run, stage, payload) PROVE RequestsInv'
  BY <1>1, <1>6 DEF CreateAmendment
<1>7. CASE ProjectApply \/ RecoverReceipt
  <2>0. req.at = "apply"
    BY <1>7 DEF ProjectApply, RecoverReceipt, Applies, At
  <2>1. ApplyRequest
    BY <2>0 DEF LineInv, RequestsInv, Idle, CreationRequest, BranchRequest
  <2>2. req' = [req EXCEPT !.at = "completeApply"] /\ amendments' = amendments
    BY <1>7 DEF ProjectApply, RecoverReceipt, Goto, amending
  <2> QED BY <2>1, <2>2 DEF RequestsInv, ApplyRequest
<1>8. CASE CompleteApply
  BY <1>2, <1>8 DEF CompleteApply, End
<1>9. ASSUME NEW time \in Times, BuildPlan(time) PROVE RequestsInv'
  <2>1. PICK id, key, plan : id = req.amendment /\ key = req.key /\ plan = BranchPlan(id, key, time)
    OBVIOUS
  <2>2. BranchRequest /\ PlanOf(id, plan)
    BY <1>9, <2>1, PlanIsMade
  <2>3. req' = [req EXCEPT !.at = "begin", !.by = plan]
    BY <1>9, <2>1 DEF BuildPlan
  <2>4. /\ DOMAIN req' = {"at", "amendment", "key", "by"} /\ req'.at = "begin" /\ req'.by = plan
        /\ req'.amendment = id /\ req'.key = key /\ key \in Keys /\ id \in DOMAIN amendments'
    BY <2>1, <2>2, <2>3, PlansKept DEF BranchRequest, KeepsPlans
  <2>5. PlanOf(id, plan)'
    BY <2>2, PlanStays
  <2>6. PlanOf(req.amendment, req.by)'
    BY <2>4, <2>5 DEF PlanOf
  <2> QED BY <2>4, <2>6 DEF RequestsInv, BranchRequest
<1>10. CASE ResumePlan \/ PointBranch
  <2>1. BranchRequest
    BY <1>10 DEF ResumePlan, PointBranch, At, LineInv, RequestsInv, Idle, CreationRequest, ApplyRequest
  <2>2. CASE ResumePlan
    <3>1. PICK plan \in Range(branchPlans) : req' = [req EXCEPT !.at = "materialize", !.by = plan]
      BY <2>2 DEF ResumePlan, LineInv, FilesInv
    <3> QED BY <2>1, <3>1, PlansGrow, BranchMoves DEF BranchPoints
  <2>3. CASE PointBranch
    <3>1. req.by \in Range(branchPlans) /\ req' = [req EXCEPT !.at = "materialize"]
      BY <2>1, <2>3 DEF PointBranch, Goto, BranchRequest, At
    <3> QED BY <2>1, <3>1, PlansGrow, BranchMoves DEF BranchPoints
  <2> QED BY <1>10, <2>2, <2>3
<1>11. CASE BeginBranch
  <2>1. BranchRequest
    BY <1>11 DEF BeginBranch, At, LineInv, RequestsInv, Idle, CreationRequest, ApplyRequest
  <2>2. PICK id, plan : /\ branchPlans' = Put(branchPlans, id, plan)
                        /\ req' = [req EXCEPT !.at = "pointBranch", !.by = plan]
    BY <1>11 DEF BeginBranch
  <2>3. plan \in Range(branchPlans')
    BY <2>2 DEF Put, Range
  <2> QED BY <2>1, <2>2, <2>3, BranchMoves DEF BranchPoints
<1>12. ASSUME NEW id \in DOMAIN branchPlans, NEW plan, plan = branchPlans[id], BranchingBy(plan)
       PROVE  RequestsInv'
  <2>1. CASE StageRun(plan) \/ CompleteBranch(plan)
    BY <1>1, <1>2, <2>1 DEF StageRun, CompleteBranch, End
  <2>2. CASE ~ (StageRun(plan) \/ CompleteBranch(plan))
    <3>1. /\ req.by = plan /\ req.at \in BranchPoints
          /\ \E point \in BranchPoints : req' = [req EXCEPT !.at = point]
      BY <1>12, <2>2 DEF BranchingBy, CopyArtifacts, PublishRun, Creating, ReuseTarget, LogSeeded,
                         AppendRun, LogBranched, At, Goto, BranchPoints
    <3>2. plan \in Plans /\ plan \notin Creates /\ plan \in Range(branchPlans')
      BY <1>12, PlansGrow, KindsAssumption DEF Range
    <3>3. BranchRequest
      BY <3>1, <3>2 DEF BranchPoints, LineInv, RequestsInv, Idle, CreationRequest, ApplyRequest
    <3> QED BY <3>1, <3>2, <3>3, BranchMoves
  <2> QED BY <2>1, <2>2
<1> QED BY <1>3, <1>4, <1>5, <1>6, <1>7, <1>8, <1>9, <1>10, <1>11, <1>12, NextCases

LEMMA LogsOnce ==
  ASSUME LineInv, NEW run \in DOMAIN runs, NEW event, LogOnce(run, event)
  PROVE  Logged(run, event)'
<1>1. run \in DOMAIN events /\ events[run] \in Seq(LogEvents)
  BY DEF LineInv, FilesInv
<1>2. CASE Logged(run, event)
  BY <1>2 DEF LogOnce, Logged
<1>3. CASE ~ Logged(run, event)
  <2>1. events'[run] = Append(events[run], event)
    BY <1>1, <1>3 DEF LogOnce
  <2>2. /\ Len(events[run]) + 1 \in DOMAIN events'[run]
        /\ events'[run][Len(events[run]) + 1] = event
    BY <1>1, <2>1
  <2> QED BY <2>2 DEF Logged
<1> QED BY <1>2, <1>3

LEMMA AppendLinks ==
  ASSUME NEW source, NEW target, lineage \in Seq(DOMAIN runs), lineage # <<>>,
         Last(lineage) = source, lineage' = Append(lineage, target)
  PROVE  Edge(source, target)'
<1>1. PICK n : n = Len(lineage)
  OBVIOUS
<1>2. n \in Nat /\ n >= 1 /\ lineage[n] = source
  BY <1>1 DEF Last
<1>3. /\ Len(lineage') = n + 1 /\ lineage'[n] = source /\ lineage'[n + 1] = target
  BY <1>1, <1>2
<1>4. n \in 1 .. Len(lineage') - 1
  BY <1>2, <1>3
<1> QED BY <1>3, <1>4 DEF Edge

(* A request for a branch reaches each of its later points with what the   *)
(* earlier ones left on disk, although it may have died there before.      *)
LEMMA ProgressStep == ASSUME IInv, LineInv, [Next]_vars PROVE ProgressInv'
<1> SUFFICES ASSUME NEW plan \in Range(branchPlans)', "by" \in DOMAIN req', req'.by = plan
             PROVE  ProgressOf(plan)'
  BY DEF ProgressInv
<1> PICK id \in DOMAIN branchPlans' : plan = branchPlans'[id]
  BY DEF Range
<1>1. PlanOf(id, branchPlans[id])'
  BY PlansStep DEF PlansInv
<1>2. plan \in Plans /\ plan \notin Creates
  BY <1>1, KindsAssumption DEF PlanOf
<1> USE DEF At
<1>3. CASE req'.at \notin {"createRun", "seedEvent", "appendRun", "sourceEvent", "completeBranch"}
  BY <1>3 DEF ProgressOf
<1>4. CASE req' = req /\ lineage' = lineage
  <2>1. CASE req.at \in {"createRun", "seedEvent", "appendRun", "sourceEvent", "completeBranch"}
    <3>1. req.by \in Range(branchPlans)
      BY <1>2, <1>4, <2>1 DEF LineInv, RequestsInv, Idle, CreationRequest, ApplyRequest, BranchRequest
    <3>2. PICK old \in DOMAIN branchPlans : plan = branchPlans[old]
      BY <1>4, <3>1 DEF Range
    <3>3. ProgressOf(plan)
      BY <1>4, <3>2 DEF LineInv, Range, ProgressInv
    <3> QED BY <1>4, <3>2, <3>3, FactsStay DEF ProgressOf
  <2>2. CASE req.at \notin {"createRun", "seedEvent", "appendRun", "sourceEvent", "completeBranch"}
    BY <1>3, <1>4, <2>2
  <2> QED BY <2>1, <2>2
<1>5. CASE Requests
  BY <1>3, <1>5 DEF Requests, PostProject, PostApply, PostBranch, Arrives
<1>6. CASE GiveUp \/ CompleteApply
  BY <1>3, <1>6 DEF GiveUp, CompleteApply, End, Idle
<1>7. CASE Execution \/ UNCHANGED vars
  BY <1>4, <1>7 DEF Execution, StartRun, CommitStage, FailRun, RecoverRun, Step, vars
<1>8. ASSUME NEW c \in Creates, CreationBy(c) PROVE ProgressOf(plan)'
  <2>1. CASE StageRun(c) \/ ReadPreparation(c)
    BY <1>4, <2>1 DEF StageRun, ReadPreparation
  <2>2. CASE Register(c)
    BY <1>3, <2>2 DEF Register, End, Idle
  <2>3. CASE Reserve(c) \/ RecoverReserved(c) \/ PublishRun(c, "markPrepared") \/ MarkPrepared(c)
    <3>1. /\ req.by = c
          /\ \E point \in {"createRun", "markPrepared", "register"} : req' = [req EXCEPT !.at = point]
      BY <2>3 DEF Reserve, RecoverReserved, PublishRun, Creating, MarkPrepared, Goto
    <3>2. req'.by = c
      BY <3>1
    <3> QED BY <1>2, <3>2
  <2> QED BY <1>8, <2>1, <2>2, <2>3 DEF CreationBy
<1>9. ASSUME NEW run, NEW stage, NEW payload, CreateAmendment(run, stage, payload) PROVE ProgressOf(plan)'
  BY <1>4, <1>9 DEF CreateAmendment
<1>10. CASE ProjectApply \/ RecoverReceipt
  <2>1. req' = [req EXCEPT !.at = "completeApply"]
    BY <1>10 DEF ProjectApply, RecoverReceipt, Goto
  <2>2. req'.at = "completeApply"
    BY <2>1 DEF IInv, RequestInv
  <2> QED BY <1>3, <2>2
<1>11. CASE (\E time \in Times : BuildPlan(time)) \/ ResumePlan \/ BeginBranch \/ PointBranch
  <2>1. \E point \in {"begin", "materialize", "pointBranch"} :
          req' = [req EXCEPT !.at = point] \/ \E by : req' = [req EXCEPT !.at = point, !.by = by]
    BY <1>11 DEF BuildPlan, ResumePlan, BeginBranch, PointBranch, Goto
  <2>2. req'.at \in {"begin", "materialize", "pointBranch"}
    BY <2>1 DEF IInv, RequestInv
  <2> QED BY <1>3, <2>2
<1>12. ASSUME NEW i \in DOMAIN branchPlans, NEW p, p = branchPlans[i], BranchingBy(p)
       PROVE  ProgressOf(plan)'
  <2>1. CASE StageRun(p)
    BY <1>4, <2>1 DEF StageRun
  <2>2. CASE CompleteBranch(p)
    BY <1>3, <2>2 DEF CompleteBranch, End, Idle
  <2>3. CASE ~ (StageRun(p) \/ CompleteBranch(p))
    <3>1. /\ req.by = p /\ req.at \in BranchPoints
          /\ \E point \in BranchPoints : req' = [req EXCEPT !.at = point]
      BY <1>12, <2>3 DEF BranchingBy, CopyArtifacts, PublishRun, Creating, ReuseTarget, LogSeeded,
                         AppendRun, LogBranched, At, Goto, BranchPoints
    <3>2. p = plan
      BY <3>1
    <3>3. ProgressOf(plan)
      <4>1. plan \in Range(branchPlans)
        BY <1>12, <3>2 DEF Range
      <4>2. "by" \in DOMAIN req
        BY <3>1 DEF BranchPoints, LineInv, RequestsInv, Idle, CreationRequest, ApplyRequest, BranchRequest
      <4> QED BY <3>1, <3>2, <4>1, <4>2 DEF LineInv, ProgressInv
    <3>4. /\ Copied(plan) => Copied(plan)'
          /\ Made(plan) => Made(plan)'
          /\ Linked(plan) => Linked(plan)'
          /\ Made(plan) /\ Seeded(plan) => Seeded(plan)'
          /\ Branched(plan) => Branched(plan)'
          /\ lineage' = lineage /\ AtEnd(plan) => AtEnd(plan)'
      BY <1>12, <3>2, FactsStay
    <3>5. RunName(plan)' = RunName(plan)
      BY DEF RunName, Target
    <3>6. \A point : req' = [req EXCEPT !.at = point] => req'.at = point
      BY DEF IInv, RequestInv
    <3>7. CASE CopyArtifacts(plan)
      <4>1. req'.at = "createRun" /\ lineage' = lineage
        BY <3>6, <3>7 DEF CopyArtifacts, Goto
      <4>2. Copied(plan)' /\ AtEnd(plan)
        BY <3>5, <3>7 DEF CopyArtifacts, Copied, AtEnd, Linked
      <4> QED BY <3>4, <4>1, <4>2 DEF ProgressOf
    <3>8. CASE PublishRun(plan, "seedEvent")
      <4>1. /\ req.at = "createRun" /\ req'.at = "seedEvent" /\ lineage' = lineage
            /\ runs' = Put(runs, RunName(plan), Seed(plan))
        BY <3>6, <3>8 DEF PublishRun, Creating, Goto
      <4>2. Seed(plan).by = plan
        BY <1>2 DEF Seed, NewRun
      <4>3. Made(plan)'
        BY <3>5, <4>1, <4>2 DEF Made, Exists, Put
      <4> QED BY <3>3, <3>4, <4>1, <4>3 DEF ProgressOf
    <3>9. CASE ReuseTarget(plan)
      <4>1. /\ req.at = "createRun" /\ req'.at = "seedEvent" /\ lineage' = lineage
            /\ Exists(RunName(plan)) /\ runs[RunName(plan)] = Seed(plan)
        BY <3>6, <3>9 DEF ReuseTarget, Creating, Goto
      <4>2. Made(plan)
        BY <1>2, <4>1 DEF Seed, NewRun, Made
      <4> QED BY <3>3, <3>4, <4>1, <4>2 DEF ProgressOf
    <3>10. CASE LogSeeded(plan)
      <4>1. /\ req.at = "seedEvent" /\ req'.at = "appendRun" /\ lineage' = lineage
            /\ LogOnce(RunName(plan), SeededEvent(plan))
        BY <3>6, <3>10 DEF LogSeeded, Goto
      <4>2. Copied(plan) /\ AtEnd(plan) /\ Made(plan)
        BY <3>3, <4>1 DEF ProgressOf
      <4>3. PICK run, event : run = RunName(plan) /\ event = SeededEvent(plan)
        OBVIOUS
      <4>4. run \in DOMAIN runs /\ LogOnce(run, event)
        BY <4>1, <4>2, <4>3 DEF Made, Exists
      <4>5. Logged(run, event)'
        BY <4>4, LogsOnce
      <4>6. Seeded(plan)'
        BY <3>5, <4>3, <4>5 DEF Seeded, SeededEvent, Logged
      <4> QED BY <3>4, <4>1, <4>2, <4>6 DEF ProgressOf
    <3>11. CASE AppendRun(plan)
      <4>1. req.at = "appendRun" /\ req'.at = "sourceEvent"
        BY <3>6, <3>11 DEF AppendRun, Goto
      <4>2. Copied(plan) /\ AtEnd(plan) /\ Made(plan) /\ Seeded(plan)
        BY <3>3, <4>1 DEF ProgressOf
      <4>3. Linked(plan)'
        <5>1. PICK source, target : source = plan.amendment.run /\ target = RunName(plan)
          OBVIOUS
        <5>2. CASE Edge(source, target)
          BY <3>4, <5>1, <5>2 DEF Linked
        <5>3. CASE Last(lineage) = source /\ lineage' = Append(lineage, target)
          <6>1. lineage \in Seq(DOMAIN runs) /\ lineage # <<>>
            BY <4>2 DEF AtEnd, LineInv, FilesInv
          <6>2. Edge(source, target)'
            BY <5>3, <6>1, AppendLinks
          <6> QED BY <3>5, <5>1, <6>2 DEF Linked, Edge
        <5> QED BY <3>11, <5>1, <5>2, <5>3 DEF AppendRun
      <4> QED BY <3>4, <4>1, <4>2, <4>3 DEF ProgressOf
    <3>12. CASE LogBranched(plan)
      <4>1. /\ req.at = "sourceEvent" /\ req'.at = "completeBranch"
            /\ LogOnce(plan.amendment.run, BranchedEvent(plan))
        BY <3>6, <3>12 DEF LogBranched, Goto
      <4>2. Copied(plan) /\ Linked(plan) /\ Made(plan) /\ Seeded(plan)
        BY <3>3, <4>1 DEF ProgressOf
      <4>3. PICK run, event : run = plan.amendment.run /\ event = BranchedEvent(plan)
        OBVIOUS
      <4>4. run \in DOMAIN runs
        <5>1. PlanOf(i, plan)
          BY <1>12, <3>2 DEF LineInv, PlansInv
        <5> QED BY <4>3, <5>1 DEF PlanOf
      <4>5. Logged(run, event)'
        BY <4>1, <4>3, <4>4, LogsOnce
      <4>6. Branched(plan)'
        BY <4>3, <4>5 DEF Branched, BranchedEvent, Logged
      <4> QED BY <3>4, <4>1, <4>2, <4>6 DEF ProgressOf
    <3> QED BY <1>12, <2>3, <3>2, <3>7, <3>8, <3>9, <3>10, <3>11, <3>12 DEF BranchingBy
  <2> QED BY <2>1, <2>2, <2>3
<1> QED BY <1>5, <1>6, <1>7, <1>8, <1>9, <1>10, <1>11, <1>12, NextCases

-----------------------------------------------------------------------------
LEMMA InitLine == Init => LineInv
<1> SUFFICES ASSUME Init PROVE LineInv
  OBVIOUS
<1>1. RecordsInv /\ PlansInv /\ ProgressInv /\ ResolvedInv
  BY DEF Init, RecordsInv, PlansInv, Range, ProgressInv, ResolvedInv
<1>2. FilesInv
  BY DEF Init, FilesInv
<1>3. PreparationsInv
  BY DEF Init, PreparationsInv
<1>4. RequestsInv
  BY DEF Init, RequestsInv
<1> QED BY <1>1, <1>2, <1>3, <1>4 DEF LineInv

(* The second invariant holds in every reachable state.                    *)
THEOREM LineInvariance == Spec => []LineInv
<1>1. IInv /\ LineInv /\ [Next]_vars => LineInv'
  BY RecordsStep, FilesStep, PreparationsStep, PlansStep, RequestStep, ProgressStep, ResolvedStep
     DEF LineInv
<1> QED BY InitLine, Invariance, <1>1, PTL DEF Spec

(* Every file refers only to files that were written before it: an event   *)
(* log to its Run, a receipt to its amendment, a plan to its receipt.      *)
THEOREM TypeCorrect == Spec => []TypeOK
<1>1. IInv /\ LineInv => TypeOK
  <2> SUFFICES ASSUME IInv, LineInv PROVE TypeOK
    OBVIOUS
  <2>1. \A c \in Creates :
          /\ preparations[c].status \in {"none", "reserved", "prepared"}
          /\ preparations[c].status = "prepared" => preparations[c].definition \in Creates
    BY DEF LineInv, PreparationsInv
  <2>2. \A run \in DOMAIN runs :
          /\ RunName(runs[run].by) = run
          /\ runs[run].status \in {"created", "open", "failed", "completed", "needs_action"}
          /\ runs[run].frontier \in 1 .. NumStages + 1
          /\ runs[run].refs \in [Stages -> Versions]
          /\ runs[run].amendment \in DOMAIN amendments \cup {None}
    BY DEF LineInv, RecordsInv, RecordOf, AmendedRecordOf, Unfinished
  <2>3. DOMAIN events = DOMAIN runs /\ ToSet(lineage) \subseteq DOMAIN runs
    BY DEF LineInv, FilesInv, ToSet
  <2>4. DOMAIN receipts \subseteq DOMAIN amendments
    BY DEF LineInv, FilesInv
  <2>5. DOMAIN branchPlans \subseteq DOMAIN receipts
    BY DEF LineInv, PlansInv, PlanOf
  <2>6. \A key \in DOMAIN branchKeys : branchKeys[key] \in Range(branchPlans)
    BY DEF LineInv, FilesInv
  <2>7. \A id \in DOMAIN resolved : resolved[id] = branchPlans[id]
    BY DEF LineInv, ResolvedInv
  <2>8. \A id \in DOMAIN amendments : id.run \in DOMAIN runs
    BY DEF IInv, RunsInv, ImpactInv
  <2> QED BY <2>1, <2>2, <2>3, <2>4, <2>5, <2>6, <2>7, <2>8 DEF TypeOK
<1> QED BY Invariance, LineInvariance, <1>1, PTL

(* What an acknowledged branch promised is still on disk: the edge in the  *)
(* line, the successor seeded from the plan with the amended version, the  *)
(* copied artifacts, and the events of both Runs.                          *)
THEOREM ReceiptsStayBacked == Spec => []ReceiptsAreBacked
<1>1. LineInv => ReceiptsAreBacked
  <2> SUFFICES ASSUME LineInv, NEW id \in DOMAIN resolved, NEW plan, plan = resolved[id]
               PROVE  LET target == RunName(plan)
                      IN  /\ Edge(id.run, target)
                          /\ Exists(target) /\ runs[target].by = plan
                          /\ target \in copied
                          /\ Logged(target, SeededEvent(plan)) /\ Logged(id.run, BranchedEvent(plan))
                          /\ plan.inherited[id.stage] = id.payload
    BY DEF ReceiptsAreBacked
  <2>1. /\ id \in DOMAIN branchPlans /\ plan = branchPlans[id]
        /\ Copied(plan) /\ Linked(plan) /\ Made(plan) /\ Seeded(plan) /\ Branched(plan)
    BY DEF LineInv, ResolvedInv
  <2>2. plan.amendment = id /\ plan.inherited[id.stage] = id.payload
    BY <2>1 DEF LineInv, PlansInv, PlanOf
  <2> QED BY <2>1, <2>2 DEF Copied, Linked, Made, Seeded, Branched
<1> QED BY LineInvariance, <1>1, PTL

-----------------------------------------------------------------------------
(* Every step is one of Succession's or leaves what it shows alone.        *)
Amended == {run \in DOMAIN runs : runs[run].amendment # None}
Acknowledged == {id.run : id \in DOMAIN resolved}

(* Both modules take the ends of a sequence from the same place.           *)
LEMMA SameEnds ==
  ASSUME NEW s
  PROVE  /\ Succession!Front(s) = Front(s) /\ Succession!Last(s) = Last(s)
         /\ Succession!ToSet(s) = ToSet(s)
  BY DEF Succession!Front, Front, Succession!Last, Last, Succession!ToSet, ToSet

LEMMA PublishRootMaps ==
  ASSUME LineInv, NEW c \in Creates, PublishRun(c, "markPrepared")
  PROVE  Succession!Next
<1>1. PICK run : run = RunName(c)
  OBVIOUS
<1>2. /\ run \notin DOMAIN runs /\ DOMAIN runs' = DOMAIN runs \cup {run}
      /\ runs'[run].amendment = None /\ \A other \in DOMAIN runs : runs'[other] = runs[other]
  BY <1>1 DEF PublishRun, Exists, Put, Seed, NewRun
<1>3. Amended' = Amended
  BY <1>2 DEF Amended
<1>4. UNCHANGED <<lineage, Acknowledged>>
  BY DEF PublishRun, branching, Acknowledged
<1>5. Succession!CreateRoot(run)
  BY <1>1, <1>2, <1>3, <1>4, RootName DEF Succession!CreateRoot, Succession!IsRoot, Amended, Acknowledged
<1> QED BY <1>2, <1>5 DEF Succession!Next

(* The branch's source is still the last of the line, and any successor it *)
(* already had would have come from the same plan, under the same name.    *)
LEMMA PublishSuccessorMaps ==
  ASSUME LineInv, NEW id \in DOMAIN branchPlans, NEW plan, plan = branchPlans[id],
         PublishRun(plan, "seedEvent")
  PROVE  Succession!Next
<1>1. PlanOf(id, plan)
  BY DEF LineInv, PlansInv
<1>2. PICK run, source : run = RunName(plan) /\ source = id.run
  OBVIOUS
<1>3. plan \in Plans /\ plan.amendment = id /\ source \in Amended
  BY <1>1, <1>2 DEF PlanOf, Amended
<1>4. Len(run) # 1 /\ Front(run) = source
  BY <1>2, <1>3, SuccessorName
<1>5. /\ run \notin DOMAIN runs /\ DOMAIN runs' = DOMAIN runs \cup {run}
      /\ runs'[run].amendment = None /\ \A other \in DOMAIN runs : runs'[other] = runs[other]
  BY <1>2 DEF PublishRun, Exists, Put, Seed, NewRun
<1>6. AtEnd(plan)
  BY DEF PublishRun, Creating, At, LineInv, Range, ProgressInv, ProgressOf, RequestsInv, Idle, CreationRequest,
         ApplyRequest, BranchRequest
<1>7. ~ Linked(plan)
  <2>1. lineage \in Seq(DOMAIN runs)
    BY DEF LineInv, FilesInv
  <2>2. ASSUME NEW i \in 1 .. Len(lineage) - 1 PROVE lineage[i + 1] \in DOMAIN runs
    <3>1. i + 1 \in 1 .. Len(lineage)
      BY <2>1
    <3> QED BY <2>1, <3>1
  <2> QED BY <1>2, <1>5, <2>2 DEF Linked, Edge
<1>8. lineage # <<>> /\ Last(lineage) = source
  BY <1>2, <1>3, <1>6, <1>7 DEF AtEnd
<1>9. ASSUME NEW other \in DOMAIN runs, Len(other) # 1 PROVE Front(other) # source
  <2>1. RecordOf(other)
    BY DEF LineInv, RecordsInv
  <2>2. runs[other].by \notin Creates /\ RunName(runs[other].by) = other
    BY <1>9, <2>1, RootName DEF RecordOf
  <2>3. PICK known \in DOMAIN branchPlans : runs[other].by = branchPlans[known]
    BY <2>1, <2>2 DEF RecordOf, Range
  <2>4. PlanOf(known, branchPlans[known])
    BY DEF LineInv, PlansInv
  <2>5. Front(other) = known.run
    BY <2>2, <2>3, <2>4, SuccessorName DEF PlanOf
  <2>6. known.run = id.run => known = id
    BY <1>1, <2>4 DEF PlanOf
  <2>7. known # id
    BY <1>2, <1>5, <2>2, <2>3
  <2> QED BY <1>2, <2>5, <2>6, <2>7
<1>10. Amended' = Amended
  BY <1>5 DEF Amended
<1>11. UNCHANGED <<lineage, Acknowledged>>
  BY DEF PublishRun, branching, Acknowledged
<1>12. /\ ~ Succession!IsRoot(run) /\ Succession!Source(run) = source
       /\ Succession!Last(lineage) = source
       /\ \A other \in DOMAIN runs : ~ Succession!IsRoot(other) => Succession!Source(other) # source
  BY <1>4, <1>8, <1>9, SameEnds DEF Succession!IsRoot, Succession!Source
<1>13. Succession!CreateSuccessor(run)
  BY <1>3, <1>5, <1>8, <1>10, <1>11, <1>12 DEF Succession!CreateSuccessor, Amended, Acknowledged
<1> QED BY <1>5, <1>13 DEF Succession!Next

LEMMA RegisterMaps ==
  ASSUME LineInv, NEW c \in Creates, Register(c)
  PROVE  Succession!Next \/ UNCHANGED <<DOMAIN runs, Amended, lineage, Acknowledged>>
<1>1. UNCHANGED <<DOMAIN runs, Amended, Acknowledged>>
  BY DEF Register, branching, Amended, Acknowledged
<1>2. CASE lineage = <<RunName(c)>>
  BY <1>1, <1>2 DEF Register
<1>3. CASE lineage = <<>>
  <2>1. RunName(c) \in DOMAIN runs
    BY DEF Register, At, LineInv, RequestsInv, Idle, CreationRequest, ApplyRequest, BranchRequest, Exists
  <2>2. Len(RunName(c)) = 1 /\ lineage' = <<RunName(c)>>
    BY RootName DEF Register
  <2>3. Succession!Found
    BY <1>1, <1>3, <2>1, <2>2 DEF Succession!Found, Succession!IsRoot, Amended, Acknowledged
  <2> QED BY <2>3 DEF Succession!Next
<1> QED BY <1>2, <1>3 DEF Register

LEMMA ApplyMaps == ASSUME IInv, LineInv, ProjectApply PROVE Succession!Next
<1>1. PICK id : id = req.plan.amendment
  OBVIOUS
<1>2. /\ id.run \in DOMAIN runs /\ DOMAIN runs' = DOMAIN runs
      /\ \A other \in DOMAIN runs \ {id.run} : runs'[other] = runs[other]
      /\ id.run \notin Amended /\ runs'[id.run].amendment # None
  <2>1. /\ id.run \in DOMAIN runs /\ DOMAIN runs' = DOMAIN runs
        /\ \A other \in DOMAIN runs \ {id.run} : runs'[other] = runs[other]
        /\ runs'[id.run].amendment # None
    BY <1>1, ApplyRecords
  <2>2. runs[id.run].status # "needs_action" /\ RecordOf(id.run)
    BY <1>1, <2>1 DEF ProjectApply, AtFrontier, Settled, LineInv, RecordsInv
  <2> QED BY <2>1, <2>2 DEF RecordOf, Amended
<1>3. Amended' = Amended \cup {id.run}
  BY <1>2 DEF Amended
<1>4. UNCHANGED <<lineage, Acknowledged>>
  BY DEF ProjectApply, branching, Acknowledged
<1>5. Succession!Amend
  BY <1>2, <1>3, <1>4 DEF Succession!Amend, Amended, Acknowledged
<1> QED BY <1>5 DEF Succession!Next

LEMMA AppendMaps ==
  ASSUME LineInv, NEW id \in DOMAIN branchPlans, NEW plan, plan = branchPlans[id], AppendRun(plan)
  PROVE  Succession!Next \/ UNCHANGED <<DOMAIN runs, Amended, lineage, Acknowledged>>
<1>1. UNCHANGED <<DOMAIN runs, Amended, Acknowledged>>
  BY DEF AppendRun, branching, Amended, Acknowledged
<1>2. CASE lineage' = lineage
  BY <1>1, <1>2
<1>3. CASE Last(lineage) = plan.amendment.run /\ lineage' = Append(lineage, RunName(plan))
  <2>1. AtEnd(plan) /\ Made(plan)
    BY DEF AppendRun, At, LineInv, Range, ProgressInv, ProgressOf, RequestsInv, Idle, CreationRequest,
           ApplyRequest, BranchRequest
  <2>2. plan \in Plans
    BY DEF LineInv, PlansInv, PlanOf
  <2>3. Len(RunName(plan)) # 1 /\ Front(RunName(plan)) = plan.amendment.run
    BY <2>2, SuccessorName
  <2>4. /\ RunName(plan) \in DOMAIN runs /\ lineage # <<>> /\ ~ Succession!IsRoot(RunName(plan))
        /\ Succession!Source(RunName(plan)) = Succession!Last(lineage)
    BY <1>3, <2>1, <2>3, SameEnds DEF Succession!IsRoot, Succession!Source, AtEnd, Made, Exists
  <2>5. Succession!Extend
    BY <1>1, <1>3, <2>4 DEF Succession!Extend, Amended, Acknowledged
  <2> QED BY <2>5 DEF Succession!Next
<1> QED BY <1>2, <1>3 DEF AppendRun

LEMMA CompleteMaps ==
  ASSUME LineInv, NEW id \in DOMAIN branchPlans, NEW plan, plan = branchPlans[id], CompleteBranch(plan)
  PROVE  Succession!Next
<1>1. PlanOf(id, plan)
  BY DEF LineInv, PlansInv
<1>2. PICK run : run = RunName(plan)
  OBVIOUS
<1>3. Len(run) # 1 /\ Front(run) = id.run
  BY <1>1, <1>2, SuccessorName DEF PlanOf
<1>4. run \in ToSet(lineage)
  <2>1. Linked(plan)
    BY DEF CompleteBranch, At, LineInv, Range, ProgressInv, ProgressOf, RequestsInv, Idle, CreationRequest,
           ApplyRequest, BranchRequest
  <2>2. PICK i \in 1 .. Len(lineage) - 1 : lineage[i + 1] = run
    BY <1>2, <2>1 DEF Linked, Edge
  <2>3. lineage \in Seq(DOMAIN runs)
    BY DEF LineInv, FilesInv
  <2>4. i + 1 \in DOMAIN lineage
    BY <2>3
  <2> QED BY <2>2, <2>4 DEF ToSet
<1>5. Acknowledged' = Acknowledged \cup {id.run}
  BY <1>1 DEF CompleteBranch, Put, PlanOf, Acknowledged
<1>6. UNCHANGED <<DOMAIN runs, Amended, lineage>>
  BY DEF CompleteBranch, Amended
<1>7. Succession!Resolve
  BY <1>3, <1>4, <1>5, <1>6, SameEnds
     DEF Succession!Resolve, Succession!IsRoot, Succession!Source, Amended, Acknowledged
<1> QED BY <1>7 DEF Succession!Next

LEMMA StepMaps ==
  ASSUME IInv, LineInv, [Next]_vars
  PROVE  Succession!Next \/ UNCHANGED <<DOMAIN runs, Amended, lineage, Acknowledged>>
<1> DEFINE Same == UNCHANGED <<DOMAIN runs, Amended, lineage, Acknowledged>>
<1> USE DEF Amended, Acknowledged
<1>1. CASE Requests \/ GiveUp \/ UNCHANGED vars
  BY <1>1 DEF Requests, PostProject, PostApply, PostBranch, Arrives, GiveUp, vars, branching
<1>2. CASE Execution
  <2>1. PICK run \in DOMAIN runs : \E record : Steps(run, record)
    BY <1>2, ExecutionRuns
  <2>2. PICK record : Steps(run, record)
    BY <2>1
  <2>3. UNCHANGED <<DOMAIN runs, Amended>>
    BY <2>2 DEF Steps
  <2>4. UNCHANGED <<lineage, Acknowledged>>
    BY <1>2 DEF Execution, StartRun, CommitStage, FailRun, RecoverRun, Step, branching
  <2> QED BY <2>3, <2>4
<1>3. ASSUME NEW c \in Creates, CreationBy(c) PROVE Succession!Next \/ Same
  <2>1. CASE PublishRun(c, "markPrepared")
    BY <2>1, PublishRootMaps
  <2>2. CASE Register(c)
    BY <2>2, RegisterMaps
  <2> QED BY <1>3, <2>1, <2>2 DEF CreationBy, Reserve, RecoverReserved, StageRun, MarkPrepared,
                                  ReadPreparation, branching
<1>4. ASSUME NEW run, NEW stage, NEW payload, CreateAmendment(run, stage, payload) PROVE Same
  BY <1>4 DEF CreateAmendment, branching
<1>5. CASE ProjectApply
  BY <1>5, ApplyMaps
<1>6. CASE RecoverReceipt \/ CompleteApply
  BY <1>6 DEF RecoverReceipt, CompleteApply, branching
<1>7. CASE (\E time \in Times : BuildPlan(time)) \/ ResumePlan \/ BeginBranch \/ PointBranch
  BY <1>7 DEF BuildPlan, ResumePlan, BeginBranch, PointBranch, branching
<1>8. ASSUME NEW id \in DOMAIN branchPlans, NEW plan, plan = branchPlans[id], BranchingBy(plan)
      PROVE  Succession!Next \/ Same
  <2>1. CASE PublishRun(plan, "seedEvent")
    BY <1>8, <2>1, PublishSuccessorMaps
  <2>2. CASE AppendRun(plan)
    BY <1>8, <2>2, AppendMaps
  <2>3. CASE CompleteBranch(plan)
    BY <1>8, <2>3, CompleteMaps
  <2> QED BY <1>8, <2>1, <2>2, <2>3 DEF BranchingBy, CopyArtifacts, StageRun, ReuseTarget, LogSeeded,
                                        LogBranched, branching
<1> QED BY <1>1, <1>2, <1>3, <1>4, <1>5, <1>6, <1>7, <1>8, NextCases

(* One line of Runs: it grows only at its end, by the one successor of the *)
(* amended Run there, whatever dies between two files and whichever keys   *)
(* the requests are sent again with.                                       *)
THEOREM RefinesSuccession == Spec => ImplementsSuccession
<1>1. Init => Succession!Init
  BY DEF Init, Succession!Init
<1>2. IInv /\ LineInv /\ [Next]_vars => [Succession!Next]_Succession!successionVars
  BY StepMaps DEF Succession!successionVars, Amended, Acknowledged
<1> QED BY Invariance, LineInvariance, <1>1, <1>2, PTL DEF Spec, ImplementsSuccession, Succession!Spec

===============================================================================
