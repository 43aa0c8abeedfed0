---------------------------- MODULE ProjectLineage ----------------------------
(***************************************************************************)
(* One project from its creation through the amendments of its Runs and    *)
(* the successor Runs they branch into: Phase32CreationService and         *)
(* ProjectService, ArtifactAmendmentService, AmendmentBranchService, and   *)
(* the stores of preparations, Runs, amendments, branches and the catalog. *)
(*                                                                         *)
(* Every handler is a coroutine without an await, so one request at a time *)
(* moves; but it may die, or a write may fail, between any two files, and  *)
(* the client then sends the same or another request.  Each action writes  *)
(* at most one file, except where a file is content-addressed and nothing  *)
(* refers to it before the next one is written (impacts, plans, receipts   *)
(* and artifacts beside their pointers), and except for the commit of a    *)
(* projection with its event, which RunRepository shows to be atomic.      *)
(***************************************************************************)
EXTENDS Naturals, Sequences, SequencesExt, FiniteSets

CONSTANTS
  Creates,         \* the idempotency keys of POST /api/projects
  RootOf,          \* the Run id each of them names
  NumStages,
  PlanningStages,  \* those whose artifact may be amended
  Original,        \* what a stage first commits
  Payloads,        \* what amendments propose
  Keys,            \* idempotency keys of branches
  Times,           \* what the clock may show when a plan is made
  MaxSuccessors,   \* bound on the length of the line
  MaxAmendments,   \* bound on the amendments created
  None

Stages == 1 .. NumStages
Versions == Payloads \cup {Original, None}
Scopes == {"affected_only", "restart_from_stage"}

ASSUME StagesAssumption == NumStages \in Nat \ {0} /\ PlanningStages \subseteq Stages
ASSUME PayloadsAssumption ==
  None \notin Payloads \cup {Original} /\ Original \notin Payloads
ASSUME NamesAssumption == DOMAIN RootOf = Creates /\ {MaxSuccessors, MaxAmendments} \subseteq Nat

VARIABLES
  preparations,  \* of each creation key
  staging,       \* complete staging directories: the Run and its definition
  runs,          \* the Runs on disk
  events,        \* of each Run: what these services log
  lineage,       \* run_ids of the project's catalog record
  amendments,    \* amendment id to its impact
  receipts,      \* amendment id to the scope its receipt states
  branchPlans,   \* amendment id to branch plan
  branchKeys,    \* Run and key to branch plan
  copied,        \* Runs into which inherited artifacts were copied
  resolved,      \* amendment id to the branch plan its receipt states
  req            \* the request being handled

creation == <<preparations, staging>>
amending == <<amendments, receipts>>
branching == <<branchPlans, branchKeys, copied, resolved>>
vars == <<creation, runs, events, lineage, amending, branching, req>>

(* A pointer or record file is written.                                    *)
Put(f, x, value) == [y \in DOMAIN f \cup {x} |-> IF y = x THEN value ELSE f[y]]

Idle == [at |-> "idle"]
At(point) == req.at = point
Goto(point) == req' = [req EXCEPT !.at = point]
Begin(plan, point) == req' = [req EXCEPT !.at = point, !.plan = plan]
End == req' = Idle

-----------------------------------------------------------------------------
(* A Run: the key or plan its frozen definition came from, the stage it    *)
(* works on, what its stages committed, and the projected amendment.       *)
NewRun(by, frontier, refs) ==
  [by |-> by, status |-> "created", frontier |-> frontier, refs |-> refs,
   revision |-> 0, amendment |-> None, stale |-> {}]

(* A successor's id is a digest of the branch command.                     *)
Target(id, key) == Append(id.run, <<id.stage, id.payload, id.revision, key>>)
RunName(by) == IF by \in Creates THEN <<RootOf[by]>> ELSE Target(by.amendment, by.key)
NothingCommitted == [stage \in Stages |-> None]

(* The initial projection of a root, and of a successor: the inherited     *)
(* stages completed, the frontier available.                               *)
Seed(by) ==
  IF by \in Creates
    THEN NewRun(by, 1, NothingCommitted)
    ELSE NewRun(by, by.frontier, by.inherited)

(* An amendment's identity, and what it makes stale.                       *)
AmendmentId(run, stage, payload) ==
  [run |-> run, stage |-> stage, payload |-> payload,
   source |-> runs[run].refs[stage], revision |-> runs[run].revision]

Below(stage) == {k \in Stages : k > stage}

(* Descendants with material: committed, or the stage the Run failed in.   *)
Material(run, stage) ==
  {k \in Below(stage) : runs[run].refs[k] # None \/ k = runs[run].frontier}

StaleScope(plan) ==
  IF plan.scope = "affected_only"
    THEN amendments[plan.amendment]
    ELSE Below(plan.amendment.stage)

ApplyPlan(id, scope) == [amendment |-> id, scope |-> scope]

Earliest(stages) == CHOOSE k \in stages : \A other \in stages : k <= other

Settled(run) == runs[run].status \in {"completed", "failed"}
Applied(id) == runs[id.run].amendment = id

Edge(source, target) ==
  \E i \in 1 .. Len(lineage) - 1 : lineage[i] = source /\ lineage[i + 1] = target

Logged(run, event) == \E i \in DOMAIN events[run] : events[run][i] = event

(* The values that identify Runs, amendments and branch plans.  In the     *)
(* code each is a digest of the same fields.                               *)
Names ==
  Seq({RootOf[c] : c \in Creates} \cup (PlanningStages \X Payloads \X Nat \X Keys)) \ {<<>>}
AmendmentIds ==
  [run : Names, stage : PlanningStages, payload : Payloads, source : Versions, revision : Nat]
Plans ==
  [amendment : AmendmentIds, key : Keys, frontier : Stages, time : Times,
   inherited : [Stages -> Versions]]

(* A creation key and a branch plan are different kinds of things.         *)
ASSUME KindsAssumption == None \notin AmendmentIds /\ Creates \cap Plans = {}

-----------------------------------------------------------------------------
Init ==
  /\ preparations = [c \in Creates |-> [status |-> "none", definition |-> None]]
  /\ staging = [run \in {} |-> None]
  /\ runs = [run \in {} |-> None]
  /\ events = [run \in {} |-> <<>>]
  /\ lineage = <<>>
  /\ amendments = [id \in {} |-> None]
  /\ receipts = [id \in {} |-> None]
  /\ branchPlans = [id \in {} |-> None]
  /\ branchKeys = [key \in {} |-> None]
  /\ copied = {}
  /\ resolved = [id \in {} |-> None]
  /\ req = Idle

(* A client's request arrives.                                             *)
Arrives(command) ==
  /\ At("idle")
  /\ req' = command
  /\ UNCHANGED <<creation, runs, events, lineage, amending, branching>>

PostProject(c) == Arrives([at |-> "prepare", by |-> c])

PostApply(id, scope) == Arrives([at |-> "apply", plan |-> ApplyPlan(id, scope)])

PostBranch(id, key) == Arrives([at |-> "branch", amendment |-> id, key |-> key, by |-> None])

(* The request is refused, a write fails, or the process dies: what was    *)
(* written stays.                                                          *)
GiveUp ==
  /\ ~At("idle")
  /\ End
  /\ UNCHANGED <<creation, runs, events, lineage, amending, branching>>

-----------------------------------------------------------------------------
(* Phase32RunRepository.create.                                            *)
Creating(by) == At("createRun") /\ req.by = by
Exists(run) == run \in DOMAIN runs

StageRun(by) ==
  /\ Creating(by) /\ ~Exists(RunName(by))
  /\ RunName(by) \notin DOMAIN staging
  /\ staging' = Put(staging, RunName(by), by)
  /\ UNCHANGED <<preparations, runs, events, lineage, amending, branching, req>>

(* The staging directory is renamed: its own, or a complete one left by an *)
(* earlier attempt at the same definition.                                 *)
PublishRun(by, after) ==
  LET run == RunName(by)
  IN  /\ Creating(by) /\ ~Exists(run)
      /\ run \in DOMAIN staging /\ staging[run] = by
      /\ runs' = Put(runs, run, Seed(by))
      /\ events' = Put(events, run, <<>>)
      /\ staging' = [other \in DOMAIN staging \ {run} |-> staging[other]]
      /\ Goto(after)
      /\ UNCHANGED <<preparations, lineage, amending, branching>>

-----------------------------------------------------------------------------
(* Phase32ProjectService.create, with _prepare of the creation service.    *)
Preparation(status, definition) == [status |-> status, definition |-> definition]

Reserve(c) ==
  /\ At("prepare") /\ req.by = c
  /\ preparations[c].status = "none"
  /\ preparations' = [preparations EXCEPT ![c] = Preparation("reserved", None)]
  /\ Goto("createRun")
  /\ UNCHANGED <<staging, runs, events, lineage, amending, branching>>

(* _recover_reserved: a Run that exists under the reserved id is taken as  *)
(* it is.                                                                  *)
RecoverReserved(c) ==
  /\ At("prepare") /\ req.by = c
  /\ preparations[c].status # "none"
  /\ Goto(IF Exists(RunName(c)) THEN "markPrepared" ELSE "createRun")
  /\ UNCHANGED <<creation, runs, events, lineage, amending, branching>>

(* _create_or_reuse_definition.  A definition freezes when it was created, *)
(* so a Run found here has another one and is refused (GiveUp).            *)
CreateOrReuseDefinition(c) == StageRun(c) \/ PublishRun(c, "markPrepared")

MarkPrepared(c) ==
  LET definition == runs[RunName(c)].by
  IN  /\ At("markPrepared") /\ req.by = c
      /\ preparations[c] \in {Preparation("reserved", None), Preparation("prepared", definition)}
      /\ preparations' = [preparations EXCEPT ![c] = Preparation("prepared", definition)]
      /\ Goto("register")
      /\ UNCHANGED <<staging, runs, events, lineage, amending, branching>>

(* GET /preparations/{key} completes a reservation whose Run exists.       *)
ReadPreparation(c) ==
  /\ At("idle") /\ Exists(RunName(c))
  /\ preparations[c].status = "reserved"
  /\ preparations' = [preparations EXCEPT ![c] = Preparation("prepared", runs[RunName(c)].by)]
  /\ UNCHANGED <<staging, runs, events, lineage, amending, branching, req>>

(* Phase32ProjectCatalogStore.register: an existing record must be equal.  *)
Register(c) ==
  /\ At("register") /\ req.by = c
  /\ lineage \in {<<>>, <<RunName(c)>>}
  /\ lineage' = <<RunName(c)>>
  /\ End
  /\ UNCHANGED <<creation, runs, events, amending, branching>>

-----------------------------------------------------------------------------
(* ArtifactAmendmentService.create: the source must be the current         *)
(* committed artifact of a Run at rest, and the proposal change it.  The   *)
(* command is content-addressed; the pointer from its key, which only      *)
(* answers a replay with what is stored, is left out.                      *)
CreateAmendment(run, stage, payload) ==
  LET id == AmendmentId(run, stage, payload)
  IN  /\ At("idle")
      /\ Settled(run)
      /\ runs[run].refs[stage] \notin {None, payload}
      /\ id \notin DOMAIN amendments
      /\ Cardinality(DOMAIN amendments) < MaxAmendments
      /\ amendments' = Put(amendments, id, Material(run, stage))
      /\ UNCHANGED <<creation, runs, events, lineage, receipts, branching, req>>

(* apply, the first time.  Its plan is content-addressed too, and the      *)
(* pointer from its key may only have the request refused, which GiveUp    *)
(* stands for, like the refusal of an amendment that removes a reference   *)
(* still in use.                                                           *)
Applies(id) ==
  /\ At("apply") /\ req.plan.amendment = id
  /\ id \notin DOMAIN receipts
  /\ StaleScope(req.plan) # {}

(* Mutant: an apply that looks at the source artifact only.                *)
AtSource(id) ==
  /\ runs[id.run].refs[id.stage] = id.source
  /\ Settled(id.run)

(* _validate_apply_frontier, the new artifact version, and _project_apply. *)
AtFrontier(id) ==
  /\ runs[id.run].revision = id.revision
  /\ runs[id.run].refs[id.stage] = id.source
  /\ Settled(id.run)

AppliedEvent(plan) == [kind |-> "applied", plan |-> plan]

ProjectApply ==
  LET id == req.plan.amendment
      current == runs[id.run]
  IN  /\ Applies(id) /\ ~Applied(id)
      /\ AtFrontier(id)
      /\ runs' = [runs EXCEPT ![id.run] =
                    [current EXCEPT !.status = "needs_action",
                                    !.refs[id.stage] = id.payload,
                                    !.revision = current.revision + 1,
                                    !.amendment = id,
                                    !.stale = StaleScope(req.plan)]]
      /\ events' = [events EXCEPT ![id.run] = Append(@, AppliedEvent(req.plan))]
      /\ Goto("completeApply")
      /\ UNCHANGED <<creation, lineage, amending, branching>>

(* _recover_receipt: the amendment is projected already.                   *)
RecoverReceipt ==
  LET id == req.plan.amendment
  IN  /\ Applies(id) /\ Applied(id)
      /\ runs[id.run].revision = id.revision + 1
      /\ runs[id.run].refs[id.stage] = id.payload
      /\ runs[id.run].stale = StaleScope(req.plan)
      /\ \E i \in DOMAIN events[id.run] :
           events[id.run][i].kind = "applied" /\ events[id.run][i].plan.amendment = id
      /\ Goto("completeApply")
      /\ UNCHANGED <<creation, runs, events, lineage, amending, branching>>

CompleteApply ==
  /\ At("completeApply")
  /\ receipts' = Put(receipts, req.plan.amendment, req.plan.scope)
  /\ End
  /\ UNCHANGED <<creation, runs, events, lineage, amendments, branching>>

-----------------------------------------------------------------------------
(* AmendmentBranchService._build_plan: the stages before the earliest      *)
(* stale one are inherited.                                                *)
BranchPlan(id, key, time) ==
  LET frontier == Earliest(runs[id.run].stale)
  IN  [amendment |-> id, key |-> key, frontier |-> frontier, time |-> time,
       inherited |-> [k \in Stages |-> IF k < frontier THEN runs[id.run].refs[k] ELSE None]]

(* Mutant: a branch planned from the projection, whatever its receipt.     *)
BuildPlanUnacknowledged(time) ==
  LET id == req.amendment
  IN  /\ At("branch") /\ id \notin DOMAIN resolved
      /\ <<id.run, req.key>> \notin DOMAIN branchKeys
      /\ runs[id.run].status = "needs_action" /\ Applied(id)
      /\ lineage # <<>> /\ Last(lineage) = id.run
      /\ Len(lineage) <= MaxSuccessors
      /\ req' = [req EXCEPT !.at = "begin", !.by = BranchPlan(id, req.key, time)]
      /\ UNCHANGED <<creation, runs, events, lineage, amending, branching>>

BuildPlan(time) ==
  LET id == req.amendment
  IN  /\ At("branch") /\ id \notin DOMAIN resolved
      /\ <<id.run, req.key>> \notin DOMAIN branchKeys
      /\ runs[id.run].status = "needs_action" /\ Applied(id)
      /\ id \in DOMAIN receipts
      /\ StaleScope(ApplyPlan(id, receipts[id])) = runs[id.run].stale
      /\ lineage # <<>> /\ Last(lineage) = id.run
      /\ Len(lineage) <= MaxSuccessors
      /\ req' = [req EXCEPT !.at = "begin", !.by = BranchPlan(id, req.key, time)]
      /\ UNCHANGED <<creation, runs, events, lineage, amending, branching>>

(* Mutant: a target that exists is taken for a finished branch.            *)
ResumeAtReceipt ==
  LET id == req.amendment
      plan == branchKeys[<<id.run, req.key>>]
  IN  /\ At("branch") /\ id \notin DOMAIN resolved
      /\ <<id.run, req.key>> \in DOMAIN branchKeys
      /\ plan.amendment = id
      /\ req' = [req EXCEPT !.at = IF Exists(RunName(plan)) THEN "completeBranch" ELSE "materialize",
                            !.by = plan]
      /\ UNCHANGED <<creation, runs, events, lineage, amending, branching>>

(* The plan stored under this key is taken up again.                       *)
ResumePlan ==
  LET id == req.amendment
  IN  /\ At("branch") /\ id \notin DOMAIN resolved
      /\ <<id.run, req.key>> \in DOMAIN branchKeys
      /\ branchKeys[<<id.run, req.key>>].amendment = id
      /\ req' = [req EXCEPT !.at = "materialize", !.by = branchKeys[<<id.run, req.key>>]]
      /\ UNCHANGED <<creation, runs, events, lineage, amending, branching>>

(* Mutant: every key has the amendment branched by a plan of its own.      *)
BeginAnotherBranch ==
  /\ At("begin")
  /\ branchPlans' = Put(branchPlans, req.amendment, req.by)
  /\ Goto("pointBranch")
  /\ UNCHANGED <<creation, runs, events, lineage, amending, branchKeys, copied, resolved>>

(* Phase32AmendmentBranchStore.begin: the amendment's plan is written once *)
(* and belongs to the command that made it.                                *)
BeginBranch ==
  LET id == req.amendment
      known == id \in DOMAIN branchPlans
      plan == IF known THEN branchPlans[id] ELSE req.by
  IN  /\ At("begin") /\ plan.key = req.key
      /\ branchPlans' = Put(branchPlans, id, plan)
      /\ req' = [req EXCEPT !.at = "pointBranch", !.by = plan]
      /\ UNCHANGED <<creation, runs, events, lineage, amending, branchKeys, copied, resolved>>

PointBranch ==
  /\ At("pointBranch")
  /\ branchKeys' = Put(branchKeys, <<req.amendment.run, req.key>>, req.by)
  /\ Goto("materialize")
  /\ UNCHANGED <<creation, runs, events, lineage, amending, branchPlans, copied, resolved>>

(* _materialize: the line may already contain the edge, and must end in    *)
(* the source if it does not.                                              *)
CopyArtifacts(plan) ==
  LET source == plan.amendment.run
      target == RunName(plan)
  IN  /\ At("materialize") /\ req.by = plan
      /\ lineage # <<>>
      /\ Edge(source, target) \/ Last(lineage) = source
      /\ copied' = copied \cup {target}
      /\ Goto("createRun")
      /\ UNCHANGED <<creation, runs, events, lineage, amending, branchPlans, branchKeys, resolved>>

(* FileExistsError: an existing target must still be in its initial state. *)
ReuseTarget(plan) ==
  /\ Creating(plan) /\ Exists(RunName(plan))
  /\ runs[RunName(plan)] = Seed(plan)
  /\ Goto("seedEvent")
  /\ UNCHANGED <<creation, runs, events, lineage, amending, branching>>

(* _create_target.                                                         *)
CreateTarget(plan) ==
  \/ StageRun(plan)
  \/ PublishRun(plan, "seedEvent")
  \/ ReuseTarget(plan)

SeededEvent(plan) == [kind |-> "seeded", plan |-> plan]
BranchedEvent(plan) == [kind |-> "branched", plan |-> plan]

(* _append_event_once.                                                     *)
LogOnce(run, event) ==
  events' = IF Logged(run, event) THEN events ELSE [events EXCEPT ![run] = Append(@, event)]

LogSeeded(plan) ==
  /\ At("seedEvent") /\ req.by = plan
  /\ LogOnce(RunName(plan), SeededEvent(plan))
  /\ Goto("appendRun")
  /\ UNCHANGED <<creation, runs, lineage, amending, branching>>

(* Phase32ProjectCatalogStore.append_run.                                  *)
AppendRun(plan) ==
  LET source == plan.amendment.run
      target == RunName(plan)
  IN  /\ At("appendRun") /\ req.by = plan
      /\ IF target \in ToSet(lineage)
           THEN Edge(source, target) /\ lineage' = lineage
           ELSE Last(lineage) = source /\ lineage' = Append(lineage, target)
      /\ Goto("sourceEvent")
      /\ UNCHANGED <<creation, runs, events, amending, branching>>

LogBranched(plan) ==
  /\ At("sourceEvent") /\ req.by = plan
  /\ LogOnce(plan.amendment.run, BranchedEvent(plan))
  /\ Goto("completeBranch")
  /\ UNCHANGED <<creation, runs, lineage, amending, branching>>

CompleteBranch(plan) ==
  /\ At("completeBranch") /\ req.by = plan
  /\ plan.amendment \in DOMAIN branchPlans /\ branchPlans[plan.amendment] = plan
  /\ resolved' = Put(resolved, plan.amendment, plan)
  /\ End
  /\ UNCHANGED <<creation, runs, events, lineage, amending, branchPlans, branchKeys, copied>>

-----------------------------------------------------------------------------
(* What the Run's executions do to it (RunExecution has how): commit stage *)
(* after stage, fail, and be recovered.  An amended Run is never stepped.  *)
(* Steps write on the event loop, so never inside a request above.         *)
Step(run, from, record) ==
  /\ At("idle")
  /\ runs[run].status = from
  /\ runs' = [runs EXCEPT ![run] = record]
  /\ UNCHANGED <<creation, events, lineage, amending, branching, req>>

StartRun(run) == Step(run, "created", [runs[run] EXCEPT !.status = "open"])
FailRun(run) == Step(run, "open", [runs[run] EXCEPT !.status = "failed"])
RecoverRun(run) == Step(run, "failed", [runs[run] EXCEPT !.status = "open"])

CommitStage(run) ==
  LET stage == runs[run].frontier
  IN  Step(run, "open",
           [runs[run] EXCEPT !.refs[stage] = Original,
                             !.frontier = stage + 1,
                             !.revision = @ + 1,
                             !.status = IF stage = NumStages THEN "completed" ELSE "open"])

Requests ==
  \/ \E c \in Creates : PostProject(c)
  \/ \E id \in DOMAIN amendments :
       \/ \E scope \in Scopes : PostApply(id, scope)
       \/ \E key \in Keys : PostBranch(id, key)

Creation ==
  \E c \in Creates :
    \/ Reserve(c)
    \/ RecoverReserved(c)
    \/ CreateOrReuseDefinition(c)
    \/ MarkPrepared(c)
    \/ ReadPreparation(c)
    \/ Register(c)

Amending ==
  \/ \E run \in DOMAIN runs, stage \in PlanningStages, payload \in Payloads :
       CreateAmendment(run, stage, payload)
  \/ ProjectApply
  \/ RecoverReceipt
  \/ CompleteApply

Branching ==
  \/ \E time \in Times : BuildPlan(time)
  \/ ResumePlan
  \/ BeginBranch
  \/ PointBranch
  \/ \E id \in DOMAIN branchPlans :
       LET plan == branchPlans[id]
       IN  \/ CopyArtifacts(plan)
           \/ CreateTarget(plan)
           \/ LogSeeded(plan)
           \/ AppendRun(plan)
           \/ LogBranched(plan)
           \/ CompleteBranch(plan)

Execution ==
  \E run \in DOMAIN runs : StartRun(run) \/ CommitStage(run) \/ FailRun(run) \/ RecoverRun(run)

Next == Requests \/ GiveUp \/ Creation \/ Amending \/ Branching \/ Execution

Spec == Init /\ [][Next]_vars

-----------------------------------------------------------------------------
(* Every file refers to files that were written before it.                 *)
TypeOK ==
  /\ \A c \in Creates :
       /\ preparations[c].status \in {"none", "reserved", "prepared"}
       /\ preparations[c].status = "prepared" => preparations[c].definition \in Creates
  /\ \A run \in DOMAIN runs :
       /\ RunName(runs[run].by) = run
       /\ runs[run].status \in {"created", "open", "failed", "completed", "needs_action"}
       /\ runs[run].frontier \in 1 .. NumStages + 1
       /\ runs[run].refs \in [Stages -> Versions]
       /\ runs[run].amendment \in DOMAIN amendments \cup {None}
  /\ DOMAIN events = DOMAIN runs /\ ToSet(lineage) \subseteq DOMAIN runs
  /\ \A id \in DOMAIN amendments : id.run \in DOMAIN runs
  /\ DOMAIN receipts \subseteq DOMAIN amendments
  /\ DOMAIN branchPlans \subseteq DOMAIN receipts
  /\ \A key \in DOMAIN branchKeys : branchKeys[key] \in Range(branchPlans)
  /\ \A id \in DOMAIN resolved : resolved[id] = branchPlans[id]

(* What a completed branch receipt promises still holds of the files it    *)
(* names, and the successor was seeded with the amended version.           *)
ReceiptsAreBacked ==
  \A id \in DOMAIN resolved :
    LET plan == resolved[id]
        target == RunName(plan)
    IN  /\ Edge(id.run, target)
        /\ Exists(target) /\ runs[target].by = plan
        /\ target \in copied
        /\ Logged(target, SeededEvent(plan)) /\ Logged(id.run, BranchedEvent(plan))
        /\ plan.inherited[id.stage] = id.payload

(* Nothing that was built on the old version passes for current: whatever  *)
(* the Run had committed after the amended stage is stale, and the branch  *)
(* starts no later than there.                                             *)
StaleCoversMaterial ==
  \A run \in DOMAIN runs :
    LET id == runs[run].amendment
    IN  id # None =>
          /\ Material(run, id.stage) \subseteq runs[run].stale
          /\ \A k \in Stages : k \in runs[run].stale => k > id.stage

(* A branch whose edge is in the line can be taken up again and completed: *)
(* the Run it finds under its target's id is acceptable to it.             *)
ReplayRecovers ==
  \A id \in DOMAIN branchPlans :
    LET plan == branchPlans[id]
    IN  Creating(plan) /\ Edge(id.run, RunName(plan)) => runs[RunName(plan)] = Seed(plan)

Succession == INSTANCE Succession WITH
  born <- DOMAIN runs,
  amended <- {run \in DOMAIN runs : runs[run].amendment # None},
  resolved <- {id.run : id \in DOMAIN resolved}

(* One line of Runs, whatever dies between two files and whichever keys    *)
(* the requests are sent again with.                                       *)
ImplementsSuccession == Succession!Spec
=============================================================================
