# Formal models of Yotsuba Ink

TLA+ models of the phase 32 backend (`src/src/novel_workflow`): what TLC checks of
them on small instances, and what TLAPS proves of them for every instance. All source
paths below are relative to `src/src/novel_workflow/` unless they begin with `src/docs`
or `src/tests`.

Yotsuba Ink lets an author produce a book on a fixed *route* of stages. A *Run* works
through the stages: each asks a Provider (a language model) for a candidate, lets the
author decide on it where the review policy says so, commits it, and writes the facts of
accepted prose into the Canon and the Wiki. Everything that costs money or that the
author decided has a durable receipt, so that a Run can be continued after any crash.
What can go wrong is therefore seldom in one function; it is in the order of file writes,
in two requests on one file, in a lease that ran out, and in a replay of what was done.

## 1. Inventory

| Component | State it keeps | Operations | Works with |
| --- | --- | --- | --- |
| Provider operation receipts (`storage/phase32_provider_operation_store.py`, `..._attempt_ledger.py`) | one receipt per operation key: status, lease, transport attempts, attempt ledger, raw payload, verdict | `begin`, `claim_pending`, `release_pending`, `record_return`, `succeed`, `reject_contract` | called by the driver, writeback, collaboration, covers; read by the budget |
| Route driver (`runtime/graph/phase32_driver.py`, `storage/phase32_artifact_store.py`) | candidates in the artifact store | `generate_stage`, `commit_stage`, `validate_stage` | receipts, gateway, budget |
| Author collaboration (`runtime/graph/phase32_collaboration_execution.py`, `orchestration/phase32_author_collaboration.py`, `storage/phase32_collaboration_store.py`) | threads, turns, messages, patch candidates | create, execute and cancel a turn; accept, reject a patch; archive and delete a thread | receipts (without fences), HTTP routes on the event loop and in worker threads |
| Run repository (`storage/phase32_run_repository.py`, `storage/phase32_graph_event_sink.py`) | `state.json`, `read_model.json`, `events.jsonl`, a projection journal | `read`, `commit_projection`, `commit_projection_with_event`, `append_event`, journal recovery | everybody |
| Execution service (`orchestration/phase32_execution_service.py`, `phase32_graph_execution.py`, `phase32_failure_projection.py`) | decision receipts, execution lock | `start`, `resume`, `recover`; a graph step; projection of failures | repository, route graph |
| Contract repair (`orchestration/phase32_contract_repair.py`, `phase32_contract_repair_execution.py`) | quarantined returns, repair receipts | `repair`: a text of the author's in place of a return that broke its contract | execution service, driver |
| Drafts (`storage/phase32_artifact_draft_store.py`) | edited candidates | save; an accept that names a draft | execution service |
| Route graph (`runtime/graph/route_graph.py`, `route_run_state.py`) | LangGraph checkpoint | nodes `stage_started`, `generate_candidate`, `review_decision`, `commit_candidate`, `stage_finished` | driver, writeback |
| Formal writeback (`orchestration/phase32_writeback.py`, `storage/phase32_writeback_outbox.py`, `memory/phase32_canon_store.py`, `memory/phase32_wiki_projection.py`) | outbox receipt, Evidence, Canon, Wiki | `commit` (propose, bind, attach, flush), `cancel`, recovery rounds | commit node, receipts |
| Run budget (`usage/phase32_run_budget.py`, `storage/phase32_run_budget_store.py`) | authorization and admissions of a Run | `admit` | receipts, driver |
| Creation and projects (`orchestration/phase32_creation_service.py`, `phase32_project_service.py`, `storage/phase32_creation_preparation_store.py`, `phase32_project_catalog_store.py`) | preparations, staged Runs, a project's line of Runs | reserve, recover, publish, register, append | repository |
| Amendments and branches (`orchestration/phase32_artifact_amendment.py`, `phase32_amendment_branch.py`) | amendments with their impact, apply receipts, branch plans and receipts, successor Runs | propose, apply, branch | repository, projects |
| Covers, readiness, quality, export, references, front end, the legacy runtime | see `PROJECT.json` | | not modelled, section 7 |

What makes each correct, and what is hard about it:

* **Receipts**: a bounded number of Provider calls, one recorded answer, one verdict. Hard:
  leases last two or three minutes and a call up to half an hour
  (`providers/phase32_contract.py:35`), so callers overlap by design; a killed caller
  leaves its lease; the validator refuses a ledger that closes an attempt under another
  owner, for ever.
* **Collaboration**: a completed turn has its whole result, and the author sees one answer.
  Hard: four files per answer, no attempt fence, cancel and decisions in other threads.
* **Repository**: both projections and the event change together, events exactly once.
  Hard: a crash between any two of five writes, whoever comes next finishes the journal.
* **Execution and route graph**: only the author decides, nothing committed is lost, redrafts are
  bounded. Hard: receipt, checkpoint and record are written one after the other, and
  LangGraph matches resume values to interrupts by order.
* **Contract repair**: what broke a contract is never committed as it was, and a repair gives no
  redraft back. Hard: a record written by two failure paths, and a graph that starts again.
* **Creation, amendments, branches**: a project's Runs form one line, an acknowledged branch has all its
  files, nothing built on an amended version passes for current. Hard: a dozen files in a row,
  requests sent again under the same or another key, a Run that went on since the proposal.
* **Writeback**: one set of facts reaches the Canon once, the Wiki shows just that. Hard:
  nine writes in a row and a node replayed from its first line with every decision.
* **Budget**: what was authorized is never exceeded. Hard: receipts are added up
  file by file while their callers claim, return and expire.

`PROJECT.json` lists 40 hazards at their lines with the properties that cover them.
Those without a property say why.

## 2. Modules

A module that names an abstract specification states it as `INSTANCE ... WITH` and checks it.

| Module | Models | Implements |
| --- | --- | --- |
| `ProviderReceipt` | the receipt as a value and each store method as a predicate (its branch) and the receipt it writes; a method holds the operation's lock, so it is one step of its caller | |
| `ProviderCall` | abstract: one bounded call with one immutable answer and verdict | |
| `ProviderOperation` | `generate_stage` run by any number of invocations of one key, which race, are killed anywhere and lose their leases | `ProviderCall` |
| `Collaboration` | one revise turn: POSTs on the event loop (one moves at a time, others only while it awaits the Provider), cancel, delete, patch decisions, restarts; over `ProviderReceipt`, without fences | `ProviderCall` |
| `RunLog` | abstract: a record and a log that change atomically | |
| `RunRepository` | the Run's files, written one by one, by steps (contract repairs included), amendments, branches and readers, under the guard and the execution lock; the history variable `overtaken` marks the one meeting of an apply and a repair that the code does not keep apart (section 4) | `RunLog` up to that |
| `CreationRoute` | abstract: units committed in order, each granted by the author | |
| `RunExecution` | `start`, `resume`, `recover`, contract repairs, accepts of edited drafts, the route graph node by node, failures, over decision receipts, checkpoint and record | `CreationRoute` |
| `UnitWriteback` | abstract: facts enter the Canon once, the Wiki follows, then the unit is committed | |
| `Writeback` | the commit node's loop, the service, the outbox and the stores it writes, for one unit | `UnitWriteback` |
| `RunBudget` | admissions and fenced claims of several operations of one budgeted Run, over `ProviderReceipt` | |
| `Succession` | abstract: one growing line of Runs, each the only successor of an amended one | |
| `ProjectLineage` | creation, projects, amendments and branches, file write by file write, with requests that die and are sent again | `Succession` |
| `ProviderOperationProofs`, `CollaborationProofs`, `RunRepositoryProofs`, `RunRepositorySerialProofs`, `RunExecutionProofs`, `WritebackProofs`, `RunBudgetProofs`, `ProjectLineageProofs` | theorems, section 5 | |
| `MC*` | instances for TLC: symmetry, routes, reservations | |

How state corresponds to code (the full list is `map` in `PROJECT.json`):

* A **file** is a variable; a method that holds the file's lock throughout is one action; where the
  code lets go of a lock or writes a second file there is a second action, with a crash possible
  in between.
* The **clock** is whether the lease still runs (`live`), with an action that ends it.
* **Payloads** are model values, split by whether they satisfy the contract. An operation
  key, its candidate and the decision on it determine each other, so `RunExecution` has
  one value (a draft) for the three; `ProviderOperation` shows why that is sound.
* **LangGraph** is external. `RunExecution` takes from how the code uses it: a checkpoint is
  written when a node ends or interrupts; a node that raises is left where it was; the
  interrupt of a stage stays listed until the stage's task ends; a plain resume value goes to
  the next interrupt and may or may not outlive a step of the parent graph; input other than a
  command starts the graph again at the record's stage.
* `Mutant:` comments mark definitions no specification uses. Each is a way the definition after it
  could be wrong, and shows that a property notices.

### What each module leaves out

* `ProviderReceipt`: the identity checks (all callers of a key send the same frozen request) and pricing.
* `Collaboration`: discuss and plan turns (the same code, no patch), archiving, the stream's
  event index, context compilation.
* `RunRepository`: `create` (in `ProjectLineage`), staging files (every entry clears them first), what an amendment computes.
* `RunExecution`: the deferred image stage, receipts of repeated recovery
  ids (they never step the graph), failures in `stage_started` and `stage_finished`,
  the commit of `_reconcile_terminal_regeneration` (in `RunRepository` only), a failure for which the graph
  names no next node (`_failure_frontier` gives none), the rules on the fields of an edit or a repair (one that breaks them
  is refused), the writeback inside the commit node (a module
  of its own), and a record write that fails while the failure projection after it succeeds.
* `ProjectLineage`: incomplete staging directories (they are cleared), pointers that only answer a replay with what
  is stored, the bookshelf's order, what an execution does inside a Run beyond its commits, and the repair
  that is committed over an amendment (section 4).
* `Writeback`: disk errors on some of its writes (a process may die at each of them, which leaves the same files); admission of the call; `reconcile`, which nothing calls; a fresh start of the stage
  after an error has left the node (`RunExecution`).
* `RunBudget`: cost in USD (added up as tokens are), the immutable authorization, mismatches of
  definitions, Runs without a budget. A reservation is an upper bound of an attempt's cost.

## 3. Runs

No run uses fairness but `provider_operation`. Deadlock is not checked in any of them, since
each system ends: every request is answered, a Run completes.

| Run | Instance | Shows |
| --- | --- | --- |
| `provider_operation` | 4 invocations, 3 attempts, a good and a bad payload | receipts stay readable, calls are counted, one in flight unless a lease ran out, one return, one verdict; implements `ProviderCall`; everybody is answered |
| `collaboration` | 3 POSTs, 2 attempts, 2 valid payloads and a bad one, 1 restart | a completed turn has its result, one answer is seen, the thread's flag is right unless a process died; implements `ProviderCall` |
| `run_repository` | 2 steps, 2 applies, a branch, a reader, 1 graph event, torn appends, crashes and disk errors at every write | no reader sees half a commit, and, unless an amendment is written over a repair that steps a failed Run: a journal can be finished, an amendment stays, events once; implements `RunLog` |
| `run_execution` | route brief, plan, text, text; brief and text decided, one redraft for text; 2 directions, an edit, a repair; 2 faults | only the author decides, the checkpoint leads, the pending decision is current, drafts are bounded, a repair gives no redraft back, nothing that broke its contract is committed unrepaired; implements `CreationRoute` |
| `writeback` | malformed, unbindable and 2 good payloads, 2 calls, 2 recovery rounds, 2 faults | every round was granted, what is queued was proposed and stored, attached facts are final; implements `UnitWriteback` |
| `run_budget` | 4 invocations, 3 operations of which 2 are allowed, 2 attempts, reserve 2, limit 6 tokens | charges stay in the budget, every call has its own admission, the books never contradict themselves |
| `project_lineage` | a root, 2 successors, 3 stages, 2 amendments, 2 branch keys, 2 clock readings | files refer to files, acknowledged branches have theirs, stale marks cover what was built on the old version; implements `Succession` |
| `collaboration_cancel`, `collaboration_receipt`, `run_execution_retry`, `run_execution_redraft`, `project_lineage_replay` | the smallest instance that shows it | a statement of a doc, comment or test that the code does not keep, section 4 |

**Why the bounds are enough.** Two invocations are enough to race, the third is the one that takes over
from the second while the first is still out, which is what breaks unfenced returns; a fourth
meets the limit of three attempts, before which two leases may run out. Four callers on three operations let two
operations be paid while the third is refused and one of the paid ones is claimed twice. The
budget limit lies between two operations with an attempt each (4) and two that used both attempts (8),
so that both grant and denial depend on what was read. Two steps, two applies and a branch
give every pair of writers, and a third to finish their journal. The route has each kind of stage (decided,
automatic, sequential) and a unit after a unit of the same stage; a redraft limit of one and two directions give
every way a key repeats. Two recovery rounds make the replay of an earlier decision
observable. One edit and one repair text suffice, since a candidate remembers each of them and a second
would behave alike (only the bound of `DraftsAreBounded` counts repairs, and it is proved for any number of them); two faults let a recovery or a repair itself be interrupted. In `project_lineage` two successors
give a Run that is both a target and a source, two keys and two clock readings let two plans for one
amendment differ, and three stages are one amended, one committed since, and one not reached. Faults are bounded because a fault can always be repeated: `MaxFaults`,
`MaxRestarts`, `MaxRounds`, `MaxSuccessors`, `MaxAmendments` and `MaxAttempts`/`MaxCalls` are the only cut-offs; the last two are limits of the code.

**Fairness** (`ProviderOperation!FairSpec`). An invocation that is not killed goes on (`WF(Advance(c))`):
its steps are straight-line code and the gateway call has a transport timeout, so it ends
one way or the other. Time passes (`WF(ExpireLease)`). Nothing makes a caller retry an error
other than "already running", and nothing forbids a crash.
`EveryCallerIsAnswered` then says that a lease left by a killed invocation cannot keep the
others out for ever.

**Mutants.** Every property of a passing run has one in `PROJECT.json`: a definition
of the code with a plausible bug, under which TLC finds the property violated.

## 4. Findings

Each is a run that TLC ends with a counterexample, with the full quotation in `PROJECT.json`.

1. `collaboration_cancel`: `cancel_queued_turn` reads the status before the store's lock; the turn can be
   started and dispatched in between and is still recorded as "Cancelled before dispatch".
2. `collaboration_receipt`: the collaboration executor passes no attempt fence. With two expired leases the
   first late answer closes the second caller's attempt under the wrong owner, and the receipt
   never validates again.
3. `run_execution_retry`: a process dies after the graph took a command and before the record was
   written. The client's command, sent again, is bound to the interrupt now listed, which fails
   the Run for good.
4. `run_execution_redraft`: a recovery and a redraft with the same direction have the same operation
   key; the Run then waits for a decision whose receipt is settled.
5. `project_lineage_replay`: a branch that dies after its successor was appended to the line cannot be completed
   once the successor was started, although the document on branch recovery says that it can.

Three more observations have no run of their own.

**The repair of a failed regeneration and an apply.** `apply` takes no execution lock and a commit compares nothing. In one
process that is safe for a step of an open Run, which `apply` refuses, and for a step that first reopens a stopped Run by a commit.
It is not for the repair of a regeneration that failed on its contract: `resume_phase32_contract_repair`
(`phase32_contract_repair_execution.py:107-121`) steps the Run while its record still says `failed`, and while the step awaits
(`phase32_execution_service.py:455-462`) an apply finds a Run at rest and is admitted. Without the condition
`~overtaken` TLC finds, in one process, with the instance of `run_repository`:

* against `AmendmentIsKept` (29 states): a Run is stopped; a repair steps it and is in the graph; an apply goes through and answers; the
  repair's result is committed over the amended record, which is open again. A failure of the repair is projected from the
  record it began with and does the same.
* against `RecoveryNeverBlocked` (24 states): a repair is in a node about to emit its event; an apply writes its journal and ends with a
  disk error; the repair's event takes the sequence number in that journal, and from then on every read of
  the Run tries to finish the journal and is refused. The same steps change the order of the log that `RunLog` promises.

`overtaken` becomes true when an apply is about to write its amendment while such a repair is under way, and stays so.
`RecoveryNeverBlocked`, `AmendmentIsKept` and `ImplementsRunLog` hold as long as it is false; `TypeOK` and `RecordIsPaired` hold always.
So the three say that in one process every harm of these kinds begins with this meeting, and nothing of a Run in which it happened.

**Two servers.** `_run_guard` says of itself "Serialize one Run across threads, repository instances, and processes"
(`storage/phase32_run_repository.py:519`), and it does that for one read or one commit, which is what `RecordIsPaired` needs.
It does not cover the time from a read to the commit that rests on it: with `OneProcess = FALSE` in `RunRepository` a
recovery overwrites `needs_action`, since the lock of `apply` is one of its own process.

**A prompt that cannot be rendered again.** A run of the writeback node that died after the Provider returned a second
contract attempt cannot render that attempt's prompt again, so the paid return is not taken up and the author is asked.

## 5. Proofs

Each component has its theorems in a module of its own (`RunRepository` in two), whose core is `Invariance`, `Spec => []IInv` for an
inductive invariant `IInv`, and the properties that follow from it.

`ProviderOperationProofs` proves for every set of invocations and payloads and every attempt
limit, from the assumptions named in `ProviderReceipt` and `ProviderOperation` (no
caller is the empty owner, no payload is empty, at least one attempt, errors are not payloads):

| Theorem | Property |
| --- | --- |
| `TypeCorrect` | `TypeOK` |
| `ReceiptStaysReadable` | `ReceiptReadable` |
| `CallsStayCharged` | `CallsAreCharged` |
| `SingleFlightHolds` | `SingleFlight` |
| `ReturnStaysClaimants` | `ReturnIsClaimants` |
| `ResultsAlwaysAgree` | `ResultsAgree` |
| `LeaseStaysExclusive` | `LeaseIsExclusive` (an action property) |
| `RefinesProviderCall` | `ImplementsProviderCall` (refinement) |

They rest on `Invariance`, `Spec => []IInv`. None of the properties is inductive alone:
that a late answer is fenced off needs to know that each attempt was claimed by exactly one invocation
(`LedgerInv`), that the lease names the claimer of the one open attempt (`LeaseInv`), what a
status implies about payload, ledger and candidates (`StatusInv`), and what a caller at
each step holds in memory (`CallerInv`). The key lemma is `FencedWriterOwnsHead`: whoever passes
`MayTransition` with its own attempt owns the head of the ledger, which therefore is closed
under the right name. The same invariant gives the refinement, since a call, an answer and a
verdict each happen in one status only. There is a lemma for each action and a
step for each conjunct it can disturb.

`Collaboration` uses the same receipt without fences, and its `ReceiptReadable` fails there: the proofs
say exactly which argument the collaboration executor lacks.

`RunBudgetProofs` proves for every set of invocations and operations, every reservation, attempt limit
and authorized limit, from the assumptions of `ProviderReceipt` and `RunBudget` (a
reservation is at least one token, the limits are naturals):

| Theorem | Property |
| --- | --- |
| `TypeCorrect` | `TypeOK` |
| `EveryCallAdmitted` | `EachCallIsAdmitted` |
| `BooksNeverContradict` | `BooksAgree` |
| `BudgetIsKept` | `BudgetHolds` |

The invariant says that the admissions of an operation are the attempts 1 to k, where k is the number
of claimed attempts or one more (`GrantsInv`); that a receipt that was read is never ahead of the file,
while the flock keeps admissions from passing what was read (`ViewInv`); and that a caller at its
claim still has its admission (`CallerInv`). `AdmitsNext` is the key lemma: what `Desired` computes
from receipts that may be outdated is an admitted attempt, or exactly the next one.
A step that counts no attempt and admits none preserves the invariant by one lemma (`QuietIInv`).

`BudgetIsKept` is about sums, so it assumes that the operations are finitely many. `Bound(o)` is what an operation can
still cost: what it did cost once it has returned and claims no more, a reservation for every attempt admitted before.
`SpendInv` says that the bounds add up to no more than the limit, `UsedInv` that an admission has every operation
with a grant in its list and may trust a return it has read. The hard step is the admission (`AdmitSpendInv`): the
receipts it adds up were read one after the other while callers claimed and returned, and still what it counts for an
operation is no less than that operation's bound (`CountedCoversBounds`). Every other step leaves the bounds or lowers them.
The library's induction theorems take a predicate as parameter, which the provers here cannot instantiate. `SubsetInduction`
is the first-order form, for a set of subsets, proved from a minimal counterexample
(`FS_StrictSubsetOrderingWellFounded`, `WFMin`); with it a sum of naturals is the size of a disjoint
union (`SumIsSize`), from which its other laws follow.

`CollaborationProofs` proves for every set of POSTs and payloads, every attempt limit and every number of restarts:

| Theorem | Property |
| --- | --- |
| `TypeCorrect` | `TypeOK` |
| `CompletedKeepsResult` | `CompletedHasResult` |
| `AnswerStaysRecorded` | `AnswerIsRecorded` |
| `FlagStaysTrue` | `FlagCoversPatch` |
| `RefinesProviderCall` | `ImplementsProviderCall` (refinement) |

The ledger plays no part in it, since without fences it may become malformed. What carries the proof is that
the event loop lets one POST move at a time (`LoopInv`), so that what a POST read of the receipt before its first
await is still true when it writes (`PostInv`), and that a receipt only succeeds with the message and the patch
on disk (`ReceiptInv`). A cancel may come at any point; `CompletedHasResult` is about the statuses it cannot reach.

`RunRepositoryProofs` proves for every set of steppers, applies, branches and readers, with and without torn appends, and for
several processes as for one:

| Theorem | Property |
| --- | --- |
| `RecordStaysPaired` | `RecordIsPaired` |
| `TypeCorrect` | `TypeOK` |

The invariant says that the guard has one holder (`GuardInv`) and what that holder has written of its journal at each point
(`PairInv`), so only the guard is needed, not the execution lock. The type invariant rests on what each request may
be about at each point and may want to write (`ContentInv`). Its bound on the length of the log is a count: every event of the log has a place of its
own among finitely many (`PlacesInv`), and a failure's place is taken as soon as its journal is written.

`RunRepositorySerialProofs` proves the rest for one server process (each theorem has `OneProcess` as its
hypothesis, since the properties fail with two, see section 4), for every set of requests, with crashes and torn appends. The properties are
about Runs no amendment was written over a repair's step of (`overtaken`, section 4):

| Theorem | Property |
| --- | --- |
| `RecoveryIsNeverBlocked` | `RecoveryNeverBlocked` |
| `AmendmentsAreKept` | `AmendmentIsKept` |
| `RunLogIsImplemented` | `ImplementsRunLog` (refinement) |

The services' locks let one writer be away from rest at a time (`TurnInv`). What it wants to write, and what the files
hold at each of its writes, is then settled by what that request is about (`ContentInv`, `FilesInv`). A request at rest keeps its part, because most
steps of another leave the Run's record as it is (`Steady`, `StandBy`), and those that write a journal happen
only when everybody else is at rest (`CommitterIsAlone`) and no amendment meets a repair. `JournalInv` is what a crash leaves to whoever comes next: the event of a journal
is logged already, or is the next one, or its line is torn; and an amendment that was logged is what the record says.
The three follow from that. The invariant of `SerialInvariance` has it as `overtaken \/ Undisturbed`: a step that brings an amendment and a repair
together makes `overtaken` true, and every other step keeps `Undisturbed`, so all writers are in the proof.
The proofs assume finitely many steppers and graph events, and that a request has one role.

`RunExecutionProofs` proves for every route, set of decided and editable stages, redraft limit, set of directions,
edits and repairs, and every number of faults:

| Theorem | Property |
| --- | --- |
| `TypeCorrect` | `TypeOK` |
| `AuthorAlwaysDecides` | `OnlyTheAuthorDecides` |
| `CheckpointStaysAhead` | `CheckpointLeads` |
| `PendingStaysCurrent` | `PendingIsCurrent` |
| `CommittedKeepsOrigin` | `CommittedHasOrigin` |
| `RepairsKeepRedrafts` | `RepairKeepsRedrafts` (an action property) |
| `DraftsStayBounded` | `DraftsAreBounded` |
| `RefinesCreationRoute` | `ImplementsRoute` (refinement) |

Its invariant says with what state each node is reached (`NodeInv`), that the candidate of a decision or a
commit is one for the unit the graph is at, and granted where the author decides (`CandidateInv`), the same of
everything committed (`CommittedInv`), how far the record lags behind the checkpoint (`RecordInv`), and what a
step in hand, or a repair in it, may rely on (`JobInv`, `RepairInv`). The last two are what makes repairs
provable: a Run that broke its contract has record and checkpoint at the same unit, so the repair is for the unit
the graph starts again at. `CommittedHasOrigin` and `OnlyTheAuthorDecides` then follow without a word about which of the two
failure paths wrote the record.

`RepairsKeepRedrafts` has a second invariant, `RedraftInv`. A repair may replay a regeneration or start its stage again,
and what it may give back depends on how the Run failed. Three facts exclude the bad combinations. A pending decision the author
has not ended is still before the graph, which has spent as many redrafts as the decision shows (`PendingInv`); a regeneration that failed
for good is counted in the record with the redraft it was (`LostInv`); and a repair that starts its stage again leaves the graph at
least the redrafts of the record (`ResumeInv`).

`DraftsStayBounded` is a count of keys the state does not explain by itself: which redraft of which recovery a key was
is forgotten once the next one begins. First, `CountersInv` bounds the counters: no stage counts more attempts or redrafts
than its limit, and record and checkpoint agree on the attempts except between a recovery and the graph's restart. Then `HistoryInv` says that
two histories *exist* that account for every key: `D`, the direction each unit was generated with under each number of attempts,
and `g`, the key in each *slot*, a slot being the redraft that brings a line of redrafts to some number, a line being headed by the candidate generated with so many attempts
and redrafts, or by a repair. A key is generated as `D` says, or is in a slot. Each step extends the histories: a
recovery has attempts nothing of the unit was generated under, so its direction is new in `D`; a redraft fills the next slot,
and if that slot was filled before, then by the same key, since a decision never has two commands on record. The count follows: an image
of pairs of counters, and an image of the lines times rising pairs, of which there are
`n(n - 1)/2` (proved by bijections with the falling ones). The bound the model first stated counted lines per repair too
tightly; the attempt to prove it showed that a Run with two repairs and four faults exceeds it, and that a second call of
the repair driver within one step (`DraftRejected`), which raises instead of answering, had been left out.

`WritebackProofs` proves for every set of payloads, call limit, number of rounds and of faults:

| Theorem | Property |
| --- | --- |
| `TypeCorrect` | `TypeOK` |
| `RoundsAreGranted` | `EachRoundIsGranted` |
| `QueuedStaysProposed` | `QueuedIsProposed` |
| `AttachedStaysFinal` | `AttachedIsFinal` (an action property) |
| `RefinesUnitWriteback` | `ImplementsUnitWriteback` (refinement) |

Its invariant places the node against the receipt (`PlaceInv`), allows one pending operation at a time (`OpsInv`),
keeps Canon and Wiki within the attached facts (`FactsInv`), and keeps the loop of replayed decisions
behind the rounds that were applied (`DecisionInv`).

`ProjectLineageProofs` proves for any number of stages, creation keys, payloads, branch keys and successors:

| Theorem | Property |
| --- | --- |
| `StaleKeepsCovering` | `StaleCoversMaterial` |
| `TypeCorrect` | `TypeOK` |
| `ReceiptsStayBacked` | `ReceiptsAreBacked` |
| `RefinesSuccession` | `ImplementsSuccession` (refinement) |

The first needs an invariant of its own. An amendment is proposed at one time and applied at another, after the
Run may have been recovered and gone on. As long as the Run is at the revision an amendment names, the amendment's
impact is what the Run has committed below the amended stage (`ImpactInv`): a commit makes a new revision, so an
outdated amendment is refused and a current one has the right impact. That an amended Run is at rest for good
(`AmendedInv`) keeps it so.

The others rest on `LineInv`: what every record, file and plan says of the ones it came from (`RecordsInv`,
`FilesInv`, `PlansInv`), and which files a request may rely on at each point (`RequestsInv`, `ProgressInv`),
although it may be one of many that died at any point before. What is on disk of a branch stays there (the lemmas
`RunsKept`, `PlansKept`, `LineKept`, `LogKept`), so each point is proved from the one before it. That a Run
has one successor follows from its record naming the one amendment ever applied to it and that amendment having the one
plan ever stored for it: two successors of a Run came from the same plan and have the same name. The proofs assume that
there is a stage, that an amendment is not `None`, and that creation keys are not branch plans.

Only model-checked: liveness (`EveryCallerIsAnswered`), since fairness and `ENABLED` are outside the prover. All the other
properties of the passing runs are theorems. The runs that expect a violation are TLC's alone.

## 6. Plan

Done: receipts and driver, collaboration, repository, execution with edits and contract repair, writeback, budget,
creation, amendments and branches, each with proofs.

Left, in this order:

1. *Covers*: image operations beside the stage's own; the deferred image stage.
2. *Composition* of `RunExecution` with transport attempts, for what a Run can still do once an operation is
   exhausted, with its liveness.
3. *Proofs* of the modules above; of `RunLog` under several processes for Runs that are never amended; and of what
   the abstract specifications promise a reader (that a line of Runs has no two ends, that a route ends once).
4. *Scale arithmetic* of the route compiler, as operators checked against a reference definition.

## 7. Not modelled

* Covers: planned above. Their receipts have the shape of the collaboration's (no fence).
* Readiness probes, preflights, release evidence, quality review, delivery renderers, export: sequential
  checks and reports that keep one file each or none.
* Route compiler, scale and review policy: they produce the frozen route, a constant here.
* Output contracts, narrative contracts, context and prompt compilers: more than half of the source by lines. They are
  pure functions from records and text to text, or to a verdict on it, without a state of their own; the
  models have the verdict as a choice. Together with the earlier runtime and the front end they are why the lines
  that the models stand for are a small share of the repository.
* Provider adapters, references, knowledge: HTTP, parsing and text selection. What matters
  of them is that a call answers, fails, or never comes back.
* The phase 26/27 runtime (`runtime/graph/stage_executor.py` and what it uses): `api/bootstrap.py:132` still constructs
  it, but no route calls it.
* Story Bible, history and event projections: computed from the record on each read.
* HTTP framing, event stream, front end: any request may come at any time in the models.

## 8. Running it

    tlc -workers 2 -config RunExecution.cfg MCRunExecution
    tlapm RunExecutionProofs.tla

Every run ends within four minutes on two workers; the proofs take up to five minutes a module.
