----------------------------- MODULE RunRepository -----------------------------
(***************************************************************************)
(* One Run on disk and everybody who writes it.  The repository keeps the  *)
(* Run's state.json, read_model.json and events.jsonl; a commit first      *)
(* writes both projections and the event into a journal, then replaces the *)
(* two files, appends the event and removes the journal, and every read    *)
(* first finishes a journal it finds.  All of that holds the per-Run guard *)
(* (an RLock and an flock), which a dying process lets go.                 *)
(*                                                                         *)
(* The writers: executor steps (start, resume, recover, contract repairs), *)
(* one at a time under the Run's execution lock; amendment applies;        *)
(* amendment branches.  Readers are the monitoring requests.  Each member  *)
(* of these sets is one request.  Staging files, which every commit and    *)
(* read clears before anything else, are left out.                         *)
(*                                                                         *)
(* A contract repair of a failed regeneration is the one step that leaves  *)
(* the Run stopped on disk while it runs, where an apply takes it for a    *)
(* Run at rest.  The history variable overtaken records that this met: the *)
(* properties that rest on it not having happened say so.                  *)
(***************************************************************************)
EXTENDS Naturals, Sequences, FiniteSets

CONSTANTS
  Steppers, Applies, Branches, Readers,
  Nothing,      \* no holder, journal, event or author
  GraphEvents,  \* numbers of the events the graph's nodes emit
  OneProcess,   \* all requests run in one server process
  TornAppends   \* a dying append may leave half a line

Ops == Steppers \cup Applies \cup Branches \cup Readers

ASSUME OpsAssumption ==
  /\ Nothing \notin Ops
  /\ Steppers \cap (Applies \cup Branches \cup Readers) = {}
  /\ Applies \cap (Branches \cup Readers) = {} /\ Branches \cap Readers = {}
ASSUME SteppersAssumption == IsFiniteSet(Steppers)
ASSUME GraphEventsAssumption == GraphEvents \subseteq Nat /\ IsFiniteSet(GraphEvents)
ASSUME ModesAssumption == OneProcess \in BOOLEAN /\ TornAppends \in BOOLEAN

VARIABLES
  state,       \* state.json
  readModel,   \* read_model.json
  journal,     \* projection.journal.json
  events,      \* events.jsonl
  torn,        \* events.jsonl ends in half a line
  guard,       \* who holds _run_guard
  execution,   \* who holds the execution lock
  req,         \* each request: where it is and its local variables
  overtaken    \* history: an amendment was written over a repair's step

log == <<events, torn>>
locks == <<guard, execution>>
projections == <<state, readModel, journal>>
vars == <<projections, log, locks, req, overtaken>>

(* "open": created, running or awaiting a decision; "stopped": completed   *)
(* or failed; "needs_action": amended, with stale stages.                  *)
RunStatuses == {"open", "stopped", "needs_action"}
Projections == [status : RunStatuses, author : Ops \cup {Nothing}]
InitialProjection == [status |-> "open", author |-> Nothing]

(* Event ids: a graph event is identified by what it says.                 *)
Event(kind, n) == [kind |-> kind, n |-> n]
Amended == Event("amended", 0)
Branched == Event("branched", 0)
MaxSequence == Cardinality(GraphEvents) + Cardinality(Steppers) + 3
Events ==
  {Event("graph", g) : g \in GraphEvents} \cup {Amended, Branched}
    \cup {Event("failure", n) : n \in 1 .. MaxSequence}

(* A draft, or the journal: the projection, the event and its sequence.    *)
Entry(projection, event, sequence) ==
  [projection |-> projection, event |-> event, sequence |-> sequence]
Entries == [projection : Projections, event : Events \cup {Nothing}, sequence : 0 .. MaxSequence]
NoEntry == Entry(InitialProjection, Nothing, 0)

(* Whatever is written, a missing event or journal is not mistaken for it. *)
LogEvents == [kind : {"graph", "amended", "branched", "failure"}, n : Nat]
ASSUME NothingAssumption ==
  /\ Nothing \notin LogEvents
  /\ Nothing \notin [projection : Projections, event : LogEvents \cup {Nothing}, sequence : Nat]

(* Where a request is, why it reads or commits, the status of the record   *)
(* it goes by ("current"), and what it wants to write.                     *)
Purposes == {"none", "start", "recovery", "recovered", "step", "result", "failure",
             "reconcile", "apply", "amend", "branch", "look"}
Commits == {"recovery", "result", "failure", "reconcile", "amend"}
Ended == {"done", "applied"}
Restoring == {"restoreState", "restoreReadModel", "restoreEvent", "restoreEnd"}
Committing == {"journal", "replaceState", "replaceReadModel", "appendEvent", "unlink"}
Points == {"idle", "read", "decide", "working", "emit", "failing"}
            \cup Ended \cup Restoring \cup Committing
Requests == [at : Points, purpose : Purposes, basis : RunStatuses, draft : Entries]
AtPoint(point) == [at |-> point, purpose |-> "none", basis |-> "open", draft |-> NoEntry]

Logged(e) == \E i \in DOMAIN events : events[i] = e
NextSequence == Len(events) + 1

(* An event is in the log where it says it is, or is the next one.         *)
Placed(e, sequence) == sequence \in DOMAIN events /\ events[sequence] = e
Fresh(e, sequence) == e # Nothing /\ ~Logged(e) /\ sequence = NextSequence

TypeOK ==
  /\ state \in Projections
  /\ readModel \in Projections
  /\ journal \in Entries \cup {Nothing}
  /\ events \in Seq(Events)
  /\ torn \in BOOLEAN
  /\ guard \in Ops \cup {Nothing}
  /\ execution \in Steppers \cup {Nothing}
  /\ req \in [Ops -> Requests]
  /\ overtaken \in BOOLEAN

Init ==
  /\ state = InitialProjection
  /\ readModel = InitialProjection
  /\ journal = Nothing
  /\ events = <<>>
  /\ torn = FALSE
  /\ guard = Nothing
  /\ execution = Nothing
  /\ req = [o \in Ops |-> AtPoint("idle")]
  /\ overtaken = FALSE

At(o, point) == req[o].at = point
CanEnter(o) == guard \in {Nothing, o}

Goto(o, point) == req' = [req EXCEPT ![o].at = point]
Read(o, why) == req' = [req EXCEPT ![o].at = "read", ![o].purpose = why]
ReadToCommit(o, why, entry) ==
  req' = [req EXCEPT ![o].at = "read", ![o].purpose = why, ![o].draft = entry]

(* A request ends; its locks and local variables go with it.               *)
End(o, point) ==
  /\ req' = [req EXCEPT ![o] = AtPoint(point)]
  /\ guard' = IF guard = o THEN Nothing ELSE guard
  /\ execution' = IF execution = o THEN Nothing ELSE execution

(* Mutant: a failure to project a failure is projected again.              *)
RaiseAgain(o) ==
  \/ /\ req[o].purpose \in {"step", "result", "failure"}
     /\ Goto(o, "failing")
     /\ guard' = IF guard = o THEN Nothing ELSE guard
     /\ UNCHANGED execution
  \/ /\ req[o].purpose \notin {"step", "result", "failure"}
     /\ End(o, "done")

(* An exception: inside a step it is projected as a failure of the Run,    *)
(* elsewhere it ends the request.                                          *)
Raise(o) ==
  \/ /\ req[o].purpose \in {"step", "result"}
     /\ Goto(o, "failing")
     /\ guard' = IF guard = o THEN Nothing ELSE guard
     /\ UNCHANGED execution
  \/ /\ req[o].purpose \notin {"step", "result"}
     /\ End(o, "done")

-----------------------------------------------------------------------------
(* A step waits for the execution lock; the other requests take none.      *)
Start(o) ==
  /\ o \in Steppers /\ At(o, "idle")
  /\ execution = Nothing
  /\ execution' = o
  /\ Read(o, "start")
  /\ UNCHANGED <<projections, log, guard>>

(* An apply whose amendment has its receipt answers with that.             *)
Receipted == \E a \in Applies : At(a, "applied")

Request(o) ==
  /\ At(o, "idle")
  /\ \/ o \in Applies /\ ~Receipted /\ Read(o, "apply") /\ UNCHANGED locks
     \/ o \in Applies /\ Receipted /\ End(o, "applied")
     \/ o \in Branches /\ Read(o, "branch") /\ UNCHANGED locks
     \/ o \in Readers /\ Read(o, "look") /\ UNCHANGED locks
  /\ UNCHANGED <<projections, log>>

(* What follows a read of the files.  A commit keeps the guard; the record *)
(* a recovery committed is what its step goes by; the graph execution's    *)
(* own read serves its preflight, which refuses a Run with stale stages.   *)
AfterRead(o) ==
  LET why == req[o].purpose
  IN  \/ /\ why \in Commits
         /\ guard' = o
         /\ Goto(o, "journal") /\ UNCHANGED execution
      \/ /\ why \in {"start", "apply", "branch"}
         /\ guard' = Nothing
         /\ req' = [req EXCEPT ![o].at = "decide", ![o].basis = state.status]
         /\ UNCHANGED execution
      \/ /\ why = "recovered"
         /\ guard' = Nothing
         /\ req' = [req EXCEPT ![o].purpose = "step", ![o].basis = state.status]
         /\ UNCHANGED execution
      \/ /\ why = "step"
         /\ guard' = Nothing
         /\ Goto(o, IF state.status = "needs_action" THEN "failing" ELSE "working")
         /\ UNCHANGED execution
      \/ /\ why = "look"
         /\ End(o, "done")

(* Mutant: a read that does not look for a journal.                        *)
ReadFilesAnyway(o) ==
  /\ At(o, "read") /\ CanEnter(o)
  /\ AfterRead(o)
  /\ UNCHANGED <<projections, log>>

(* read, with no journal to finish.                                        *)
ReadFiles(o) ==
  /\ At(o, "read") /\ CanEnter(o)
  /\ journal = Nothing
  /\ AfterRead(o)
  /\ UNCHANGED <<projections, log>>

(* _recover_projection.                                                    *)
Recover(o) ==
  /\ At(o, "read") /\ CanEnter(o)
  /\ journal # Nothing
  /\ guard' = o
  /\ Goto(o, "restoreState")
  /\ UNCHANGED <<projections, log, execution>>

RestoreState(o) ==
  /\ At(o, "restoreState")
  /\ state' = journal.projection
  /\ Goto(o, "restoreReadModel")
  /\ UNCHANGED <<readModel, journal, log, locks>>

RestoreReadModel(o) ==
  /\ At(o, "restoreReadModel")
  /\ readModel' = journal.projection
  /\ Goto(o, "restoreEvent")
  /\ UNCHANGED <<state, journal, log, locks>>

(* Mutant: an event is appended without looking for it.                    *)
AppendAgain(o, e, sequence, after) ==
  /\ events' = IF e = Nothing THEN events ELSE Append(events, e)
  /\ Goto(o, after)
  /\ UNCHANGED locks

(* _append_event_unlocked: an event that is there is left alone; it raises *)
(* when it is there at another sequence, when its sequence is not the next *)
(* one, and when the log cannot be read.                                   *)
AppendOnce(o, e, sequence, after) ==
  \/ /\ e = Nothing \/ (~torn /\ Placed(e, sequence))
     /\ events' = events
     /\ Goto(o, after) /\ UNCHANGED locks
  \/ /\ ~torn /\ Fresh(e, sequence)
     /\ events' = Append(events, e)
     /\ Goto(o, after) /\ UNCHANGED locks
  \/ /\ e # Nothing
     /\ torn \/ ~(Placed(e, sequence) \/ Fresh(e, sequence))
     /\ events' = events
     /\ Raise(o)

RestoreEvent(o) ==
  /\ At(o, "restoreEvent")
  /\ AppendOnce(o, journal.event, journal.sequence, "restoreEnd")
  /\ UNCHANGED <<projections, torn>>

RestoreEnd(o) ==
  /\ At(o, "restoreEnd")
  /\ journal' = Nothing
  /\ Goto(o, "read")
  /\ UNCHANGED <<state, readModel, log, locks>>

-----------------------------------------------------------------------------
(* _commit_projection, with the record read and the guard held.            *)

(* Mutant: the files are replaced without a journal.                       *)
SkipJournal(o) ==
  /\ At(o, "journal")
  /\ Goto(o, "replaceState")
  /\ UNCHANGED <<projections, log, locks>>

WriteJournal(o) ==
  LET entry == req[o].draft
      inOrder == entry.event = Nothing \/ (~torn /\ entry.sequence = NextSequence)
  IN  /\ At(o, "journal")
      /\ \/ inOrder /\ journal' = entry /\ Goto(o, "replaceState") /\ UNCHANGED locks
         \/ ~inOrder /\ journal' = journal /\ Raise(o)
      /\ UNCHANGED <<state, readModel, log>>

ReplaceState(o) ==
  /\ At(o, "replaceState")
  /\ state' = req[o].draft.projection
  /\ Goto(o, "replaceReadModel")
  /\ UNCHANGED <<readModel, journal, log, locks>>

ReplaceReadModel(o) ==
  /\ At(o, "replaceReadModel")
  /\ readModel' = req[o].draft.projection
  /\ Goto(o, "appendEvent")
  /\ UNCHANGED <<state, journal, log, locks>>

AppendEvent(o) ==
  /\ At(o, "appendEvent")
  /\ AppendOnce(o, req[o].draft.event, req[o].draft.sequence, "unlink")
  /\ UNCHANGED <<projections, torn>>

(* A recovery goes on with the record it committed, the others end.        *)
Unlink(o) ==
  /\ At(o, "unlink")
  /\ journal' = Nothing
  /\ \/ /\ req[o].purpose = "recovery"
        /\ guard' = Nothing
        /\ Read(o, "recovered") /\ UNCHANGED execution
     \/ /\ req[o].purpose # "recovery"
        /\ End(o, IF req[o].purpose = "amend" THEN "applied" ELSE "done")
  /\ UNCHANGED <<state, readModel, log>>

-----------------------------------------------------------------------------
(* start, resume, recover and contract repairs: an open Run is stepped, a  *)
(* stopped one is first reopened by a commit, unless it failed in a        *)
(* regeneration: a repair steps that one as it is, and a repeated command  *)
(* only commits that it was consumed.  Whatever its status, a request may  *)
(* be refused or answered with what there is; an amended Run always is.    *)
Admit(o) ==
  /\ At(o, "decide") /\ req[o].purpose = "start"
  /\ \/ /\ req[o].basis \in {"open", "stopped"}
        /\ Read(o, "step") /\ UNCHANGED locks
     \/ /\ req[o].basis = "stopped"
        /\ ReadToCommit(o, "recovery", Entry([status |-> "open", author |-> o], Nothing, 0))
        /\ UNCHANGED locks
     \/ /\ req[o].basis = "stopped"
        /\ ReadToCommit(o, "reconcile", Entry([status |-> "stopped", author |-> o], Nothing, 0))
        /\ UNCHANGED locks
     \/ End(o, "done")
  /\ UNCHANGED <<projections, log>>

(* A node calls the event sink: events(), then (in Emit) append_event.     *)
NextGraphEvent(o, g) ==
  LET entry == Entry(InitialProjection, Event("graph", g), NextSequence)
  IN  /\ At(o, "working") /\ CanEnter(o)
      /\ ~Logged(entry.event)
      /\ \/ torn /\ Raise(o)
         \/ ~torn /\ req' = [req EXCEPT ![o].at = "emit", ![o].draft = entry] /\ UNCHANGED locks
      /\ UNCHANGED <<projections, log>>

(* append_event, by the sink or by _append_event_once.                     *)
Emit(o) ==
  /\ At(o, "emit") /\ CanEnter(o)
  /\ AppendOnce(o, req[o].draft.event, req[o].draft.sequence,
                IF o \in Steppers THEN "working" ELSE "done")
  /\ UNCHANGED <<projections, torn>>

(* The graph stops at a decision, completes the Run, or raises.            *)
GraphEnds(o, status) ==
  /\ At(o, "working")
  /\ ReadToCommit(o, "result", Entry([status |-> status, author |-> o], Nothing, 0))
  /\ UNCHANGED <<projections, log, locks>>

GraphFails(o) ==
  /\ At(o, "working")
  /\ Goto(o, "failing")
  /\ UNCHANGED <<projections, log, locks>>

(* project_phase32_execution_failure: a retryable failure leaves the       *)
(* status that the checkpoint or the step's record has.  A step that went  *)
(* by a stale Run cannot be projected as failed; what is on disk by then   *)
(* is not looked at.                                                       *)
Fail(o, status) ==
  /\ At(o, "failing") /\ CanEnter(o)
  /\ IF torn \/ req[o].basis = "needs_action"
       THEN End(o, "done")
       ELSE /\ ReadToCommit(o, "failure", Entry([status |-> status, author |-> o],
                                               Event("failure", NextSequence), NextSequence))
            /\ UNCHANGED locks
  /\ UNCHANGED <<projections, log>>

-----------------------------------------------------------------------------
(* Mutant: an amendment is applied whatever the Run's status.              *)
ApplyToAnyRun(o) ==
  /\ At(o, "decide") /\ req[o].purpose = "apply" /\ CanEnter(o)
  /\ ~torn /\ ~Logged(Amended)
  /\ ReadToCommit(o, "amend", Entry([status |-> "needs_action", author |-> o],
                                    Amended, NextSequence))
  /\ UNCHANGED <<projections, log, locks>>

(* Phase32ArtifactAmendmentService.apply: a Run that is not at rest is     *)
(* refused, an amendment that is already the active one acknowledged.      *)
Apply(o) ==
  /\ At(o, "decide") /\ req[o].purpose = "apply" /\ CanEnter(o)
  /\ \/ /\ req[o].basis = "stopped" /\ ~torn
        /\ ReadToCommit(o, "amend", Entry([status |-> "needs_action", author |-> o],
                                         Amended, NextSequence))
        /\ UNCHANGED locks
     \/ /\ req[o].basis = "needs_action" /\ ~torn /\ Logged(Amended)
        /\ End(o, "applied")
     \/ /\ \/ req[o].basis = "open"
           \/ req[o].basis = "needs_action" /\ ~Logged(Amended)
           \/ req[o].basis # "open" /\ torn
        /\ End(o, "done")
  /\ UNCHANGED <<projections, log>>

(* Phase32AmendmentBranchService, as far as the source Run is concerned.   *)
Branch(o) ==
  /\ At(o, "decide") /\ req[o].purpose = "branch" /\ CanEnter(o)
  /\ IF req[o].basis = "needs_action" /\ ~torn /\ ~Logged(Branched)
       THEN /\ req' = [req EXCEPT ![o].at = "emit",
                                  ![o].draft = Entry(InitialProjection, Branched, NextSequence)]
            /\ UNCHANGED locks
       ELSE End(o, "done")
  /\ UNCHANGED <<projections, log>>

-----------------------------------------------------------------------------
(* A request is about to write an event's line.                            *)
Appending(o) ==
  /\ CanEnter(o)
  /\ \/ /\ req[o].at \in {"appendEvent", "emit"}
        /\ Fresh(req[o].draft.event, req[o].draft.sequence)
     \/ /\ req[o].at = "restoreEvent"
        /\ Fresh(journal.event, journal.sequence)

Tear(S) == torn' \in {torn, torn \/ (TornAppends /\ \E o \in S : Appending(o))}

(* A write raises OSError.                                                 *)
DiskFails(o) ==
  /\ req[o].at \in Restoring \cup Committing \/ (At(o, "emit") /\ CanEnter(o))
  /\ Tear({o})
  /\ Raise(o)
  /\ UNCHANGED <<projections, events>>

(* A process dies with all its requests and lets its locks go.             *)
Live(o) == ~At(o, "idle") /\ req[o].at \notin Ended

Crash(o) ==
  LET dead == IF OneProcess THEN {d \in Ops : Live(d)} ELSE {o}
  IN  /\ Live(o)
      /\ Tear(dead)
      /\ req' = [d \in Ops |-> IF d \in dead THEN AtPoint("done") ELSE req[d]]
      /\ guard' = IF guard \in dead THEN Nothing ELSE guard
      /\ execution' = IF execution \in dead THEN Nothing ELSE execution
      /\ UNCHANGED <<projections, events>>

(* In one server process everything but the readers runs on the event      *)
(* loop: a request moves only while the others are at an await, or in the  *)
(* worker thread of a synchronous graph node.  Executors await once they   *)
(* step: the checkpointer, the graph, the frontier it failed at; finishing *)
(* a journal they do not.                                                  *)
InNode(o) == o \in Steppers /\ At(o, "emit")
AtRest(o) ==
  \/ ~Live(o)
  \/ req[o].purpose = "step" /\ req[o].at \notin Restoring
  \/ o \in Readers
MayRun(o) == ~OneProcess \/ o \in Readers \/ InNode(o) \/ \A d \in Ops \ {o} : AtRest(d)

Advance(o) ==
  \/ Start(o)
  \/ Request(o)
  \/ ReadFiles(o)
  \/ Recover(o)
  \/ RestoreState(o)
  \/ RestoreReadModel(o)
  \/ RestoreEvent(o)
  \/ RestoreEnd(o)
  \/ WriteJournal(o)
  \/ ReplaceState(o)
  \/ ReplaceReadModel(o)
  \/ AppendEvent(o)
  \/ Unlink(o)
  \/ Admit(o)
  \/ \E g \in GraphEvents : NextGraphEvent(o, g)
  \/ Emit(o)
  \/ \E status \in {"open", "stopped"} : GraphEnds(o, status) \/ Fail(o, status)
  \/ GraphFails(o)
  \/ Apply(o)
  \/ Branch(o)
  \/ DiskFails(o)

(* A repair steps a Run that is stopped on disk; an amendment that an      *)
(* apply writes meanwhile is the repair's to overwrite, and the repair's   *)
(* events take the place of the amendment's.                               *)
Reinjecting(s) == req[s].purpose = "step" /\ req[s].basis = "stopped"
Overtaking == \E a \in Applies, s \in Steppers : req[a].purpose = "amend" /\ Reinjecting(s)

Notice == overtaken' = (overtaken \/ Overtaking')

Next ==
  \E o \in Ops :
    \/ MayRun(o) /\ Advance(o) /\ Notice
    \/ Crash(o) /\ Notice

Spec == Init /\ [][Next]_vars

-----------------------------------------------------------------------------
(* Nobody ever reads a torn pair: whoever can enter the guard finds equal  *)
(* projections, or a journal that will make them equal.                    *)
RecordIsPaired == guard = Nothing => (journal # Nothing \/ state = readModel)

(* A journal left behind can always be finished, unless the event log was  *)
(* torn: no event took the place of the one it still has to append.  The   *)
(* exception is the repair of a failed regeneration, whose events take the *)
(* place of those of an apply that it admits and that dies                 *)
(* (phase32_contract_repair_execution.py:107).                             *)
RecoveryNeverBlocked ==
  ~overtaken =>
    (journal # Nothing /\ guard = Nothing /\ journal.event # Nothing =>
       \/ torn
       \/ Placed(journal.event, journal.sequence)
       \/ Fresh(journal.event, journal.sequence))

(* A Run with a granted amendment stays amended: no step that began before *)
(* overwrites it with a projection from before, except the repair of a     *)
(* failed regeneration (phase32_contract_repair_execution.py:107).         *)
AmendmentIsKept ==
  ~overtaken =>
    \A o \in Applies : At(o, "applied") => state.status = "needs_action" /\ Logged(Amended)

(* The Run's record and log as a reader will find them: a journal counts   *)
(* as committed from the moment it is on disk.                             *)
Record == IF journal = Nothing THEN state ELSE journal.projection

Log ==
  IF journal # Nothing /\ journal.event # Nothing /\ ~Logged(journal.event)
    THEN Append(events, journal.event)
    ELSE events

RunLog == INSTANCE RunLog WITH
  Records <- Projections, InitialRecord <- InitialProjection, record <- Record, log <- Log

(* Commits are atomic and events are logged exactly once, in an order that *)
(* never changes, although a request may die between any two file writes   *)
(* and another may finish its journal; until the repair of a failed        *)
(* regeneration appends its events ahead of a journal's                    *)
(* (phase32_contract_repair_execution.py:107).                             *)
ImplementsRunLog == RunLog!Init /\ [][RunLog!Next \/ overtaken']_<<Record, Log>>
=============================================================================
