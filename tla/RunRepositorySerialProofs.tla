----------------------- MODULE RunRepositorySerialProofs -----------------------
(***************************************************************************)
(* Machine-checked proofs about RunRepository in one server process, where *)
(* the event loop keeps the writers apart except for a graph that runs.    *)
(* What the files hold for the requests under way is invariant until an    *)
(* amendment is written over a repair's step.                              *)
(***************************************************************************)
EXTENDS RunRepositoryProofs

(* What the files hold while a request is where it is.                     *)
FilesInv(o) ==
  LET at == req[o].at
      why == req[o].purpose
  IN  /\ at = "decide" => journal = Nothing /\ req[o].basis = state.status
      /\ why \in {"recovered", "step"} => journal = Nothing /\ state.status # "needs_action"
      /\ why = "step" => req[o].basis = state.status
      /\ why = "amend" /\ at \in {"read", "journal"} \cup Restoring =>
           journal = Nothing /\ state.status = "stopped"
      /\ why = "branch" /\ at = "emit" => journal = Nothing
      /\ why \in Stopping => Record.status # "needs_action"
      /\ at = "applied" => journal = Nothing /\ state.status = "needs_action" /\ Logged(Amended)

(* The writers one by one: at most one of them is neither ended nor at an  *)
(* await, and at most one executes.                                        *)
TurnInv ==
  /\ \A o, p \in Ops : AtRest(o) \/ AtRest(p) \/ o = p
  /\ \A o \in Steppers : Live(o) => execution = o

(* A journal's event is logged in its place or is the next one.            *)
JournalInv ==
  /\ journal # Nothing =>
       /\ journal.event # Nothing =>
            torn \/ Placed(journal.event, journal.sequence) \/ Fresh(journal.event, journal.sequence)
       /\ journal.event = Amended => journal.projection.status = "needs_action"
  /\ Logged(Amended) => Record.status = "needs_action"

LocalInv == (\A o \in Ops : FilesInv(o)) /\ TurnInv /\ JournalInv

-----------------------------------------------------------------------------
(* What a step of o may do without disturbing the others: the Run's record *)
(* stays, no journal appears, and the log grows at most by an event.       *)
Steady(o) ==
  /\ \A d \in Ops \ {o} : req'[d] = req[d]
  /\ Record' = Record
  /\ journal = Nothing => journal' = Nothing
  /\ Grows

LEMMA StandBy ==
  ASSUME IInv, NEW o \in Ops, NEW d \in Ops \ {o}, FilesInv(d), Steady(o)
  PROVE  FilesInv(d)'
<1>1. req'[d] = req[d] /\ Record' = Record /\ (journal = Nothing => journal' = Nothing /\ state' = state)
  BY DEF Steady, Record
<1>2. Logged(Amended) => Logged(Amended)'
  BY LoggedStays DEF Steady, IInv, Amended, Event
<1> QED
  BY <1>1, <1>2 DEF FilesInv

(* The execution lock is kept, taken when it is free, or let go at the end.*)
LockStep(o) ==
  \/ execution' = execution /\ (Live(o)' /\ o \in Steppers => Live(o))
  \/ execution = Nothing /\ execution' = o
  \/ ~Live(o)' /\ execution' = IF execution = o THEN Nothing ELSE execution

LEMMA TurnStep ==
  ASSUME OneProcess, TurnInv, NEW o \in Ops, MayRun(o), \A d \in Ops \ {o} : req'[d] = req[d],
         InNode(o) => AtRest(o)', LockStep(o)
  PROVE  TurnInv'
<1>1. \A d \in Ops \ {o} : (AtRest(d)' <=> AtRest(d)) /\ (Live(d)' <=> Live(d))
  BY DEF AtRest, Live, At
<1>2. AtRest(o)' \/ \A d \in Ops \ {o} : AtRest(d)
  BY DEF MayRun, AtRest
<1>3. \A p, q \in Ops : AtRest(p)' \/ AtRest(q)' \/ p = q
  BY <1>1, <1>2 DEF TurnInv
<1>4. ASSUME NEW d \in Steppers, Live(d)' PROVE execution' = d
  <2>1. d \in Ops /\ Nothing \notin Ops
    BY OpsAssumption DEF Ops
  <2>2. CASE d = o
    BY <1>4, <2>1, <2>2 DEF LockStep, TurnInv
  <2>3. CASE d # o
    <3>1. execution = d
      BY <1>1, <1>4, <2>1, <2>3 DEF TurnInv
    <3> QED
      BY <2>1, <2>3, <3>1 DEF LockStep
  <2> QED
    BY <2>2, <2>3
<1> QED
  BY <1>3, <1>4 DEF TurnInv

LEMMA LocalStep ==
  ASSUME OneProcess, IInv, LocalInv, NEW o \in Ops, MayRun(o), Steady(o), LockStep(o),
         InNode(o) => AtRest(o)', FilesInv(o)', JournalInv'
  PROVE  LocalInv'
<1>1. \A d \in Ops \ {o} : FilesInv(d)'
  BY StandBy DEF LocalInv
<1>2. TurnInv'
  BY TurnStep DEF LocalInv, Steady
<1> QED
  BY <1>1, <1>2 DEF LocalInv

(* Most steps touch neither the journal nor the log.                       *)
LEMMA JournalStays ==
  ASSUME LocalInv, UNCHANGED <<journal, log>>, Record' = Record
  PROVE  JournalInv'
  BY DEF LocalInv, JournalInv, Logged, Placed, Fresh, NextSequence, log

-----------------------------------------------------------------------------
(* A request that ends, or raises, wherever it was.                        *)
LEMMA EndLocal ==
  ASSUME Shape, NEW o \in Ops, NEW point \in Ended, End(o, point),
         point = "applied" => journal' = Nothing /\ (state.status = "needs_action" /\ Logged(Amended))'
  PROVE  FilesInv(o)' /\ LockStep(o) /\ AtRest(o)' /\ \A d \in Ops \ {o} : req'[d] = req[d]
<1>1. /\ req'[o].at = point /\ req'[o].purpose = "none" /\ ~Live(o)'
      /\ \A d \in Ops \ {o} : req'[d] = req[d]
  BY EndOwn
<1>2. FilesInv(o)'
  BY <1>1 DEF FilesInv, Stopping, Ended
<1> QED
  BY <1>1, <1>2 DEF LockStep, End, AtRest

(* Only a request that is not in a node ends up anywhere but at rest.      *)
LEMMA InNodeFacts == ASSUME IInv, ContentInv, NEW o \in Ops, InNode(o) PROVE req[o].purpose = "step"
  BY StepperOwn, OpsAssumption DEF InNode, At

LEMMA RaiseLocal ==
  ASSUME IInv, ContentInv, NEW o \in Ops, FilesInv(o), Raise(o), Record' = Record,
         journal = Nothing => journal' = Nothing
  PROVE  /\ FilesInv(o)' /\ LockStep(o) /\ \A d \in Ops \ {o} : req'[d] = req[d]
         /\ InNode(o) => AtRest(o)'
<1>1. CASE End(o, "done")
  BY <1>1, EndLocal DEF Ended, IInv
<1>2. CASE /\ req[o].purpose \in {"step", "result"}
           /\ Goto(o, "failing") /\ UNCHANGED execution
  <2>1. /\ req'[o].at = "failing" /\ req'[o].purpose = req[o].purpose
        /\ req'[o].basis = req[o].basis
        /\ \A d \in Ops \ {o} : req'[d] = req[d]
    BY <1>2, PointFacts, GotoOwn DEF IInv
  <2>2. Live(o)
    BY <1>2 DEF ContentInv, OwnInv, PlaceInv, Live, At, Ended
  <2>3. FilesInv(o)'
    BY <1>2, <2>1 DEF FilesInv, Stopping, Record
  <2>4. InNode(o) => AtRest(o)'
    BY <2>1, InNodeFacts DEF AtRest, Restoring
  <2> QED
    BY <1>2, <2>1, <2>2, <2>3, <2>4 DEF LockStep
<1> QED
  BY <1>1, <1>2 DEF Raise

-----------------------------------------------------------------------------
(* A step that changes no file.                                            *)
LEMMA QuietStep ==
  ASSUME OneProcess, IInv, LocalInv, NEW o \in Ops, MayRun(o), UNCHANGED <<projections, log>>,
         \A d \in Ops \ {o} : req'[d] = req[d],
         FilesInv(o)', LockStep(o), InNode(o) => AtRest(o)'
  PROVE  LocalInv'
<1>1. Steady(o)
  BY DEF Steady, Record, projections, log, Grows
<1>2. JournalInv'
  BY JournalStays DEF Record, projections
<1> QED
  BY <1>1, <1>2, LocalStep

LEMMA QuietEnd ==
  ASSUME OneProcess, IInv, LocalInv, NEW o \in Ops, MayRun(o), UNCHANGED <<projections, log>>,
         NEW point \in Ended, End(o, point),
         point = "applied" => journal = Nothing /\ state.status = "needs_action" /\ Logged(Amended)
  PROVE  LocalInv'
<1>1. point = "applied" => journal' = Nothing /\ (state.status = "needs_action" /\ Logged(Amended))'
  BY DEF projections, log, Logged
<1>2. FilesInv(o)' /\ LockStep(o) /\ AtRest(o)' /\ \A d \in Ops \ {o} : req'[d] = req[d]
  BY <1>1, EndLocal DEF IInv
<1> QED
  BY <1>2, QuietStep

LEMMA QuietRaise ==
  ASSUME OneProcess, IInv, ContentInv, LocalInv, NEW o \in Ops, MayRun(o), UNCHANGED <<projections, log>>,
         Raise(o)
  PROVE  LocalInv'
<1>1. Record' = Record /\ FilesInv(o) /\ (journal = Nothing => journal' = Nothing)
  BY DEF Record, projections, LocalInv
<1>2. /\ FilesInv(o)' /\ LockStep(o) /\ \A d \in Ops \ {o} : req'[d] = req[d]
      /\ InNode(o) => AtRest(o)'
  BY <1>1, RaiseLocal
<1> QED
  BY <1>2, QuietStep

LEMMA StartLocal ==
  ASSUME OneProcess, IInv, LocalInv, NEW o \in Ops, MayRun(o), Start(o) PROVE LocalInv'
<1>1. /\ req'[o].at = "read" /\ req'[o].purpose = "start"
      /\ \A d \in Ops \ {o} : req'[d] = req[d]
  BY ReadOwn DEF Start, IInv
<1>2. FilesInv(o)'
  BY <1>1 DEF FilesInv, Stopping
<1>3. LockStep(o) /\ ~InNode(o)
  BY DEF LockStep, Start, InNode, At
<1> QED
  BY <1>1, <1>2, <1>3, QuietStep DEF Start

LEMMA RequestLocal ==
  ASSUME OneProcess, IInv, LocalInv, NEW o \in Ops, MayRun(o), Request(o) PROVE LocalInv'
<1>1. o \notin Steppers /\ ~InNode(o) /\ UNCHANGED <<projections, log>>
  BY OpsAssumption DEF Request, InNode
<1>2. ASSUME NEW why \in {"apply", "branch", "look"}, Read(o, why), UNCHANGED locks PROVE LocalInv'
  <2>1. /\ req'[o].at = "read" /\ req'[o].purpose = why
        /\ \A d \in Ops \ {o} : req'[d] = req[d]
    BY <1>2, ReadOwn DEF IInv
  <2>2. FilesInv(o)'
    BY <2>1 DEF FilesInv, Stopping
  <2> QED
    BY <1>1, <1>2, <2>1, <2>2, QuietStep DEF LockStep, locks
<1>3. CASE Receipted /\ End(o, "applied")
  <2>1. PICK a \in Applies : At(a, "applied")
    BY <1>3 DEF Receipted
  <2>2. journal = Nothing /\ state.status = "needs_action" /\ Logged(Amended)
    BY <2>1 DEF LocalInv, FilesInv, At, Ops
  <2> QED
    BY <1>1, <1>3, <2>2, QuietEnd DEF Ended
<1> QED
  BY <1>2, <1>3 DEF Request

-----------------------------------------------------------------------------
(* Reading, with and without a journal to finish.                          *)
LEMMA ReadFilesLocal ==
  ASSUME OneProcess, IInv, ContentInv, LocalInv, NEW o \in Ops, MayRun(o), ReadFiles(o) PROVE LocalInv'
<1>1. /\ Shape /\ UNCHANGED <<projections, log>> /\ journal = Nothing /\ journal' = Nothing /\ state' = state
      /\ req[o].at = "read" /\ Live(o) /\ ~InNode(o) /\ FilesInv(o) /\ OwnInv(o)
  BY DEF ReadFiles, IInv, ContentInv, LocalInv, At, Live, Ended, InNode, projections
<1>2. CASE req[o].purpose \in Commits /\ Goto(o, "journal") /\ UNCHANGED execution
  <2>1. /\ req'[o].at = "journal" /\ req'[o].purpose = req[o].purpose
        /\ \A d \in Ops \ {o} : req'[d] = req[d]
    BY <1>1, <1>2, PointFacts, GotoOwn DEF Inside, Committing
  <2>2. FilesInv(o)'
    BY <1>1, <1>2, <2>1 DEF FilesInv, Stopping, Commits, Record
  <2> QED
    BY <1>1, <1>2, <2>1, <2>2, QuietStep DEF LockStep
<1>3. CASE /\ req[o].purpose \in {"start", "apply", "branch"}
           /\ req' = [req EXCEPT ![o].at = "decide", ![o].basis = state.status] /\ UNCHANGED execution
  <2>1. /\ req'[o].at = "decide" /\ req'[o].purpose = req[o].purpose
        /\ req'[o].basis = state.status
        /\ \A d \in Ops \ {o} : req'[d] = req[d]
    BY <1>1, <1>3 DEF Shape, ShapeOfRequests
  <2>2. FilesInv(o)'
    BY <1>1, <1>3, <2>1 DEF FilesInv, Stopping
  <2> QED
    BY <1>1, <1>3, <2>1, <2>2, QuietStep DEF LockStep
<1>4. CASE /\ req[o].purpose = "recovered"
           /\ req' = [req EXCEPT ![o].purpose = "step", ![o].basis = state.status] /\ UNCHANGED execution
  <2>1. /\ req'[o].at = "read" /\ req'[o].purpose = "step" /\ req'[o].basis = state.status
        /\ \A d \in Ops \ {o} : req'[d] = req[d]
    BY <1>1, <1>4 DEF Shape, ShapeOfRequests
  <2>2. FilesInv(o)'
    BY <1>1, <1>4, <2>1 DEF FilesInv, Stopping
  <2> QED
    BY <1>1, <1>4, <2>1, <2>2, QuietStep DEF LockStep
<1>5. CASE /\ req[o].purpose = "step"
           /\ Goto(o, IF state.status = "needs_action" THEN "failing" ELSE "working") /\ UNCHANGED execution
  <2>1. PICK point \in {"failing", "working"} : Goto(o, point)
    BY <1>5
  <2>2. /\ req'[o].at = point /\ req'[o].purpose = "step" /\ req'[o].basis = req[o].basis
        /\ \A d \in Ops \ {o} : req'[d] = req[d]
    BY <1>1, <1>5, <2>1, PointFacts, GotoOwn
  <2>3. FilesInv(o)'
    BY <1>1, <1>5, <2>2 DEF FilesInv, Stopping
  <2> QED
    BY <1>1, <1>5, <2>2, <2>3, QuietStep DEF LockStep
<1>6. CASE End(o, "done")
  BY <1>1, <1>6, QuietEnd DEF Ended
<1> QED
  BY <1>2, <1>3, <1>4, <1>5, <1>6 DEF ReadFiles, AfterRead

LEMMA RecoverLocal ==
  ASSUME OneProcess, IInv, LocalInv, NEW o \in Ops, MayRun(o), Recover(o) PROVE LocalInv'
<1>1. /\ Shape /\ UNCHANGED <<projections, log>> /\ journal # Nothing /\ Record' = Record
      /\ req[o].at = "read" /\ Live(o) /\ ~InNode(o) /\ FilesInv(o)
  BY DEF Recover, IInv, LocalInv, At, Live, Ended, InNode, projections, Record
<1>2. /\ req'[o].at = "restoreState" /\ req'[o].purpose = req[o].purpose
      /\ \A d \in Ops \ {o} : req'[d] = req[d]
  BY <1>1, PointFacts, GotoOwn DEF Inside, Restoring, Recover
<1>3. FilesInv(o)'
  BY <1>1, <1>2 DEF FilesInv, Stopping
<1> QED
  BY <1>1, <1>2, <1>3, QuietStep DEF LockStep, Recover

(* A recovery, of whoever has one to make, from step to step.              *)
LEMMA RestoreLocal ==
  ASSUME IInv, LocalInv, NEW o \in Ops, req[o].at \in Restoring, NEW point \in Restoring \cup {"read"},
         Goto(o, point), Record' = Record
  PROVE  FilesInv(o)' /\ Live(o) /\ ~InNode(o) /\ \A d \in Ops \ {o} : req'[d] = req[d]
<1>1. FilesInv(o) /\ Shape /\ Live(o) /\ ~InNode(o) /\ journal # Nothing
  BY DEF LocalInv, IInv, PairInv, StepInv, Live, At, Ended, InNode, Restoring
<1>2. /\ req'[o].at = point /\ req'[o].purpose = req[o].purpose
      /\ \A d \in Ops \ {o} : req'[d] = req[d]
  BY <1>1, PointFacts, GotoOwn DEF Inside
<1>3. req[o].purpose \notin {"recovered", "step", "amend"}
  BY <1>1 DEF FilesInv
<1>4. FilesInv(o)'
  BY <1>1, <1>2, <1>3 DEF FilesInv, Stopping, Restoring
<1> QED
  BY <1>1, <1>2, <1>4

LEMMA RestoreFilesLocal ==
  ASSUME OneProcess, IInv, LocalInv, NEW o \in Ops, MayRun(o), RestoreState(o) \/ RestoreReadModel(o)
  PROVE  LocalInv'
<1>1. req[o].at \in Restoring /\ journal # Nothing
  BY DEF RestoreState, RestoreReadModel, At, Restoring, IInv, PairInv, StepInv
<1>2. UNCHANGED <<journal, log>> /\ Record' = Record
  BY <1>1 DEF RestoreState, RestoreReadModel, Record
<1>3. PICK point \in Restoring : Goto(o, point)
  BY DEF RestoreState, RestoreReadModel, Restoring
<1>4. FilesInv(o)' /\ Live(o) /\ ~InNode(o) /\ \A d \in Ops \ {o} : req'[d] = req[d]
  BY <1>1, <1>2, <1>3, RestoreLocal
<1>5. Steady(o)
  BY <1>2, <1>4 DEF Steady, Grows, log
<1>6. LockStep(o) /\ JournalInv'
  BY <1>2, <1>4, JournalStays DEF LockStep, RestoreState, RestoreReadModel, locks
<1> QED
  BY <1>4, <1>5, <1>6, LocalStep

LEMMA RestoreEndLocal ==
  ASSUME OneProcess, IInv, LocalInv, NEW o \in Ops, MayRun(o), RestoreEnd(o) PROVE LocalInv'
<1>1. req[o].at \in Restoring
  BY DEF RestoreEnd, At, Restoring
<1>2. Record' = Record
  BY <1>1 DEF RestoreEnd, At, Record, IInv, PairInv, StepInv
<1>3. FilesInv(o)' /\ Live(o) /\ ~InNode(o) /\ \A d \in Ops \ {o} : req'[d] = req[d]
  BY <1>1, <1>2, RestoreLocal DEF RestoreEnd
<1>4. Steady(o)
  BY <1>2, <1>3 DEF Steady, Grows, log, RestoreEnd
<1>5. LockStep(o)
  BY <1>3 DEF LockStep, RestoreEnd, locks
<1>6. JournalInv'
  BY <1>2 DEF LocalInv, JournalInv, RestoreEnd, Logged, log
<1> QED
  BY <1>3, <1>4, <1>5, <1>6, LocalStep

(* Appending the event of the journal.                                     *)
LEMMA AppendLocal ==
  ASSUME IInv, ContentInv, LocalInv, journal # Nothing, UNCHANGED <<projections, torn>>,
         Fresh(journal.event, journal.sequence), events' = Append(events, journal.event)
  PROVE  Record' = Record /\ Grows /\ JournalInv'
<1>1. /\ journal' = journal /\ Record' = Record /\ Grows /\ Placed(journal.event, journal.sequence)'
  BY AppendJournalEvent DEF projections, Record
<1>2. Logged(Amended)' => Logged(Amended) \/ journal.event = Amended
  <2>1. events \in Seq(LogEvents) /\ journal.event \in LogEvents
    BY DEF IInv, Shape, JournalEntries, Fresh
  <2>2. /\ DOMAIN events' = DOMAIN events \cup {Len(events) + 1} /\ events'[Len(events) + 1] = journal.event
        /\ \A i \in DOMAIN events : events'[i] = events[i]
    BY <2>1
  <2> QED
    BY <2>2 DEF Logged, Amended, Event
<1> QED
  BY <1>1, <1>2 DEF JournalInv, LocalInv, Record

LEMMA RestoreEventLocal ==
  ASSUME OneProcess, IInv, ContentInv, LocalInv, NEW o \in Ops, MayRun(o), RestoreEvent(o) PROVE LocalInv'
<1>1. req[o].at \in Restoring /\ journal # Nothing /\ UNCHANGED <<projections, torn>>
  BY DEF RestoreEvent, At, Restoring, IInv, PairInv, StepInv
<1>2. CASE events' = events /\ Goto(o, "restoreEnd") /\ UNCHANGED locks
  <2>1. Record' = Record
    BY <1>1 DEF projections, Record
  <2>2. FilesInv(o)' /\ Live(o) /\ ~InNode(o) /\ \A d \in Ops \ {o} : req'[d] = req[d]
    BY <1>1, <1>2, <2>1, RestoreLocal DEF Restoring
  <2> QED
    BY <1>1, <1>2, <2>2, QuietStep DEF LockStep, locks, log
<1>3. CASE /\ Fresh(journal.event, journal.sequence)
           /\ events' = Append(events, journal.event) /\ Goto(o, "restoreEnd") /\ UNCHANGED locks
  <2>1. Record' = Record /\ Grows /\ JournalInv'
    BY <1>1, <1>3, AppendLocal
  <2>2. FilesInv(o)' /\ Live(o) /\ ~InNode(o) /\ \A d \in Ops \ {o} : req'[d] = req[d]
    BY <1>1, <1>3, <2>1, RestoreLocal DEF Restoring
  <2>3. Steady(o) /\ LockStep(o)
    BY <1>1, <1>3, <2>1, <2>2 DEF Steady, LockStep, locks, projections
  <2> QED
    BY <2>1, <2>2, <2>3, LocalStep
<1>4. CASE events' = events /\ Raise(o)
  BY <1>1, <1>4, QuietRaise DEF log
<1> QED
  BY <1>2, <1>3, <1>4 DEF RestoreEvent, AppendOnce

-----------------------------------------------------------------------------
(* Committing.  While a request commits no other writer is under way, and  *)
(* no amendment was granted before.                                        *)
LEMMA CommitterFacts ==
  ASSUME IInv, ContentInv, LocalInv, NEW o \in Ops, req[o].at \in Committing
  PROVE  /\ req[o].purpose \in Stopping \cup {"amend"} /\ Live(o) /\ ~AtRest(o) /\ ~InNode(o)
         /\ FilesInv(o) /\ OwnInv(o) /\ Shape
         /\ req[o].at # "journal" => journal # Nothing /\ journal = req[o].draft
<1>1. /\ req[o].purpose \in Stopping \cup {"amend"} /\ Live(o) /\ OwnInv(o) /\ Shape
      /\ req[o].at # "journal" => journal # Nothing /\ journal = req[o].draft
  BY CommitterOwn
<1>2. o \in Steppers \cup Applies /\ o \notin Readers
  BY <1>1, OpsAssumption DEF OwnInv, PlaceInv, Stopping
<1> QED
  BY <1>1, <1>2 DEF LocalInv, AtRest, InNode, At, Committing, Stopping

LEMMA CommitterIsAlone ==
  ASSUME IInv, ContentInv, LocalInv, ~Overtaking, NEW o \in Ops, req[o].at = "journal", NEW d \in Ops \ {o}
  PROVE  (~Live(d) \/ d \in Readers) /\ req[d].at # "applied"
<1>1. /\ req[o].purpose \in Stopping \cup {"amend"} /\ Live(o) /\ ~AtRest(o)
      /\ FilesInv(o) /\ FilesInv(d) /\ OwnInv(o) /\ OwnInv(d) /\ journal = Nothing
  BY CommitterFacts DEF Committing, LocalInv, ContentInv, OwnInv, HeldInv, At
<1>2. ASSUME Live(d), d \notin Readers PROVE FALSE
  <2>1. AtRest(d)
    BY <1>1 DEF LocalInv, TurnInv
  <2>2. req[d].purpose = "step" /\ d \in Steppers /\ state.status = req[d].basis
    BY <1>1, <1>2, <2>1 DEF AtRest, OwnInv, PlaceInv, FilesInv
  <2>3. ASSUME req[o].purpose = "amend" PROVE Overtaking
    BY <1>1, <2>2, <2>3 DEF OwnInv, PlaceInv, FilesInv, Overtaking, Reinjecting
  <2>4. o \in Steppers
    BY <1>1, <2>3 DEF OwnInv, PlaceInv
  <2> QED
    BY <1>1, <1>2, <2>2, <2>4 DEF LocalInv, TurnInv
<1>3. ASSUME req[d].at = "applied" PROVE FALSE
  <2>1. state.status = "needs_action"
    BY <1>1, <1>3 DEF FilesInv
  <2> QED
    BY <1>1, <2>1 DEF FilesInv, Record, Stopping
<1> QED
  BY <1>2, <1>3

(* Whoever cannot be under way loses nothing.                              *)
LEMMA IdleLocal ==
  ASSUME IInv, ContentInv, NEW d \in Ops, ~Live(d) \/ d \in Readers, req[d].at # "applied", req'[d] = req[d]
  PROVE  FilesInv(d)'
<1>1. OwnInv(d) /\ req[d].purpose \in Purposes
  BY DEF ContentInv, IInv, Shape, ShapeOfRequests
<1>2. req[d].purpose \in {"none", "branch", "look"} /\ req[d].at \notin {"decide", "emit"}
  <2>1. CASE ~Live(d)
    BY <1>1, <2>1 DEF OwnInv, PlaceInv, Live, At, Ended
  <2>2. CASE d \in Readers /\ Live(d)
    <3>1. d \notin Steppers \cup Applies \cup Branches
      BY <2>2, OpsAssumption
    <3>2. req[d].purpose = "look"
      BY <1>1, <2>2, <3>1 DEF OwnInv, PlaceInv, Purposes, Stopping
    <3> QED
      BY <1>1, <3>2 DEF OwnInv, PlaceInv, Restoring
  <2> QED
    BY <2>1, <2>2
<1> QED
  BY <1>2 DEF FilesInv, Stopping

LEMMA WriteJournalLocal ==
  ASSUME OneProcess, IInv, ContentInv, LocalInv, ~Overtaking, NEW o \in Ops, MayRun(o), WriteJournal(o)
  PROVE  LocalInv'
<1>1. /\ req[o].at = "journal" /\ req[o].purpose \in Stopping \cup {"amend"} /\ Live(o)
      /\ FilesInv(o) /\ OwnInv(o) /\ Shape /\ ~InNode(o) /\ journal = Nothing
  BY CommitterFacts DEF WriteJournal, At, Committing, OwnInv, HeldInv
<1>2. CASE journal' = journal /\ Raise(o)
  BY <1>2, QuietRaise DEF WriteJournal, projections
<1>3. CASE /\ req[o].draft.event = Nothing \/ (~torn /\ req[o].draft.sequence = NextSequence)
           /\ journal' = req[o].draft /\ Goto(o, "replaceState") /\ UNCHANGED locks
  <2> DEFINE draft == req[o].draft
  <2>1. draft \in JournalEntries /\ draft # Nothing
    BY <1>1, EntryIsSomething DEF Shape, ShapeOfRequests
  <2>2. /\ req'[o].at = "replaceState" /\ req'[o].purpose = req[o].purpose
        /\ req'[o].draft = draft
        /\ \A d \in Ops \ {o} : req'[d] = req[d]
    BY <1>1, <1>3, PointFacts, GotoOwn DEF Inside, Committing
  <2>3. journal' = draft /\ journal' # Nothing /\ UNCHANGED <<state, log>> /\ Record' = draft.projection
    BY <1>3, <2>1 DEF WriteJournal, Record
  <2>4. FilesInv(o)'
    BY <1>1, <2>2, <2>3 DEF OwnInv, DraftInv, FilesInv, Stopping, Restoring
  <2>5. ASSUME NEW d \in Ops \ {o} PROVE FilesInv(d)'
    <3>1. (~Live(d) \/ d \in Readers) /\ req[d].at # "applied" /\ req'[d] = req[d]
      BY <1>1, <2>2, CommitterIsAlone
    <3> QED
      BY <3>1, IdleLocal
  <2>6. TurnInv'
    BY <1>1, <1>3, <2>2, TurnStep DEF LocalInv, LockStep, locks
  <2>7. JournalInv'
    <3>1. ~Logged(Amended)
      BY <1>1 DEF LocalInv, JournalInv, FilesInv, Record, Stopping
    <3>2. draft.event \in {Nothing, Amended, Event("failure", draft.sequence)}
      BY <1>1 DEF OwnInv, DraftInv, Stopping
    <3>3. draft.event = Amended => draft.projection.status = "needs_action"
      <4>1. Amended # Nothing /\ \A n : Event("failure", n) # Amended
        BY EventFacts, NothingAssumption DEF Amended, Event, LogEvents
      <4> QED
        BY <1>1, <4>1 DEF OwnInv, DraftInv, Stopping
    <3>4. UNCHANGED <<events, torn>> /\ NextSequence' = NextSequence
      BY <2>3 DEF log, NextSequence
    <3>5. \A e : Logged(e)' <=> Logged(e)
      BY <3>4 DEF Logged
    <3>6. ASSUME draft.event # Nothing PROVE Fresh(draft.event, draft.sequence)
      <4>1. draft.sequence = Len(events) + 1 /\ Len(events) \in Nat
        BY <1>1, <1>3, <3>6 DEF NextSequence, Shape
      <4>2. ~Logged(Event("failure", draft.sequence))
        BY <1>1, <4>1 DEF Logged, ContentInv, LogInv, Event, Shape
      <4> QED
        BY <1>3, <3>1, <3>2, <3>6, <4>2 DEF Fresh
    <3>7. draft.event # Nothing => Fresh(draft.event, draft.sequence)'
      BY <1>3, <2>2, <3>4, <3>5, <3>6 DEF Fresh
    <3> QED
      BY <2>2, <2>3, <3>1, <3>3, <3>5, <3>7 DEF JournalInv
  <2> QED
    BY <2>4, <2>5, <2>6, <2>7 DEF LocalInv
<1> QED
  BY <1>2, <1>3 DEF WriteJournal

(* A commit goes on.                                                       *)
LEMMA CommitLocal ==
  ASSUME IInv, ContentInv, LocalInv, NEW o \in Ops, req[o].at \in Committing,
         NEW point \in Committing \ {"journal"}, Goto(o, point), Record' = Record
  PROVE  FilesInv(o)' /\ Live(o) /\ ~InNode(o) /\ \A d \in Ops \ {o} : req'[d] = req[d]
<1>1. /\ req[o].purpose \in Stopping \cup {"amend"} /\ Live(o) /\ ~InNode(o) /\ FilesInv(o) /\ Shape
  BY CommitterFacts
<1>2. /\ req'[o].at = point /\ req'[o].purpose = req[o].purpose
      /\ \A d \in Ops \ {o} : req'[d] = req[d]
  BY <1>1, PointFacts, GotoOwn DEF Inside
<1>3. FilesInv(o)'
  BY <1>1, <1>2 DEF FilesInv, Stopping, Restoring, Committing
<1> QED
  BY <1>1, <1>2, <1>3

LEMMA ReplaceLocal ==
  ASSUME OneProcess, IInv, ContentInv, LocalInv, NEW o \in Ops, MayRun(o), ReplaceState(o) \/ ReplaceReadModel(o)
  PROVE  LocalInv'
<1>1. req[o].at \in Committing /\ journal # Nothing
  BY CommitterFacts DEF ReplaceState, ReplaceReadModel, At, Committing
<1>2. UNCHANGED <<journal, log>> /\ Record' = Record
  BY <1>1 DEF ReplaceState, ReplaceReadModel, Record
<1>3. PICK point \in Committing \ {"journal"} : Goto(o, point)
  BY DEF ReplaceState, ReplaceReadModel, Committing
<1>4. FilesInv(o)' /\ Live(o) /\ ~InNode(o) /\ \A d \in Ops \ {o} : req'[d] = req[d]
  BY <1>1, <1>2, <1>3, CommitLocal
<1>5. Steady(o)
  BY <1>2, <1>4 DEF Steady, Grows, log
<1>6. LockStep(o) /\ JournalInv'
  BY <1>2, <1>4, JournalStays DEF LockStep, ReplaceState, ReplaceReadModel, locks
<1> QED
  BY <1>4, <1>5, <1>6, LocalStep

LEMMA AppendEventLocal ==
  ASSUME OneProcess, IInv, ContentInv, LocalInv, NEW o \in Ops, MayRun(o), AppendEvent(o) PROVE LocalInv'
<1>1. /\ req[o].at \in Committing /\ journal # Nothing /\ journal = req[o].draft
      /\ UNCHANGED <<projections, torn>> /\ "unlink" \in Committing \ {"journal"}
  BY CommitterFacts DEF AppendEvent, At, Committing
<1>2. CASE events' = events /\ Goto(o, "unlink") /\ UNCHANGED locks
  <2>1. Record' = Record
    BY <1>1 DEF projections, Record
  <2>2. FilesInv(o)' /\ Live(o) /\ ~InNode(o) /\ \A d \in Ops \ {o} : req'[d] = req[d]
    BY <1>1, <1>2, <2>1, CommitLocal
  <2> QED
    BY <1>1, <1>2, <2>2, QuietStep DEF LockStep, locks, log
<1>3. CASE /\ Fresh(journal.event, journal.sequence)
           /\ events' = Append(events, journal.event) /\ Goto(o, "unlink") /\ UNCHANGED locks
  <2>1. Record' = Record /\ Grows /\ JournalInv'
    BY <1>1, <1>3, AppendLocal
  <2>2. FilesInv(o)' /\ Live(o) /\ ~InNode(o) /\ \A d \in Ops \ {o} : req'[d] = req[d]
    BY <1>1, <1>3, <2>1, CommitLocal
  <2>3. Steady(o) /\ LockStep(o)
    BY <1>1, <1>3, <2>1, <2>2 DEF Steady, LockStep, locks, projections
  <2> QED
    BY <2>1, <2>2, <2>3, LocalStep
<1>4. CASE events' = events /\ Raise(o)
  BY <1>1, <1>4, QuietRaise DEF log
<1> QED
  BY <1>1, <1>2, <1>3, <1>4 DEF AppendEvent, AppendOnce

LEMMA UnlinkLocal ==
  ASSUME OneProcess, IInv, ContentInv, LocalInv, NEW o \in Ops, MayRun(o), Unlink(o) PROVE LocalInv'
<1>1. /\ req[o].at = "unlink" /\ req[o].purpose \in Stopping \cup {"amend"}
      /\ Live(o) /\ FilesInv(o) /\ OwnInv(o) /\ Shape /\ ~InNode(o)
      /\ journal # Nothing /\ journal = req[o].draft
  BY CommitterFacts DEF Unlink, At, Committing
<1>2. /\ state = journal.projection /\ journal' = Nothing /\ UNCHANGED <<state, log>>
      /\ journal.event = Nothing \/ Logged(journal.event)
  BY <1>1 DEF Unlink, At, IInv, PairInv, StepInv, OwnInv, HeldInv
<1>3. Record' = Record
  BY <1>1, <1>2 DEF Record
<1>4. JournalInv'
  BY <1>2, <1>3 DEF LocalInv, JournalInv, Logged, log
<1>5. CASE req[o].purpose = "recovery" /\ Read(o, "recovered") /\ UNCHANGED execution
  <2>1. /\ req'[o].at = "read" /\ req'[o].purpose = "recovered"
        /\ \A d \in Ops \ {o} : req'[d] = req[d]
    BY <1>1, <1>5, ReadOwn
  <2>2. FilesInv(o)'
    BY <1>1, <1>2, <1>5, <2>1 DEF OwnInv, DraftInv, FilesInv, Stopping
  <2>3. Steady(o) /\ LockStep(o)
    BY <1>1, <1>2, <1>3, <1>5, <2>1 DEF Steady, Grows, log, LockStep
  <2> QED
    BY <1>1, <1>4, <2>2, <2>3, LocalStep
<1>6. ASSUME NEW point \in Ended, End(o, point), point = "applied" => req[o].purpose = "amend"
      PROVE  LocalInv'
  <2>1. point = "applied" => journal' = Nothing /\ (state.status = "needs_action" /\ Logged(Amended))'
    <3>1. Amended # Nothing
      BY EventFacts, NothingAssumption DEF LogEvents
    <3> QED
      BY <1>1, <1>2, <1>6, <3>1 DEF OwnInv, DraftInv, Logged, log
  <2>2. FilesInv(o)' /\ LockStep(o) /\ \A d \in Ops \ {o} : req'[d] = req[d]
    BY <1>1, <1>6, <2>1, EndLocal
  <2>3. Steady(o)
    BY <1>1, <1>2, <1>3, <2>2 DEF Steady, Grows, log
  <2> QED
    BY <1>1, <1>4, <2>2, <2>3, LocalStep
<1> QED
  BY <1>5, <1>6 DEF Unlink, Ended

-----------------------------------------------------------------------------
(* Deciding what to do, and the graph.                                     *)
LEMMA DeciderFacts ==
  ASSUME IInv, LocalInv, NEW o \in Ops, req[o].at = "decide"
  PROVE  Shape /\ Live(o) /\ ~InNode(o) /\ journal = Nothing /\ req[o].basis = state.status
  BY DEF IInv, LocalInv, FilesInv, Live, At, Ended, InNode

LEMMA AdmitLocal ==
  ASSUME OneProcess, IInv, LocalInv, NEW o \in Ops, MayRun(o), Admit(o) PROVE LocalInv'
<1>1. /\ Shape /\ UNCHANGED <<projections, log>> /\ Live(o) /\ ~InNode(o)
      /\ journal = Nothing /\ journal' = Nothing /\ state' = state /\ req[o].basis = state.status
  BY DeciderFacts DEF Admit, At, projections
<1>2. CASE req[o].basis \in {"open", "stopped"} /\ Read(o, "step") /\ UNCHANGED locks
  <2>1. /\ req'[o].at = "read" /\ req'[o].purpose = "step" /\ req'[o].basis = req[o].basis
        /\ \A d \in Ops \ {o} : req'[d] = req[d]
    BY <1>1, <1>2, ReadOwn
  <2>2. FilesInv(o)'
    BY <1>1, <1>2, <2>1 DEF FilesInv, Stopping
  <2> QED
    BY <1>1, <1>2, <2>1, <2>2, QuietStep DEF LockStep, locks
<1>3. ASSUME req[o].basis = "stopped", NEW why \in {"recovery", "reconcile"}, NEW entry,
             ReadToCommit(o, why, entry), UNCHANGED locks
      PROVE  LocalInv'
  <2>1. /\ req'[o].at = "read" /\ req'[o].purpose = why
        /\ \A d \in Ops \ {o} : req'[d] = req[d]
    BY <1>1, <1>3, DraftOwn
  <2>2. FilesInv(o)'
    BY <1>1, <1>3, <2>1 DEF FilesInv, Stopping, Record
  <2> QED
    BY <1>1, <1>3, <2>1, <2>2, QuietStep DEF LockStep, locks
<1>4. CASE End(o, "done")
  BY <1>1, <1>4, QuietEnd DEF Ended
<1> QED
  BY <1>2, <1>3, <1>4 DEF Admit

(* Whoever steps finds no journal and the Run as it was when it began.     *)
LEMMA WorkingFacts ==
  ASSUME IInv, ContentInv, LocalInv, NEW o \in Ops, req[o].at \in {"working", "failing", "emit"}
  PROVE  /\ Shape /\ Live(o) /\ FilesInv(o)
         /\ req[o].at # "emit" => ~InNode(o)
         /\ req[o].at = "working" => o \in Steppers /\ req[o].purpose = "step"
         /\ req[o].at # "failing" => journal = Nothing
         /\ req[o].at = "failing" => Record.status # "needs_action"
<1>1. /\ Shape /\ Live(o) /\ FilesInv(o)
      /\ req[o].at = "working" => o \in Steppers /\ req[o].purpose = "step"
      /\ req[o].at = "failing" => req[o].purpose \in {"step", "result"}
      /\ req[o].at = "emit" => req[o].purpose \in {"step", "branch"}
  BY StepperOwn DEF LocalInv
<1> QED
  BY <1>1 DEF FilesInv, Stopping, Record, InNode, At

LEMMA NextGraphEventLocal ==
  ASSUME OneProcess, IInv, ContentInv, LocalInv, NEW o \in Ops, NEW g \in GraphEvents, MayRun(o),
         NextGraphEvent(o, g)
  PROVE  LocalInv'
<1>1. /\ Shape /\ FilesInv(o) /\ Live(o) /\ ~InNode(o) /\ req[o].purpose = "step"
      /\ UNCHANGED <<projections, log>>
  BY WorkingFacts DEF NextGraphEvent, At
<1>2. CASE Raise(o)
  BY <1>1, <1>2, QuietRaise
<1>3. CASE /\ req' = [req EXCEPT ![o].at = "emit",
                                 ![o].draft = Entry(InitialProjection, Event("graph", g), NextSequence)]
           /\ UNCHANGED locks
  <2>1. /\ req'[o].at = "emit" /\ req'[o].purpose = "step" /\ req'[o].basis = req[o].basis
        /\ \A d \in Ops \ {o} : req'[d] = req[d]
    BY <1>1, <1>3 DEF Shape, ShapeOfRequests
  <2>2. FilesInv(o)'
    BY <1>1, <2>1 DEF FilesInv, Stopping, projections
  <2> QED
    BY <1>1, <1>3, <2>1, <2>2, QuietStep DEF LockStep, locks
<1> QED
  BY <1>2, <1>3 DEF NextGraphEvent

LEMMA EmitLocal ==
  ASSUME OneProcess, IInv, ContentInv, LocalInv, NEW o \in Ops, MayRun(o), Emit(o) PROVE LocalInv'
<1> DEFINE after == IF o \in Steppers THEN "working" ELSE "done"
<1> PICK e : e = req[o].draft.event
  OBVIOUS
<1>1. /\ Shape /\ FilesInv(o) /\ Live(o) /\ UNCHANGED <<projections, torn>> /\ Record' = Record
      /\ journal = Nothing /\ journal' = Nothing /\ state' = state
      /\ e \in {Event("graph", g) : g \in GraphEvents} \cup {Branched}
      /\ InNode(o) => req[o].purpose = "step"
  BY WorkingFacts, StepperOwn, InNodeFacts DEF Emit, At, projections, Record
<1>2. ASSUME Goto(o, after), UNCHANGED execution
      PROVE  /\ FilesInv(o)' /\ LockStep(o) /\ (InNode(o) => AtRest(o)')
             /\ \A d \in Ops \ {o} : req'[d] = req[d]
  <2>1. /\ req'[o].at = after /\ req'[o].purpose = req[o].purpose /\ req'[o].basis = req[o].basis
        /\ \A d \in Ops \ {o} : req'[d] = req[d]
    BY <1>1, <1>2, PointFacts, GotoOwn
  <2>2. FilesInv(o)'
    BY <1>1, <2>1 DEF FilesInv, Stopping, Restoring
  <2>3. InNode(o) => AtRest(o)'
    BY <1>1, <2>1 DEF AtRest, Restoring
  <2> QED
    BY <1>1, <1>2, <2>1, <2>2, <2>3 DEF LockStep
<1>3. CASE events' = events /\ Goto(o, after) /\ UNCHANGED locks
  BY <1>1, <1>2, <1>3, QuietStep DEF locks, log
<1>4. CASE events' = Append(events, e) /\ Goto(o, after) /\ UNCHANGED locks
  <2>1. e \in LogEvents /\ e # Amended
    BY <1>1, EmittedFacts
  <2>2. /\ DOMAIN events' = DOMAIN events \cup {Len(events) + 1} /\ events'[Len(events) + 1] = e
        /\ \A i \in DOMAIN events : events'[i] = events[i]
    BY <1>1, <1>4, <2>1 DEF Shape
  <2>3. Logged(Amended)' => Logged(Amended)
    BY <2>1, <2>2 DEF Logged, Amended, Event
  <2>4. JournalInv'
    BY <1>1, <2>3 DEF LocalInv, JournalInv
  <2>5. Steady(o)
    BY <1>1, <1>2, <1>4, <2>1 DEF Steady, Grows, locks
  <2> QED
    BY <1>2, <1>4, <2>4, <2>5, LocalStep DEF locks
<1>5. CASE events' = events /\ Raise(o)
  BY <1>1, <1>5, QuietRaise DEF log
<1> QED
  BY <1>3, <1>4, <1>5 DEF Emit, AppendOnce

LEMMA GraphEndsLocal ==
  ASSUME OneProcess, IInv, ContentInv, LocalInv, NEW o \in Ops, NEW status \in {"open", "stopped"}, MayRun(o),
         GraphEnds(o, status)
  PROVE  LocalInv'
<1>1. /\ Shape /\ FilesInv(o) /\ Live(o) /\ ~InNode(o) /\ req[o].purpose = "step"
      /\ UNCHANGED <<projections, log, locks>>
  BY WorkingFacts DEF GraphEnds, At
<1>2. /\ req'[o].at = "read" /\ req'[o].purpose = "result"
      /\ \A d \in Ops \ {o} : req'[d] = req[d]
  BY <1>1, DraftOwn DEF GraphEnds
<1>3. FilesInv(o)'
  BY <1>1, <1>2 DEF FilesInv, Stopping, Record, projections
<1> QED
  BY <1>1, <1>2, <1>3, QuietStep DEF LockStep, locks

LEMMA GraphFailsLocal ==
  ASSUME OneProcess, IInv, ContentInv, LocalInv, NEW o \in Ops, MayRun(o), GraphFails(o) PROVE LocalInv'
<1>1. /\ Shape /\ FilesInv(o) /\ Live(o) /\ ~InNode(o) /\ req[o].purpose = "step"
      /\ UNCHANGED <<projections, log, locks>>
  BY WorkingFacts DEF GraphFails, At
<1>2. /\ req'[o].at = "failing" /\ req'[o].purpose = "step" /\ req'[o].basis = req[o].basis
      /\ \A d \in Ops \ {o} : req'[d] = req[d]
  BY <1>1, PointFacts, GotoOwn DEF GraphFails
<1>3. FilesInv(o)'
  BY <1>1, <1>2 DEF FilesInv, Stopping, projections
<1> QED
  BY <1>1, <1>2, <1>3, QuietStep DEF LockStep, locks

LEMMA FailLocal ==
  ASSUME OneProcess, IInv, ContentInv, LocalInv, NEW o \in Ops, NEW status \in {"open", "stopped"}, MayRun(o),
         Fail(o, status)
  PROVE  LocalInv'
<1>1. /\ Shape /\ FilesInv(o) /\ Live(o) /\ ~InNode(o) /\ Record.status # "needs_action"
      /\ UNCHANGED <<projections, log>> /\ Record' = Record
  BY WorkingFacts DEF Fail, At, projections, Record
<1>2. CASE End(o, "done")
  BY <1>1, <1>2, QuietEnd DEF Ended
<1>3. ASSUME NEW entry, ReadToCommit(o, "failure", entry), UNCHANGED locks PROVE LocalInv'
  <2>1. /\ req'[o].at = "read" /\ req'[o].purpose = "failure"
        /\ \A d \in Ops \ {o} : req'[d] = req[d]
    BY <1>1, <1>3, DraftOwn
  <2>2. FilesInv(o)'
    BY <1>1, <2>1 DEF FilesInv, Stopping
  <2> QED
    BY <1>1, <1>3, <2>1, <2>2, QuietStep DEF LockStep, locks
<1> QED
  BY <1>2, <1>3 DEF Fail

LEMMA ApplyLocal ==
  ASSUME OneProcess, IInv, LocalInv, NEW o \in Ops, MayRun(o), Apply(o) PROVE LocalInv'
<1>1. /\ Shape /\ UNCHANGED <<projections, log>> /\ Live(o) /\ ~InNode(o)
      /\ journal = Nothing /\ journal' = Nothing /\ state' = state /\ req[o].basis = state.status
  BY DeciderFacts DEF Apply, At, projections
<1>2. ASSUME req[o].basis = "stopped", NEW entry, ReadToCommit(o, "amend", entry), UNCHANGED locks
      PROVE  LocalInv'
  <2>1. /\ req'[o].at = "read" /\ req'[o].purpose = "amend"
        /\ \A d \in Ops \ {o} : req'[d] = req[d]
    BY <1>1, <1>2, DraftOwn
  <2>2. FilesInv(o)'
    BY <1>1, <1>2, <2>1 DEF FilesInv, Stopping
  <2> QED
    BY <1>1, <1>2, <2>1, <2>2, QuietStep DEF LockStep, locks
<1>3. CASE req[o].basis = "needs_action" /\ Logged(Amended) /\ End(o, "applied")
  BY <1>1, <1>3, QuietEnd DEF Ended
<1>4. CASE End(o, "done")
  BY <1>1, <1>4, QuietEnd DEF Ended
<1> QED
  BY <1>2, <1>3, <1>4 DEF Apply

LEMMA BranchLocal ==
  ASSUME OneProcess, IInv, ContentInv, LocalInv, NEW o \in Ops, MayRun(o), Branch(o) PROVE LocalInv'
<1>1. /\ Shape /\ UNCHANGED <<projections, log>> /\ Live(o) /\ ~InNode(o)
      /\ journal = Nothing /\ journal' = Nothing /\ req[o].purpose = "branch"
  BY DeciderFacts DEF Branch, At, projections
<1>2. CASE /\ req' = [req EXCEPT ![o].at = "emit",
                                 ![o].draft = Entry(InitialProjection, Branched, NextSequence)]
           /\ UNCHANGED locks
  <2>1. /\ req'[o].at = "emit" /\ req'[o].purpose = "branch"
        /\ \A d \in Ops \ {o} : req'[d] = req[d]
    BY <1>1, <1>2 DEF Shape, ShapeOfRequests
  <2>2. FilesInv(o)'
    BY <1>1, <2>1 DEF FilesInv, Stopping
  <2> QED
    BY <1>1, <1>2, <2>1, <2>2, QuietStep DEF LockStep, locks
<1>3. CASE End(o, "done")
  BY <1>1, <1>3, QuietEnd DEF Ended
<1> QED
  BY <1>2, <1>3 DEF Branch

-----------------------------------------------------------------------------
(* Failures.                                                               *)
LEMMA TornJournal ==
  ASSUME LocalInv, UNCHANGED <<projections, events>>, torn => torn' PROVE JournalInv' /\ Record' = Record
  BY DEF LocalInv, JournalInv, Logged, Placed, Fresh, NextSequence, Record, projections

LEMMA DiskFailsLocal ==
  ASSUME OneProcess, IInv, ContentInv, LocalInv, NEW o \in Ops, MayRun(o), DiskFails(o) PROVE LocalInv'
<1>1. UNCHANGED <<projections, events>> /\ (torn => torn') /\ Raise(o) /\ FilesInv(o)
  BY DEF DiskFails, Tear, LocalInv
<1>2. JournalInv' /\ Record' = Record /\ (journal = Nothing => journal' = Nothing)
  BY <1>1, TornJournal DEF projections
<1>3. /\ FilesInv(o)' /\ LockStep(o) /\ \A d \in Ops \ {o} : req'[d] = req[d]
      /\ InNode(o) => AtRest(o)'
  BY <1>1, <1>2, RaiseLocal
<1>4. Steady(o)
  BY <1>1, <1>2, <1>3 DEF Steady, Grows
<1> QED
  BY <1>2, <1>3, <1>4, LocalStep

LEMMA CrashLocal ==
  ASSUME OneProcess, IInv, ContentInv, LocalInv, NEW o \in Ops, Crash(o) PROVE LocalInv'
<1> DEFINE dead == {d \in Ops : Live(d)}
<1>1. /\ req' = [d \in Ops |-> IF d \in dead THEN AtPoint("done") ELSE req[d]]
      /\ UNCHANGED <<projections, events>> /\ (torn => torn')
  BY DEF Crash, Tear
<1>2. JournalInv' /\ Record' = Record
  BY <1>1, TornJournal
<1>3. ASSUME NEW d \in Ops PROVE ~Live(d)' /\ FilesInv(d)'
  <2>1. FilesInv(d) /\ OwnInv(d)
    BY DEF LocalInv, ContentInv
  <2>2. CASE d \in dead
    <3>1. req'[d].at = "done" /\ req'[d].purpose = "none"
      BY <1>1, <2>2 DEF AtPoint
    <3> QED
      BY <3>1 DEF FilesInv, Stopping, Live, At, Ended
  <2>3. CASE d \notin dead
    <3>1. req'[d] = req[d] /\ ~Live(d)
      BY <1>1, <2>3
    <3>2. req[d].at \in {"idle", "done", "applied"} /\ req[d].purpose \in {"none", "branch"}
      BY <2>1, <3>1 DEF OwnInv, PlaceInv, Live, At, Ended
    <3>3. FilesInv(d)'
      BY <1>1, <2>1, <3>1, <3>2 DEF FilesInv, Stopping, Logged, projections
    <3> QED
      BY <3>1, <3>3 DEF Live, At
  <2> QED
    BY <2>2, <2>3
<1>4. TurnInv'
  <2>1. Steppers \subseteq Ops
    BY DEF Ops
  <2> QED
    BY <1>3, <2>1 DEF TurnInv, AtRest
<1> QED
  BY <1>2, <1>3, <1>4 DEF LocalInv

LEMMA StutterLocal == ASSUME LocalInv, UNCHANGED vars PROVE LocalInv'
<1>1. UNCHANGED <<state, journal, events, torn, execution, req>>
  BY DEF vars, projections, log, locks
<1>2. \A o \in Ops : FilesInv(o)'
  BY <1>1 DEF LocalInv, FilesInv, Record, Logged
<1>3. TurnInv' /\ JournalInv'
  BY <1>1 DEF LocalInv, TurnInv, JournalInv, AtRest, Live, At, Logged, Placed, Fresh, NextSequence, Record
<1> QED
  BY <1>2, <1>3 DEF LocalInv

LEMMA InitLocal == Init => LocalInv
<1> SUFFICES ASSUME Init PROVE LocalInv
  OBVIOUS
<1>1. \A o \in Ops : req[o].at = "idle" /\ req[o].purpose = "none" /\ ~Live(o)
  BY DEF Init, AtPoint, Live, At
<1>2. \A o \in Ops : FilesInv(o)
  BY <1>1 DEF FilesInv, Stopping
<1>3. TurnInv
  BY <1>1 DEF TurnInv, AtRest, Ops
<1>4. JournalInv
  BY DEF Init, JournalInv, Logged
<1> QED
  BY <1>2, <1>3, <1>4 DEF LocalInv

LEMMA NextLocal == ASSUME OneProcess, IInv, ContentInv, LocalInv, ~Overtaking, [Next]_vars PROVE LocalInv'
<1>1. ASSUME NEW o \in Ops, MayRun(o), Advance(o) PROVE LocalInv'
  BY <1>1, StartLocal, RequestLocal, ReadFilesLocal, RecoverLocal, RestoreFilesLocal, RestoreEventLocal,
     RestoreEndLocal, WriteJournalLocal, ReplaceLocal, AppendEventLocal, UnlinkLocal, AdmitLocal,
     NextGraphEventLocal, EmitLocal, GraphEndsLocal, FailLocal, GraphFailsLocal, ApplyLocal, BranchLocal,
     DiskFailsLocal
  DEF Advance
<1>2. CASE UNCHANGED vars
  BY <1>2, StutterLocal
<1> QED
  BY <1>1, <1>2, CrashLocal DEF Next

-----------------------------------------------------------------------------
(* Until an amendment is written over a repair's step.                     *)
Undisturbed == ~Overtaking /\ LocalInv
SerialInv == IInv /\ ContentInv /\ PlacesInv /\ (overtaken \/ Undisturbed)

(* The invariant of one server process, with every writer there is: the    *)
(* repair of a failed regeneration, which steps a stopped Run, among them. *)
THEOREM SerialInvariance == ASSUME OneProcess PROVE Spec => []SerialInv
<1>1. Init => SerialInv
  <2> SUFFICES ASSUME Init PROVE SerialInv
    OBVIOUS
  <2>1. \A o \in Ops : req[o].purpose = "none"
    BY DEF Init, AtPoint
  <2>2. ~Overtaking
    BY <2>1 DEF Overtaking, Ops
  <2> QED
    BY <2>2, InitIInv, InitContent, InitLocal, InitPlaces DEF SerialInv, Undisturbed
<1>2. SerialInv /\ [Next]_vars => SerialInv'
  <2> SUFFICES ASSUME SerialInv, [Next]_vars PROVE SerialInv'
    OBVIOUS
  <2>1. IInv' /\ ContentInv' /\ PlacesInv'
    BY NextIInv, NextContent, NextPlaces DEF SerialInv
  <2>2. ASSUME ~overtaken' PROVE Undisturbed'
    <3>1. Undisturbed /\ ~Overtaking'
      BY <2>2 DEF Next, Notice, vars, Overtaking, Reinjecting, SerialInv, Undisturbed
    <3> QED
      BY <3>1, NextLocal DEF SerialInv, Undisturbed
  <2> QED
    BY <2>1, <2>2 DEF SerialInv
<1> QED
  BY <1>1, <1>2, PTL DEF Spec

(* RecoveryNeverBlocked: in one server process nothing is logged while a   *)
(* journal waits to be finished, so its event still has its place, unless  *)
(* an apply wrote that journal over the step of a repair.                  *)
THEOREM RecoveryIsNeverBlocked == ASSUME OneProcess PROVE Spec => []RecoveryNeverBlocked
<1>1. SerialInv => RecoveryNeverBlocked
  BY DEF SerialInv, Undisturbed, LocalInv, JournalInv, RecoveryNeverBlocked
<1> QED
  BY <1>1, SerialInvariance, PTL

(* AmendmentIsKept: in one server process no step in flight when an        *)
(* amendment is granted writes the Run's record again, unless it is the    *)
(* repair of a failed regeneration, which leaves the Run stopped meanwhile.*)
THEOREM AmendmentsAreKept == ASSUME OneProcess PROVE Spec => []AmendmentIsKept
<1>1. SerialInv => AmendmentIsKept
  BY DEF SerialInv, Undisturbed, LocalInv, FilesInv, AmendmentIsKept, At, Ops
<1> QED
  BY <1>1, SerialInvariance, PTL

-----------------------------------------------------------------------------
(* The record and the log of one step: nothing, a commit, a commit with    *)
(* its event, or an event.                                                 *)
Abstracts ==
  \/ Same
  \/ Record' \in Projections /\ Log' = Log
  \/ Record' \in Projections /\ \E e \in Events : Adds(e)

LEMMA WriteJournalAbstracts ==
  ASSUME IInv, ContentInv, PlacesInv, NEW o \in Ops, WriteJournal(o) PROVE Abstracts
<1>1. Amended \in Events /\ Event("failure", NextSequence) \in Events
  BY NextIsInRange DEF Events, IInv
<1> QED
  BY <1>1, WriteJournalFiles DEF Abstracts

LEMMA EmitAbstracts ==
  ASSUME IInv, ContentInv, LocalInv, NEW o \in Ops, Emit(o) PROVE Abstracts
<1> PICK e : e = req[o].draft.event
  OBVIOUS
<1>1. Shape /\ journal = Nothing
  BY WorkingFacts DEF Emit, At
<1>2. CASE /\ UNCHANGED projections /\ ~Logged(e) /\ events' = Append(events, e)
           /\ e \in {Event("graph", g) : g \in GraphEvents} \cup {Branched}
  <2>1. Log = events /\ Log' = Append(events, e) /\ Record' = Record /\ Record \in Projections
    BY <1>1, <1>2 DEF Log, Record, projections, Shape
  <2>2. Adds(e)
    BY <1>2, <2>1 DEF Adds, InLog, Logged
  <2>3. e \in Events
    BY <1>2, EmittedFacts
  <2> QED
    BY <2>1, <2>2, <2>3 DEF Abstracts
<1> QED
  BY <1>2, EmitFiles DEF Abstracts, Fresh

LEMMA StepAbstracts ==
  ASSUME IInv, ContentInv, LocalInv, PlacesInv, [Next]_vars PROVE Abstracts
<1>1. ASSUME NEW o \in Ops, Advance(o) PROVE Abstracts
  BY <1>1, EmitAbstracts, WriteJournalAbstracts, RestingFiles DEF Abstracts
<1>2. ASSUME NEW o \in Ops, Crash(o) PROVE Abstracts
  BY <1>2, CrashFiles DEF Abstracts
<1>3. CASE UNCHANGED vars
  BY <1>3, SameFiles DEF vars, projections, log, Abstracts
<1> QED
  BY <1>1, <1>2, <1>3 DEF Next

(* ImplementsRunLog: in one server process every commit is atomic and      *)
(* every event is logged once and stays where it is, whatever dies between *)
(* two file writes and whoever finishes the journal; the steps after an    *)
(* amendment was written over a repair's are not spoken of.                *)
THEOREM RunLogIsImplemented == ASSUME OneProcess PROVE Spec => ImplementsRunLog
<1>1. Init => RunLog!Init
  BY DEF Init, RunLog!Init, Record, Log
<1>2. SerialInv /\ [Next]_vars => [RunLog!Next \/ overtaken']_<<Record, Log>>
  <2> SUFFICES ASSUME SerialInv, [Next]_vars, ~overtaken' PROVE [RunLog!Next]_<<Record, Log>>
    OBVIOUS
  <2>1. ~overtaken
    BY DEF Next, Notice, vars
  <2>2. Abstracts
    BY <2>1, StepAbstracts DEF SerialInv, Undisturbed
  <2>3. CASE Same
    BY <2>3 DEF Same
  <2>4. CASE Record' \in Projections /\ Log' = Log
    BY <2>4 DEF RunLog!Next, RunLog!Commit
  <2>5. ASSUME Record' \in Projections, NEW e \in Events, Adds(e) PROVE RunLog!Next
    BY <2>5 DEF Adds, InLog, RunLog!Next, RunLog!CommitWithEvent, RunLog!Logged
  <2> QED
    BY <2>2, <2>3, <2>4, <2>5 DEF Abstracts
<1> QED
  BY <1>1, <1>2, SerialInvariance, PTL DEF Spec, ImplementsRunLog

=============================================================================
