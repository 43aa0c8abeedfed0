-------------------------- MODULE RunRepositoryProofs --------------------------
(***************************************************************************)
(* Machine-checked proofs about RunRepository, for every set of requests,  *)
(* in one server process or in many.                                       *)
(***************************************************************************)
EXTENDS RunRepository, TLAPS, FiniteSetTheorems

(* The shape of what is on disk and in a request, without the bound on the *)
(* length of the log.                                                      *)
JournalEntries == [projection : Projections, event : LogEvents \cup {Nothing}, sequence : Nat]
ShapeOfRequests ==
  [at : Points, purpose : Purposes, basis : RunStatuses, draft : JournalEntries]

Shape ==
  /\ state \in Projections /\ readModel \in Projections
  /\ journal \in JournalEntries \cup {Nothing}
  /\ events \in Seq(LogEvents)
  /\ guard \in Ops \cup {Nothing}
  /\ req \in [Ops -> ShapeOfRequests]

(* Who restores or commits holds the guard, and who holds the guard is     *)
(* restoring, committing, or back at the read that follows a recovery.     *)
GuardInv ==
  /\ \A o \in Ops : req[o].at \in Restoring \cup Committing => guard = o
  /\ guard # Nothing => req[guard].at \in Restoring \cup Committing \cup {"read"}

(* The projections differ only under a journal; a commit has it written    *)
(* before it touches either, and a recovery goes by the one it found.      *)
StepInv(o) ==
  LET at == req[o].at
  IN  /\ at \in Committing \ {"journal"} => journal = req[o].draft
      /\ at \in {"replaceReadModel", "appendEvent", "unlink"} => state = req[o].draft.projection
      /\ at \in {"appendEvent", "unlink"} => readModel = req[o].draft.projection
      /\ at \in Restoring => journal # Nothing
      /\ at \in {"restoreReadModel", "restoreEvent", "restoreEnd"} => state = journal.projection
      /\ at \in {"restoreEvent", "restoreEnd"} => readModel = journal.projection

PairInv ==
  /\ journal = Nothing => state = readModel
  /\ \A o \in Ops : StepInv(o)

IInv == Shape /\ GuardInv /\ PairInv

-----------------------------------------------------------------------------
(* What the helpers do to a request and to the guard.                      *)
Inside == Restoring \cup Committing

LEMMA PointFacts ==
  /\ Inside \subseteq Points
  /\ {"idle", "read", "decide", "working", "emit", "failing", "done", "applied"} \subseteq Points \ Inside
  BY DEF Points, Ended, Inside, Restoring, Committing

LEMMA RestFacts ==
  ASSUME NEW point \in {"idle", "done", "applied"}
  PROVE  AtPoint(point) \in ShapeOfRequests /\ AtPoint(point).at = point
<1>1. InitialProjection \in Projections
  BY DEF InitialProjection, Projections, RunStatuses
<1>2. NoEntry \in JournalEntries
  BY <1>1 DEF NoEntry, Entry, JournalEntries
<1> QED
  BY <1>2, PointFacts DEF AtPoint, ShapeOfRequests, Purposes, RunStatuses

LEMMA EntryIsSomething == Nothing \notin JournalEntries
  BY NothingAssumption DEF JournalEntries, LogEvents

(* Only o moves, to where it holds a request of the right shape.           *)
Moves(o, point) ==
  /\ req' \in [Ops -> ShapeOfRequests]
  /\ req'[o].at = point
  /\ \A d \in Ops \ {o} : req'[d] = req[d]

LEMMA GotoFacts ==
  ASSUME Shape, NEW o \in Ops, NEW point \in Points, Goto(o, point)
  PROVE  Moves(o, point) /\ req'[o].draft = req[o].draft
  BY DEF Shape, Goto, Moves, ShapeOfRequests

LEMMA ReadFacts ==
  ASSUME Shape, NEW o \in Ops, NEW why \in Purposes, Read(o, why)
  PROVE  Moves(o, "read")
  BY PointFacts DEF Shape, Read, Moves, ShapeOfRequests

LEMMA DraftFacts ==
  ASSUME Shape, NEW o \in Ops, NEW why \in Purposes, NEW entry \in JournalEntries, ReadToCommit(o, why, entry)
  PROVE  Moves(o, "read")
  BY PointFacts DEF Shape, ReadToCommit, Moves, ShapeOfRequests

(* A request is out of the guard.                                          *)
Leaves(o) ==
  /\ \E point \in Points \ Inside : Moves(o, point)
  /\ guard' = IF guard = o THEN Nothing ELSE guard

LEMMA EndFacts ==
  ASSUME Shape, NEW o \in Ops, NEW point \in Ended, End(o, point)
  PROVE  Leaves(o)
<1>1. point \in {"idle", "done", "applied"} /\ point \in Points \ Inside
  BY PointFacts DEF Ended
<1>2. AtPoint(point) \in ShapeOfRequests /\ AtPoint(point).at = point
  BY <1>1, RestFacts
<1>3. Moves(o, point)
  BY <1>2 DEF Shape, End, Moves
<1> QED
  BY <1>1, <1>3 DEF Leaves, End

LEMMA RaiseFacts ==
  ASSUME Shape, NEW o \in Ops, Raise(o)
  PROVE  Leaves(o)
<1>1. CASE End(o, "done")
  BY <1>1, EndFacts DEF Ended
<1>2. CASE Goto(o, "failing") /\ guard' = IF guard = o THEN Nothing ELSE guard
  <2>1. Moves(o, "failing")
    BY <1>2, PointFacts, GotoFacts
  <2> QED
    BY <1>2, <2>1, PointFacts DEF Leaves
<1> QED
  BY <1>1, <1>2 DEF Raise

-----------------------------------------------------------------------------
(* A step outside the guard leaves the three files alone.                  *)
LEMMA StepOutside ==
  ASSUME IInv, NEW o \in Ops, NEW point \in Points \ Inside, Moves(o, point), UNCHANGED projections,
         events' \in Seq(LogEvents),
         \/ guard' = IF guard = o THEN Nothing ELSE guard
         \/ guard' = guard /\ guard # o
         \/ guard' = guard /\ point = "read"
         \/ CanEnter(o) /\ guard' = Nothing
  PROVE  IInv'
<1> USE OpsAssumption DEF projections
<1>1. Shape'
  BY DEF IInv, Shape, Moves
<1>2. GuardInv'
  <2>1. ASSUME NEW d \in Ops, req'[d].at \in Inside PROVE guard' = d
    <3>1. d # o /\ req'[d] = req[d]
      BY <2>1 DEF Moves
    <3>2. guard = d
      BY <2>1, <3>1 DEF IInv, GuardInv, Inside
    <3> QED
      BY <3>1, <3>2 DEF CanEnter
  <2>2. ASSUME guard' # Nothing PROVE req'[guard'].at \in Inside \cup {"read"}
    <3>1. guard' = guard /\ guard \in Ops
      BY <2>2 DEF IInv, Shape
    <3>2. req[guard].at \in Inside \cup {"read"}
      BY <2>2, <3>1 DEF IInv, GuardInv, Inside
    <3>3. CASE guard # o
      BY <3>1, <3>2, <3>3 DEF Moves
    <3>4. CASE guard = o
      BY <2>2, <3>1, <3>4 DEF Moves, CanEnter
    <3> QED
      BY <3>3, <3>4
  <2> QED
    BY <2>1, <2>2 DEF GuardInv, Inside
<1>3. PairInv'
  <2>1. ASSUME NEW d \in Ops PROVE StepInv(d)'
    <3>1. CASE d = o
      BY <3>1 DEF StepInv, Moves, Inside, Restoring, Committing
    <3>2. CASE d # o
      BY <3>2 DEF IInv, PairInv, StepInv, Moves
    <3> QED
      BY <3>1, <3>2
  <2> QED
    BY <2>1 DEF IInv, PairInv
<1> QED
  BY <1>1, <1>2, <1>3 DEF IInv

LEMMA LeavesIInv ==
  ASSUME IInv, NEW o \in Ops, Leaves(o), UNCHANGED projections, events' \in Seq(LogEvents)
  PROVE  IInv'
  BY StepOutside DEF Leaves

(* A step inside the guard, where nobody else is.                          *)
LEMMA StepInside ==
  ASSUME IInv, NEW o \in Ops, NEW point \in Inside \cup {"read"}, Moves(o, point),
         CanEnter(o), guard' = o, StepInv(o)',
         state' \in Projections, readModel' \in Projections, journal' \in JournalEntries \cup {Nothing},
         events' \in Seq(LogEvents), journal' = Nothing => state' = readModel'
  PROVE  IInv'
<1> USE OpsAssumption
<1>1. Shape'
  BY DEF IInv, Shape, Moves
<1>2. ASSUME NEW d \in Ops \ {o} PROVE req'[d].at \notin Inside
  BY DEF IInv, GuardInv, Moves, Inside, CanEnter
<1>3. GuardInv'
  BY <1>2 DEF GuardInv, Moves, Inside
<1>4. PairInv'
  <2>1. ASSUME NEW d \in Ops PROVE StepInv(d)'
    <3>1. CASE d # o
      BY <1>2, <3>1 DEF StepInv, Inside, Restoring, Committing
    <3> QED
      BY <3>1
  <2> QED
    BY <2>1 DEF PairInv
<1> QED
  BY <1>1, <1>3, <1>4 DEF IInv

(* Who is inside holds the guard.                                          *)
LEMMA InsideFacts ==
  ASSUME IInv, NEW o \in Ops, req[o].at \in Inside
  PROVE  CanEnter(o) /\ guard = o
  BY DEF IInv, GuardInv, Inside, CanEnter

-----------------------------------------------------------------------------
(* Reading, and finishing what a journal holds.                            *)
LEMMA BeginIInv == ASSUME IInv, NEW o \in Ops, Start(o) \/ Request(o) PROVE IInv'
<1>1. Shape /\ UNCHANGED projections /\ events' \in Seq(LogEvents)
  BY DEF Start, Request, log, IInv, Shape
<1>2. ASSUME NEW why \in {"start", "apply", "branch", "look"}, Read(o, why), guard' = guard PROVE IInv'
  <2>1. Moves(o, "read")
    BY <1>1, <1>2, ReadFacts DEF Purposes
  <2> QED
    BY <1>1, <1>2, <2>1, PointFacts, StepOutside
<1>3. CASE End(o, "applied")
  BY <1>1, <1>3, EndFacts, LeavesIInv DEF Ended
<1> QED
  BY <1>2, <1>3 DEF Start, Request, locks

LEMMA ReadFilesIInv == ASSUME IInv, NEW o \in Ops, ReadFiles(o) PROVE IInv'
<1>1. CanEnter(o) /\ UNCHANGED projections /\ events' \in Seq(LogEvents) /\ journal = Nothing
  BY DEF ReadFiles, log, IInv, Shape
<1>2. Shape /\ state.status \in RunStatuses
  BY DEF IInv, Shape, Projections
<1>3. CASE guard' = o /\ Goto(o, "journal")
  <2>1. Moves(o, "journal") /\ "journal" \in Inside
    BY <1>2, <1>3, PointFacts, GotoFacts DEF Inside, Committing
  <2>2. StepInv(o)'
    BY <2>1 DEF Moves, StepInv, Restoring, Committing
  <2> QED
    BY <1>1, <1>2, <1>3, <2>1, <2>2, StepInside DEF IInv, Shape, PairInv, projections
<1>4. CASE guard' = Nothing /\ req' = [req EXCEPT ![o].at = "decide", ![o].basis = state.status]
  <2>1. Moves(o, "decide")
    BY <1>2, <1>4, PointFacts DEF Shape, Moves, ShapeOfRequests
  <2> QED
    BY <1>1, <1>4, <2>1, PointFacts, StepOutside
<1>5. CASE guard' = Nothing /\ req' = [req EXCEPT ![o].purpose = "step", ![o].basis = state.status]
  <2>1. Moves(o, "read")
    BY <1>2, <1>5, PointFacts DEF ReadFiles, At, Shape, Moves, ShapeOfRequests, Purposes
  <2> QED
    BY <1>1, <1>5, <2>1, PointFacts, StepOutside
<1>6. CASE guard' = Nothing /\ Goto(o, IF state.status = "needs_action" THEN "failing" ELSE "working")
  <2>1. PICK point \in {"failing", "working"} : Goto(o, point)
    BY <1>6
  <2>2. Moves(o, point)
    BY <1>2, <2>1, PointFacts, GotoFacts
  <2> QED
    BY <1>1, <1>6, <2>2, PointFacts, StepOutside
<1>7. CASE End(o, "done")
  BY <1>1, <1>2, <1>7, EndFacts, LeavesIInv DEF Ended
<1> QED
  BY <1>3, <1>4, <1>5, <1>6, <1>7 DEF ReadFiles, AfterRead

LEMMA RecoverIInv == ASSUME IInv, NEW o \in Ops, Recover(o) PROVE IInv'
<1>1. Moves(o, "restoreState") /\ "restoreState" \in Inside
  BY PointFacts, GotoFacts DEF Recover, IInv, Inside, Restoring
<1>2. StepInv(o)'
  BY <1>1 DEF Moves, StepInv, Restoring, Committing, Recover, projections
<1> QED
  BY <1>1, <1>2, StepInside DEF Recover, IInv, Shape, PairInv, projections, log

LEMMA RestoreStateIInv == ASSUME IInv, NEW o \in Ops, RestoreState(o) PROVE IInv'
<1>1. CanEnter(o) /\ guard = o /\ StepInv(o)
  BY InsideFacts DEF RestoreState, At, Inside, Restoring, IInv, PairInv
<1>2. journal # Nothing /\ journal \in JournalEntries
  BY <1>1 DEF RestoreState, At, StepInv, Restoring, IInv, Shape
<1>3. Moves(o, "restoreReadModel") /\ "restoreReadModel" \in Inside
  BY PointFacts, GotoFacts DEF RestoreState, IInv, Inside, Restoring
<1>4. StepInv(o)'
  BY <1>2, <1>3 DEF Moves, StepInv, Restoring, Committing, RestoreState
<1>5. state' \in Projections
  BY <1>2 DEF RestoreState, JournalEntries
<1> QED
  BY <1>1, <1>2, <1>3, <1>4, <1>5, StepInside DEF RestoreState, IInv, Shape, log, locks

LEMMA RestoreReadModelIInv == ASSUME IInv, NEW o \in Ops, RestoreReadModel(o) PROVE IInv'
<1>1. CanEnter(o) /\ guard = o /\ StepInv(o)
  BY InsideFacts DEF RestoreReadModel, At, Inside, Restoring, IInv, PairInv
<1>2. journal # Nothing /\ journal \in JournalEntries /\ state = journal.projection
  BY <1>1 DEF RestoreReadModel, At, StepInv, Restoring, IInv, Shape
<1>3. Moves(o, "restoreEvent") /\ "restoreEvent" \in Inside
  BY PointFacts, GotoFacts DEF RestoreReadModel, IInv, Inside, Restoring
<1>4. StepInv(o)'
  BY <1>2, <1>3 DEF Moves, StepInv, Restoring, Committing, RestoreReadModel
<1>5. readModel' \in Projections
  BY <1>2 DEF RestoreReadModel, JournalEntries
<1> QED
  BY <1>1, <1>2, <1>3, <1>4, <1>5, StepInside DEF RestoreReadModel, IInv, Shape, log, locks

LEMMA AppendFacts ==
  ASSUME Shape, NEW o \in Ops, NEW e \in LogEvents \cup {Nothing}, NEW sequence, NEW after \in Points,
         AppendOnce(o, e, sequence, after)
  PROVE  /\ events' \in Seq(LogEvents)
         /\ \/ Moves(o, after) /\ req'[o].draft = req[o].draft /\ UNCHANGED locks
            \/ Leaves(o)
<1>1. CASE events' = events /\ Goto(o, after) /\ UNCHANGED locks
  BY <1>1, GotoFacts DEF Shape
<1>2. CASE e # Nothing /\ events' = Append(events, e) /\ Goto(o, after) /\ UNCHANGED locks
  BY <1>2, GotoFacts DEF Shape
<1>3. CASE events' = events /\ Raise(o)
  BY <1>3, RaiseFacts DEF Shape
<1> QED
  BY <1>1, <1>2, <1>3 DEF AppendOnce, Fresh

LEMMA RestoreEventIInv == ASSUME IInv, NEW o \in Ops, RestoreEvent(o) PROVE IInv'
<1>1. CanEnter(o) /\ guard = o /\ StepInv(o)
  BY InsideFacts DEF RestoreEvent, At, Inside, Restoring, IInv, PairInv
<1>2. /\ journal # Nothing /\ journal \in JournalEntries
      /\ state = journal.projection /\ readModel = journal.projection
  BY <1>1 DEF RestoreEvent, At, StepInv, Restoring, IInv, Shape
<1>3. "restoreEnd" \in Points /\ "restoreEnd" \in Inside /\ journal.event \in LogEvents \cup {Nothing}
  BY <1>2, PointFacts DEF Inside, Restoring, JournalEntries
<1>4. /\ events' \in Seq(LogEvents)
      /\ \/ Moves(o, "restoreEnd") /\ req'[o].draft = req[o].draft /\ UNCHANGED locks
         \/ Leaves(o)
  BY <1>3, AppendFacts DEF RestoreEvent, IInv
<1>5. CASE Moves(o, "restoreEnd") /\ UNCHANGED locks
  <2>1. StepInv(o)'
    BY <1>2, <1>5 DEF Moves, StepInv, Restoring, Committing, RestoreEvent, projections
  <2> QED
    BY <1>1, <1>2, <1>3, <1>4, <1>5, <2>1, StepInside DEF RestoreEvent, IInv, Shape, projections, locks
<1>6. CASE Leaves(o)
  BY <1>4, <1>6, LeavesIInv DEF RestoreEvent
<1> QED
  BY <1>4, <1>5, <1>6

LEMMA RestoreEndIInv == ASSUME IInv, NEW o \in Ops, RestoreEnd(o) PROVE IInv'
<1>1. CanEnter(o) /\ guard = o /\ StepInv(o)
  BY InsideFacts DEF RestoreEnd, At, Inside, Restoring, IInv, PairInv
<1>2. state = readModel
  BY <1>1 DEF RestoreEnd, At, StepInv
<1>3. Moves(o, "read")
  BY PointFacts, GotoFacts DEF RestoreEnd, IInv
<1>4. StepInv(o)'
  BY <1>3 DEF Moves, StepInv, Restoring, Committing
<1> QED
  BY <1>1, <1>2, <1>3, <1>4, StepInside DEF RestoreEnd, IInv, Shape, log, locks

-----------------------------------------------------------------------------
(* Committing.                                                             *)
LEMMA WriteJournalIInv == ASSUME IInv, NEW o \in Ops, WriteJournal(o) PROVE IInv'
<1>1. CanEnter(o) /\ guard = o
  BY InsideFacts DEF WriteJournal, At, Inside, Committing
<1>2. req[o].draft \in JournalEntries /\ req[o].draft # Nothing
  <2>1. req[o].draft \in JournalEntries
    BY DEF IInv, Shape, ShapeOfRequests
  <2> QED
    BY <2>1, EntryIsSomething
<1>3. CASE journal' = req[o].draft /\ Goto(o, "replaceState") /\ UNCHANGED locks
  <2>1. Moves(o, "replaceState") /\ "replaceState" \in Inside /\ req'[o].draft = req[o].draft
    BY <1>3, PointFacts, GotoFacts DEF IInv, Inside, Committing
  <2>2. StepInv(o)'
    BY <1>2, <1>3, <2>1 DEF Moves, StepInv, Restoring, Committing
  <2> QED
    BY <1>1, <1>2, <1>3, <2>1, <2>2, StepInside DEF WriteJournal, IInv, Shape, log, locks
<1>4. CASE journal' = journal /\ Raise(o)
  BY <1>4, RaiseFacts, LeavesIInv DEF WriteJournal, IInv, Shape, log, projections
<1> QED
  BY <1>3, <1>4 DEF WriteJournal

LEMMA ReplaceStateIInv == ASSUME IInv, NEW o \in Ops, ReplaceState(o) PROVE IInv'
<1>1. CanEnter(o) /\ guard = o /\ StepInv(o)
  BY InsideFacts DEF ReplaceState, At, Inside, Committing, IInv, PairInv
<1>2. journal = req[o].draft /\ journal \in JournalEntries /\ journal # Nothing
  <2>1. req[o].draft \in JournalEntries /\ journal = req[o].draft
    BY <1>1 DEF ReplaceState, At, StepInv, Committing, IInv, Shape, ShapeOfRequests
  <2> QED
    BY <2>1, EntryIsSomething
<1>3. Moves(o, "replaceReadModel") /\ "replaceReadModel" \in Inside /\ req'[o].draft = req[o].draft
  BY PointFacts, GotoFacts DEF ReplaceState, IInv, Inside, Committing
<1>4. StepInv(o)'
  BY <1>2, <1>3 DEF Moves, StepInv, Restoring, Committing, ReplaceState
<1>5. state' \in Projections
  BY <1>2 DEF ReplaceState, JournalEntries
<1> QED
  BY <1>1, <1>2, <1>3, <1>4, <1>5, StepInside DEF ReplaceState, IInv, Shape, log, locks

LEMMA ReplaceReadModelIInv == ASSUME IInv, NEW o \in Ops, ReplaceReadModel(o) PROVE IInv'
<1>1. CanEnter(o) /\ guard = o /\ StepInv(o)
  BY InsideFacts DEF ReplaceReadModel, At, Inside, Committing, IInv, PairInv
<1>2. /\ journal = req[o].draft /\ journal \in JournalEntries /\ journal # Nothing
      /\ state = req[o].draft.projection
  <2>1. /\ req[o].draft \in JournalEntries /\ journal = req[o].draft
        /\ state = req[o].draft.projection
    BY <1>1 DEF ReplaceReadModel, At, StepInv, Committing, IInv, Shape, ShapeOfRequests
  <2> QED
    BY <2>1, EntryIsSomething
<1>3. Moves(o, "appendEvent") /\ "appendEvent" \in Inside /\ req'[o].draft = req[o].draft
  BY PointFacts, GotoFacts DEF ReplaceReadModel, IInv, Inside, Committing
<1>4. StepInv(o)'
  BY <1>2, <1>3 DEF Moves, StepInv, Restoring, Committing, ReplaceReadModel
<1>5. readModel' \in Projections
  BY <1>2 DEF ReplaceReadModel, JournalEntries
<1> QED
  BY <1>1, <1>2, <1>3, <1>4, <1>5, StepInside DEF ReplaceReadModel, IInv, Shape, log, locks

LEMMA AppendEventIInv == ASSUME IInv, NEW o \in Ops, AppendEvent(o) PROVE IInv'
<1>1. CanEnter(o) /\ guard = o /\ StepInv(o)
  BY InsideFacts DEF AppendEvent, At, Inside, Committing, IInv, PairInv
<1>2. /\ journal = req[o].draft /\ journal # Nothing /\ req[o].draft.event \in LogEvents \cup {Nothing}
      /\ state = req[o].draft.projection /\ readModel = req[o].draft.projection
  <2>1. /\ req[o].draft \in JournalEntries /\ journal = req[o].draft
        /\ state = req[o].draft.projection /\ readModel = req[o].draft.projection
    BY <1>1 DEF AppendEvent, At, StepInv, Committing, IInv, Shape, ShapeOfRequests
  <2> QED
    BY <2>1, EntryIsSomething DEF JournalEntries
<1>3. "unlink" \in Points /\ "unlink" \in Inside
  BY PointFacts DEF Inside, Committing
<1>4. /\ events' \in Seq(LogEvents)
      /\ \/ Moves(o, "unlink") /\ req'[o].draft = req[o].draft /\ UNCHANGED locks
         \/ Leaves(o)
  BY <1>2, <1>3, AppendFacts DEF AppendEvent, IInv
<1>5. CASE Moves(o, "unlink") /\ req'[o].draft = req[o].draft /\ UNCHANGED locks
  <2>1. StepInv(o)'
    BY <1>2, <1>5 DEF Moves, StepInv, Restoring, Committing, AppendEvent, projections
  <2> QED
    BY <1>1, <1>2, <1>3, <1>4, <1>5, <2>1, StepInside DEF AppendEvent, IInv, Shape, projections, locks
<1>6. CASE Leaves(o)
  BY <1>4, <1>6, LeavesIInv DEF AppendEvent
<1> QED
  BY <1>4, <1>5, <1>6

LEMMA UnlinkIInv == ASSUME IInv, NEW o \in Ops, Unlink(o) PROVE IInv'
<1>1. guard = o /\ CanEnter(o) /\ StepInv(o) /\ Shape
  BY InsideFacts DEF Unlink, At, Inside, Committing, IInv, PairInv
<1>2. state = readModel
  BY <1>1 DEF Unlink, At, StepInv
<1>3. \E point \in Points \ Inside : Moves(o, point)
  <2>1. CASE Read(o, "recovered")
    BY <1>1, <2>1, ReadFacts, PointFacts DEF Purposes
  <2>2. CASE End(o, IF req[o].purpose = "amend" THEN "applied" ELSE "done")
    BY <1>1, <2>2, EndFacts DEF Ended, Leaves
  <2> QED
    BY <2>1, <2>2 DEF Unlink
<1>4. guard' = Nothing
  BY <1>1 DEF Unlink, End
<1>5. ASSUME NEW d \in Ops PROVE req'[d].at \notin Inside
  BY <1>1, <1>3 DEF IInv, GuardInv, Moves, Inside
<1>6. Shape'
  BY <1>1, <1>3, <1>4 DEF Unlink, Shape, Moves, log
<1>7. GuardInv' /\ PairInv'
  BY <1>2, <1>4, <1>5 DEF GuardInv, PairInv, StepInv, Inside, Restoring, Committing, Unlink
<1> QED
  BY <1>6, <1>7 DEF IInv

-----------------------------------------------------------------------------
(* Deciding what to do, and the graph.                                     *)
LEMMA EntryFacts ==
  ASSUME Shape, NEW o \in Ops, NEW status \in RunStatuses, NEW event \in LogEvents \cup {Nothing},
         NEW n \in Nat
  PROVE  /\ Entry([status |-> status, author |-> o], event, n) \in JournalEntries
         /\ Entry(InitialProjection, event, n) \in JournalEntries
  BY DEF Entry, JournalEntries, Projections, InitialProjection, RunStatuses

LEMMA EventFacts ==
  /\ Amended \in LogEvents /\ Branched \in LogEvents
  /\ \A n \in Nat : Event("graph", n) \in LogEvents /\ Event("failure", n) \in LogEvents
  BY DEF Amended, Branched, Event, LogEvents

LEMMA SequenceFacts == ASSUME Shape PROVE NextSequence \in Nat
  BY DEF Shape, NextSequence

LEMMA AdmitIInv == ASSUME IInv, NEW o \in Ops, Admit(o) PROVE IInv'
<1>1. Shape /\ UNCHANGED projections /\ events' \in Seq(LogEvents)
  BY DEF Admit, log, IInv, Shape
<1>2. CASE Read(o, "step") /\ UNCHANGED locks
  BY <1>1, <1>2, ReadFacts, PointFacts, StepOutside DEF Purposes, locks
<1>3. CASE /\ ReadToCommit(o, "recovery", Entry([status |-> "open", author |-> o], Nothing, 0))
           /\ UNCHANGED locks
  <2>1. Entry([status |-> "open", author |-> o], Nothing, 0) \in JournalEntries
    BY <1>1, EntryFacts DEF RunStatuses
  <2>2. Moves(o, "read")
    BY <1>1, <1>3, <2>1, DraftFacts DEF Purposes
  <2> QED
    BY <1>1, <1>3, <2>2, PointFacts, StepOutside DEF locks
<1>4. CASE /\ ReadToCommit(o, "reconcile", Entry([status |-> "stopped", author |-> o], Nothing, 0))
           /\ UNCHANGED locks
  <2>1. Entry([status |-> "stopped", author |-> o], Nothing, 0) \in JournalEntries
    BY <1>1, EntryFacts DEF RunStatuses
  <2>2. Moves(o, "read")
    BY <1>1, <1>4, <2>1, DraftFacts DEF Purposes
  <2> QED
    BY <1>1, <1>4, <2>2, PointFacts, StepOutside DEF locks
<1>5. CASE End(o, "done")
  BY <1>1, <1>5, EndFacts, LeavesIInv DEF Ended
<1> QED
  BY <1>2, <1>3, <1>4, <1>5 DEF Admit

(* A request is at the emission of an event it has made up.                *)
LEMMA EmitFacts ==
  ASSUME Shape, NEW o \in Ops, NEW entry \in JournalEntries,
         req' = [req EXCEPT ![o].at = "emit", ![o].draft = entry]
  PROVE  Moves(o, "emit")
  BY PointFacts DEF Shape, Moves, ShapeOfRequests

(* Outside the guard, it is free or another's.                             *)
LEMMA OutsideFacts ==
  ASSUME IInv, NEW o \in Ops, req[o].at \notin Inside \cup {"read"}
  PROVE  guard # o
  BY OpsAssumption DEF IInv, GuardInv, Inside

LEMMA NextGraphEventIInv ==
  ASSUME IInv, NEW o \in Ops, NEW g \in GraphEvents, NextGraphEvent(o, g) PROVE IInv'
<1>1. Shape /\ UNCHANGED projections /\ events' \in Seq(LogEvents)
  BY DEF NextGraphEvent, log, IInv, Shape
<1>2. CASE Raise(o)
  BY <1>1, <1>2, RaiseFacts, LeavesIInv
<1>3. CASE /\ req' = [req EXCEPT ![o].at = "emit",
                                 ![o].draft = Entry(InitialProjection, Event("graph", g), NextSequence)]
           /\ UNCHANGED locks
  <2>1. Entry(InitialProjection, Event("graph", g), NextSequence) \in JournalEntries
    BY <1>1, GraphEventsAssumption, EntryFacts, EventFacts, SequenceFacts DEF RunStatuses
  <2>2. Moves(o, "emit")
    BY <1>1, <1>3, <2>1, EmitFacts
  <2>3. guard # o
    BY OutsideFacts, PointFacts DEF NextGraphEvent, At
  <2> QED
    BY <1>1, <1>3, <2>2, <2>3, PointFacts, StepOutside DEF locks
<1> QED
  BY <1>2, <1>3 DEF NextGraphEvent

LEMMA EmitIInv == ASSUME IInv, NEW o \in Ops, Emit(o) PROVE IInv'
<1> DEFINE after == IF o \in Steppers THEN "working" ELSE "done"
<1>1. Shape /\ UNCHANGED projections /\ guard # o
  BY OutsideFacts, PointFacts DEF Emit, At, IInv
<1>2. req[o].draft.event \in LogEvents \cup {Nothing}
  BY <1>1 DEF Shape, ShapeOfRequests, JournalEntries
<1>3. after \in Points \ Inside
  BY PointFacts
<1>4. AppendOnce(o, req[o].draft.event, req[o].draft.sequence, after)
  BY DEF Emit
<1> HIDE DEF after
<1>5. /\ events' \in Seq(LogEvents)
      /\ (Moves(o, after) /\ UNCHANGED locks) \/ Leaves(o)
  BY <1>1, <1>2, <1>3, <1>4, AppendFacts
<1> QED
  BY <1>1, <1>3, <1>5, StepOutside, LeavesIInv DEF locks

LEMMA GraphEndsIInv ==
  ASSUME IInv, NEW o \in Ops, NEW status \in {"open", "stopped"}, GraphEnds(o, status) PROVE IInv'
<1>1. Shape /\ UNCHANGED projections /\ events' \in Seq(LogEvents)
  BY DEF GraphEnds, log, IInv, Shape
<1>2. Entry([status |-> status, author |-> o], Nothing, 0) \in JournalEntries
  BY <1>1, EntryFacts DEF RunStatuses
<1>3. Moves(o, "read")
  BY <1>1, <1>2, DraftFacts DEF GraphEnds, Purposes
<1> QED
  BY <1>1, <1>3, PointFacts, StepOutside DEF GraphEnds, locks

LEMMA GraphFailsIInv == ASSUME IInv, NEW o \in Ops, GraphFails(o) PROVE IInv'
<1>1. Moves(o, "failing") /\ guard # o
  BY PointFacts, GotoFacts, OutsideFacts DEF GraphFails, At, IInv
<1> QED
  BY <1>1, PointFacts, StepOutside DEF GraphFails, IInv, Shape, log, locks

LEMMA FailIInv ==
  ASSUME IInv, NEW o \in Ops, NEW status \in {"open", "stopped"}, Fail(o, status) PROVE IInv'
<1> DEFINE entry == Entry([status |-> status, author |-> o], Event("failure", NextSequence), NextSequence)
<1>1. Shape /\ UNCHANGED projections /\ events' \in Seq(LogEvents)
  BY DEF Fail, log, IInv, Shape
<1>2. CASE End(o, "done")
  BY <1>1, <1>2, EndFacts, LeavesIInv DEF Ended
<1>3. CASE ReadToCommit(o, "failure", entry) /\ UNCHANGED locks
  <2>1. entry \in JournalEntries
    BY <1>1, EntryFacts, EventFacts, SequenceFacts DEF RunStatuses
  <2>2. Moves(o, "read")
    BY <1>1, <1>3, <2>1, DraftFacts DEF Purposes
  <2> QED
    BY <1>1, <1>3, <2>2, PointFacts, StepOutside DEF locks
<1> QED
  BY <1>2, <1>3 DEF Fail

LEMMA ApplyIInv == ASSUME IInv, NEW o \in Ops, Apply(o) PROVE IInv'
<1> DEFINE entry == Entry([status |-> "needs_action", author |-> o], Amended, NextSequence)
<1>1. Shape /\ UNCHANGED projections /\ events' \in Seq(LogEvents)
  BY DEF Apply, log, IInv, Shape
<1>2. CASE End(o, "done") \/ End(o, "applied")
  BY <1>1, <1>2, EndFacts, LeavesIInv DEF Ended
<1>3. CASE ReadToCommit(o, "amend", entry) /\ UNCHANGED locks
  <2>1. entry \in JournalEntries
    BY <1>1, EntryFacts, EventFacts, SequenceFacts DEF RunStatuses
  <2>2. Moves(o, "read")
    BY <1>1, <1>3, <2>1, DraftFacts DEF Purposes
  <2> QED
    BY <1>1, <1>3, <2>2, PointFacts, StepOutside DEF locks
<1> QED
  BY <1>2, <1>3 DEF Apply

LEMMA BranchIInv == ASSUME IInv, NEW o \in Ops, Branch(o) PROVE IInv'
<1> DEFINE entry == Entry(InitialProjection, Branched, NextSequence)
<1>1. Shape /\ UNCHANGED projections /\ events' \in Seq(LogEvents) /\ guard # o
  BY OutsideFacts, PointFacts DEF Branch, log, At, IInv, Shape
<1>2. CASE End(o, "done")
  BY <1>1, <1>2, EndFacts, LeavesIInv DEF Ended
<1>3. CASE req' = [req EXCEPT ![o].at = "emit", ![o].draft = entry] /\ UNCHANGED locks
  <2>1. entry \in JournalEntries
    BY <1>1, EntryFacts, EventFacts, SequenceFacts DEF RunStatuses
  <2>2. Moves(o, "emit")
    BY <1>1, <1>3, <2>1, EmitFacts
  <2> QED
    BY <1>1, <1>3, <2>2, PointFacts, StepOutside DEF locks
<1> QED
  BY <1>2, <1>3 DEF Branch

-----------------------------------------------------------------------------
(* Failures.                                                               *)
LEMMA DiskFailsIInv == ASSUME IInv, NEW o \in Ops, DiskFails(o) PROVE IInv'
  BY RaiseFacts, LeavesIInv DEF DiskFails, IInv, Shape

LEMMA CrashIInv == ASSUME IInv, NEW o \in Ops, Crash(o) PROVE IInv'
<1> DEFINE dead == IF OneProcess THEN {d \in Ops : Live(d)} ELSE {o}
<1>1. /\ req' = [d \in Ops |-> IF d \in dead THEN AtPoint("done") ELSE req[d]]
      /\ guard' = IF guard \in dead THEN Nothing ELSE guard
      /\ UNCHANGED <<projections, events>>
  BY DEF Crash
<1> HIDE DEF dead
<1>2. AtPoint("done") \in ShapeOfRequests /\ AtPoint("done").at = "done" /\ "done" \in Points \ Inside
  BY RestFacts, PointFacts
<1>3. Shape'
  BY <1>1, <1>2 DEF IInv, Shape, projections
<1>4. GuardInv'
  <2>1. ASSUME NEW d \in Ops, req'[d].at \in Inside PROVE guard' = d
    <3>1. d \notin dead /\ req'[d] = req[d]
      BY <1>1, <1>2, <2>1
    <3> QED
      BY <1>1, <2>1, <3>1 DEF IInv, GuardInv, Inside
  <2>2. ASSUME guard' # Nothing PROVE req'[guard'].at \in Inside \cup {"read"}
    <3>1. guard \notin dead /\ guard' = guard /\ guard \in Ops
      BY <1>1, <2>2 DEF IInv, Shape
    <3> QED
      BY <1>1, <2>2, <3>1 DEF IInv, GuardInv, Inside
  <2> QED
    BY <2>1, <2>2 DEF GuardInv, Inside
<1>5. PairInv'
  <2>1. ASSUME NEW d \in Ops PROVE StepInv(d)'
    <3>1. CASE d \in dead
      BY <1>1, <1>2, <3>1 DEF StepInv, Inside, Restoring, Committing
    <3>2. CASE d \notin dead
      BY <1>1, <3>2 DEF IInv, PairInv, StepInv, projections
    <3> QED
      BY <3>1, <3>2
  <2> QED
    BY <1>1, <2>1 DEF IInv, PairInv, projections
<1> QED
  BY <1>3, <1>4, <1>5 DEF IInv

LEMMA StutterIInv == ASSUME IInv, UNCHANGED vars PROVE IInv'
<1>1. Shape' /\ GuardInv'
  BY DEF IInv, Shape, GuardInv, vars, projections, log, locks
<1>2. PairInv'
  BY DEF IInv, PairInv, StepInv, vars, projections
<1> QED
  BY <1>1, <1>2 DEF IInv

LEMMA InitIInv == Init => IInv
<1> SUFFICES ASSUME Init PROVE IInv
  OBVIOUS
<1> USE DEF Init
<1>1. AtPoint("idle") \in ShapeOfRequests /\ AtPoint("idle").at = "idle" /\ "idle" \in Points \ Inside
  BY RestFacts, PointFacts
<1>2. InitialProjection \in Projections
  BY DEF InitialProjection, Projections, RunStatuses
<1>3. Shape
  BY <1>1, <1>2 DEF Shape
<1>4. GuardInv /\ PairInv
  BY <1>1 DEF GuardInv, PairInv, StepInv, Inside, Restoring, Committing
<1> QED
  BY <1>3, <1>4 DEF IInv

LEMMA NextIInv == ASSUME IInv, [Next]_vars PROVE IInv'
<1>1. ASSUME NEW o \in Ops, Advance(o) PROVE IInv'
  BY <1>1, BeginIInv, ReadFilesIInv, RecoverIInv, RestoreStateIInv, RestoreReadModelIInv, RestoreEventIInv,
     RestoreEndIInv, WriteJournalIInv, ReplaceStateIInv, ReplaceReadModelIInv, AppendEventIInv, UnlinkIInv,
     AdmitIInv, NextGraphEventIInv, EmitIInv, GraphEndsIInv, FailIInv, GraphFailsIInv, ApplyIInv,
     BranchIInv, DiskFailsIInv
  DEF Advance
<1>2. CASE UNCHANGED vars
  BY <1>2, StutterIInv
<1> QED
  BY <1>1, <1>2, CrashIInv DEF Next

(* The inductive invariant of the Run's files holds in every state,        *)
(* whether the requests share a process or not.                            *)
THEOREM Invariance == Spec => []IInv
  BY InitIInv, NextIInv, PTL DEF Spec

(* RecordIsPaired: wherever a commit, a recovery or an append dies, nobody *)
(* ever finds a torn pair without the journal that completes it.           *)
THEOREM RecordStaysPaired == Spec => []RecordIsPaired
<1>1. IInv => RecordIsPaired
  BY DEF IInv, PairInv, RecordIsPaired
<1> QED
  BY <1>1, Invariance, PTL

-----------------------------------------------------------------------------
(* What requests, journal and log hold, whoever else is at work.           *)
Stopping == {"recovery", "result", "failure", "reconcile"}

(* What a request is about, and where that takes it.                       *)
PlaceInv(o) ==
  LET at == req[o].at
      why == req[o].purpose
  IN  /\ why = "none" => ~Live(o)
      /\ ~Live(o) => why = "none" \/ (why = "branch" /\ at = "done")
      /\ why \in {"start", "recovered", "step"} \cup Stopping => o \in Steppers
      /\ why \in {"apply", "amend"} => o \in Applies
      /\ why = "branch" => o \in Branches
      /\ why = "look" => o \in Readers
      /\ why \in {"start", "apply"} => at \in {"read", "decide"} \cup Restoring
      /\ why = "branch" => at \in {"read", "decide", "emit", "done"} \cup Restoring
      /\ why \in {"look", "recovered"} => at \in {"read"} \cup Restoring
      /\ why = "step" => at \in {"read", "working", "emit", "failing"} \cup Restoring
      /\ why \in {"recovery", "reconcile", "failure", "amend"} =>
           at \in {"read"} \cup Restoring \cup Committing
      /\ why = "result" => at \in {"read", "failing"} \cup Restoring \cup Committing

(* What it may write.                                                      *)
DraftInv(o) ==
  LET why == req[o].purpose
      draft == req[o].draft
  IN  /\ why \in {"recovery", "result", "reconcile"} => draft.event = Nothing
      /\ why = "failure" => draft.event = Event("failure", draft.sequence)
      /\ why = "amend" => draft.event = Amended /\ draft.projection.status = "needs_action"
      /\ why \in Stopping => draft.projection.status # "needs_action"
      /\ why = "recovery" => draft.projection.status = "open"
      /\ why = "step" /\ At(o, "emit") => draft.event \in {Event("graph", g) : g \in GraphEvents}
      /\ why = "branch" /\ At(o, "emit") => draft.event = Branched

(* What it knows of the journal and the log while it holds the guard.      *)
HeldInv(o) ==
  /\ At(o, "journal") => journal = Nothing
  /\ At(o, "unlink") => req[o].draft.event = Nothing \/ Logged(req[o].draft.event)
  /\ At(o, "restoreEnd") => journal.event = Nothing \/ Logged(journal.event)

OwnInv(o) == PlaceInv(o) /\ DraftInv(o) /\ HeldInv(o)

(* Only amendments and failures go through a journal; a failure is where   *)
(* its number says.                                                        *)
LogInv ==
  /\ journal # Nothing => journal.event \in {Nothing, Amended, Event("failure", journal.sequence)}
  /\ \A i \in DOMAIN events : events[i].kind = "failure" => events[i].n = i

ContentInv == (\A o \in Ops : OwnInv(o)) /\ LogInv

(* The log grows at most by an event.                                      *)
Grows == events' = events \/ \E e \in LogEvents : events' = Append(events, e)

LEMMA LoggedStays ==
  ASSUME Shape, Grows PROVE \A e : Logged(e) => Logged(e)'
<1> SUFFICES ASSUME NEW e, Logged(e) PROVE Logged(e)'
  OBVIOUS
<1>1. PICK i \in DOMAIN events : events[i] = e
  BY DEF Logged
<1>2. i \in DOMAIN events' /\ events'[i] = e
  BY <1>1 DEF Shape, Grows
<1> QED
  BY <1>2 DEF Logged

(* The others keep what they know: whoever knows of the journal is alone   *)
(* in the guard.                                                           *)
LEMMA ContentStep ==
  ASSUME IInv, ContentInv, NEW o \in Ops, \A d \in Ops \ {o} : req'[d] = req[d],
         journal' = journal \/ req[o].at \in Inside, Grows, OwnInv(o)', LogInv'
  PROVE  ContentInv'
<1>1. ASSUME NEW d \in Ops \ {o} PROVE OwnInv(d)'
  <2>1. req'[d] = req[d] /\ OwnInv(d)
    BY DEF ContentInv
  <2>2. PlaceInv(d)' /\ DraftInv(d)'
    BY <2>1 DEF OwnInv, PlaceInv, DraftInv, At, Live
  <2>3. req[d].at \in {"journal", "restoreEnd"} => journal' = journal
    BY DEF IInv, GuardInv, Inside, Restoring, Committing
  <2>4. \A e : Logged(e) => Logged(e)'
    BY LoggedStays DEF IInv
  <2>5. HeldInv(d)'
    BY <2>1, <2>3, <2>4 DEF OwnInv, HeldInv, At
  <2> QED
    BY <2>2, <2>5 DEF OwnInv
<1> QED
  BY <1>1 DEF ContentInv

LEMMA QuietContent ==
  ASSUME IInv, ContentInv, NEW o \in Ops, \A d \in Ops \ {o} : req'[d] = req[d],
         UNCHANGED <<journal, events>>, OwnInv(o)'
  PROVE  ContentInv'
<1>1. LogInv' /\ Grows
  BY DEF ContentInv, LogInv, Grows
<1> QED
  BY <1>1, ContentStep

-----------------------------------------------------------------------------
(* How a request moves.                                                    *)
LEMMA GotoOwn ==
  ASSUME Shape, NEW o \in Ops, NEW point \in Points, Goto(o, point)
  PROVE  /\ req'[o].at = point /\ req'[o].purpose = req[o].purpose
         /\ req'[o].draft = req[o].draft /\ req'[o].basis = req[o].basis
         /\ \A d \in Ops \ {o} : req'[d] = req[d]
  BY DEF Goto, Shape, ShapeOfRequests

LEMMA ReadOwn ==
  ASSUME Shape, NEW o \in Ops, NEW why, Read(o, why)
  PROVE  /\ req'[o].at = "read" /\ req'[o].purpose = why
         /\ req'[o].draft = req[o].draft /\ req'[o].basis = req[o].basis
         /\ \A d \in Ops \ {o} : req'[d] = req[d]
  BY DEF Read, Shape, ShapeOfRequests

LEMMA DraftOwn ==
  ASSUME Shape, NEW o \in Ops, NEW why, NEW entry, ReadToCommit(o, why, entry)
  PROVE  /\ req'[o].at = "read" /\ req'[o].purpose = why
         /\ req'[o].draft = entry /\ req'[o].basis = req[o].basis
         /\ \A d \in Ops \ {o} : req'[d] = req[d]
  BY DEF ReadToCommit, Shape, ShapeOfRequests

LEMMA EndOwn ==
  ASSUME Shape, NEW o \in Ops, NEW point \in Ended, End(o, point)
  PROVE  /\ req'[o] = AtPoint(point) /\ req'[o].at = point /\ req'[o].purpose = "none"
         /\ ~Live(o)' /\ \A d \in Ops \ {o} : req'[d] = req[d]
<1>1. req'[o] = AtPoint(point) /\ \A d \in Ops \ {o} : req'[d] = req[d]
  BY DEF End, Shape
<1>2. req'[o].at = point /\ req'[o].purpose = "none" /\ point \in {"done", "applied"}
  BY <1>1 DEF AtPoint, Ended
<1> QED
  BY <1>1, <1>2 DEF Live, At, Ended

LEMMA EndContent ==
  ASSUME Shape, NEW o \in Ops, NEW point \in Ended, End(o, point)
  PROVE  OwnInv(o)' /\ \A d \in Ops \ {o} : req'[d] = req[d]
<1>1. /\ req'[o].at = point /\ req'[o].purpose = "none" /\ ~Live(o)'
      /\ \A d \in Ops \ {o} : req'[d] = req[d]
  BY EndOwn
<1>2. PlaceInv(o)' /\ DraftInv(o)' /\ HeldInv(o)'
  BY <1>1 DEF PlaceInv, DraftInv, HeldInv, Stopping, At, Ended
<1> QED
  BY <1>1, <1>2 DEF OwnInv

LEMMA RaiseContent ==
  ASSUME Shape, NEW o \in Ops, OwnInv(o), Raise(o)
  PROVE  OwnInv(o)' /\ \A d \in Ops \ {o} : req'[d] = req[d]
<1>1. CASE End(o, "done")
  BY <1>1, EndContent DEF Ended
<1>2. CASE req[o].purpose \in {"step", "result"} /\ Goto(o, "failing")
  <2>1. /\ req'[o].at = "failing" /\ req'[o].purpose = req[o].purpose
        /\ req'[o].draft = req[o].draft
        /\ \A d \in Ops \ {o} : req'[d] = req[d]
    BY <1>2, PointFacts, GotoOwn
  <2>2. Live(o)'
    BY <2>1 DEF Live, At, Ended
  <2>3. PlaceInv(o)' /\ DraftInv(o)' /\ HeldInv(o)'
    BY <1>2, <2>1, <2>2 DEF OwnInv, PlaceInv, DraftInv, HeldInv, Stopping, At
  <2> QED
    BY <2>1, <2>3 DEF OwnInv
<1> QED
  BY <1>1, <1>2 DEF Raise

LEMMA QuietEndContent ==
  ASSUME IInv, ContentInv, NEW o \in Ops, NEW point \in Ended, End(o, point), UNCHANGED <<journal, events>>
  PROVE  ContentInv'
  BY EndContent, QuietContent DEF IInv

LEMMA QuietRaiseContent ==
  ASSUME IInv, ContentInv, NEW o \in Ops, Raise(o), UNCHANGED <<journal, events>>
  PROVE  ContentInv'
  BY RaiseContent, QuietContent DEF IInv, ContentInv

-----------------------------------------------------------------------------
(* The actions, one by one.                                                *)
LEMMA BeginContent ==
  ASSUME IInv, ContentInv, NEW o \in Ops, Start(o) \/ Request(o) PROVE ContentInv'
<1>1. Shape /\ UNCHANGED <<journal, events>>
  BY DEF IInv, Start, Request, projections, log
<1>2. ASSUME NEW why \in {"start", "apply", "branch", "look"}, Read(o, why),
             why = "start" => o \in Steppers, why = "apply" => o \in Applies,
             why = "branch" => o \in Branches, why = "look" => o \in Readers
      PROVE  ContentInv'
  <2>1. /\ req'[o].at = "read" /\ req'[o].purpose = why
        /\ \A d \in Ops \ {o} : req'[d] = req[d]
    BY <1>1, <1>2, ReadOwn
  <2>2. OwnInv(o)'
    BY <1>2, <2>1 DEF OwnInv, PlaceInv, DraftInv, HeldInv, Stopping, Live, At, Ended
  <2> QED
    BY <1>1, <2>1, <2>2, QuietContent
<1>3. CASE End(o, "applied")
  BY <1>1, <1>3, QuietEndContent DEF Ended
<1> QED
  BY <1>2, <1>3 DEF Start, Request

LEMMA ReadFilesContent == ASSUME IInv, ContentInv, NEW o \in Ops, ReadFiles(o) PROVE ContentInv'
<1>1. /\ Shape /\ UNCHANGED <<journal, events>> /\ journal = Nothing
      /\ req[o].at = "read" /\ Live(o) /\ OwnInv(o)
  BY DEF ReadFiles, At, Live, Ended, IInv, ContentInv, projections, log
<1>2. CASE req[o].purpose \in Commits /\ Goto(o, "journal")
  <2>1. /\ req'[o].at = "journal" /\ req'[o].purpose = req[o].purpose /\ req'[o].draft = req[o].draft
        /\ \A d \in Ops \ {o} : req'[d] = req[d]
    BY <1>1, <1>2, PointFacts, GotoOwn DEF Inside, Committing
  <2>2. OwnInv(o)'
    BY <1>1, <1>2, <2>1 DEF OwnInv, PlaceInv, DraftInv, HeldInv, Stopping, Commits, Committing, Live, At, Ended
  <2> QED
    BY <1>1, <2>1, <2>2, QuietContent
<1>3. CASE /\ req[o].purpose \in {"start", "apply", "branch"}
           /\ req' = [req EXCEPT ![o].at = "decide", ![o].basis = state.status]
  <2>1. /\ req'[o].at = "decide" /\ req'[o].purpose = req[o].purpose
        /\ \A d \in Ops \ {o} : req'[d] = req[d]
    BY <1>1, <1>3 DEF Shape, ShapeOfRequests
  <2>2. OwnInv(o)'
    BY <1>1, <1>3, <2>1 DEF OwnInv, PlaceInv, DraftInv, HeldInv, Stopping, Live, At, Ended
  <2> QED
    BY <1>1, <2>1, <2>2, QuietContent
<1>4. CASE /\ req[o].purpose = "recovered"
           /\ req' = [req EXCEPT ![o].purpose = "step", ![o].basis = state.status]
  <2>1. /\ req'[o].at = "read" /\ req'[o].purpose = "step"
        /\ \A d \in Ops \ {o} : req'[d] = req[d]
    BY <1>1, <1>4 DEF Shape, ShapeOfRequests
  <2>2. OwnInv(o)'
    BY <1>1, <1>4, <2>1 DEF OwnInv, PlaceInv, DraftInv, HeldInv, Stopping, Live, At, Ended
  <2> QED
    BY <1>1, <2>1, <2>2, QuietContent
<1>5. CASE /\ req[o].purpose = "step"
           /\ Goto(o, IF state.status = "needs_action" THEN "failing" ELSE "working")
  <2>1. PICK point \in {"failing", "working"} : Goto(o, point)
    BY <1>5
  <2>2. /\ req'[o].at = point /\ req'[o].purpose = "step"
        /\ \A d \in Ops \ {o} : req'[d] = req[d]
    BY <1>1, <1>5, <2>1, PointFacts, GotoOwn
  <2>3. OwnInv(o)'
    BY <1>1, <1>5, <2>2 DEF OwnInv, PlaceInv, DraftInv, HeldInv, Stopping, Live, At, Ended
  <2> QED
    BY <1>1, <2>2, <2>3, QuietContent
<1>6. CASE End(o, "done")
  BY <1>1, <1>6, QuietEndContent DEF Ended
<1> QED
  BY <1>2, <1>3, <1>4, <1>5, <1>6 DEF ReadFiles, AfterRead

(* From step to step of a recovery, or of a commit.                        *)
LEMMA RestoringContent ==
  ASSUME IInv, ContentInv, NEW o \in Ops, req[o].at \in {"read"} \cup Restoring,
         NEW point \in {"read"} \cup Restoring, Goto(o, point),
         point = "restoreEnd" => journal'.event = Nothing \/ Logged(journal.event)'
  PROVE  OwnInv(o)' /\ \A d \in Ops \ {o} : req'[d] = req[d]
<1>1. OwnInv(o) /\ Shape /\ Live(o)
  BY DEF ContentInv, IInv, Live, At, Ended, Restoring
<1>2. /\ req'[o].at = point /\ req'[o].purpose = req[o].purpose
      /\ req'[o].draft = req[o].draft
      /\ \A d \in Ops \ {o} : req'[d] = req[d]
  BY <1>1, PointFacts, GotoOwn DEF Inside
<1>3. Live(o)'
  BY <1>2 DEF Live, At, Ended, Restoring
<1>4. PlaceInv(o)'
  BY <1>1, <1>2, <1>3 DEF OwnInv, PlaceInv, Stopping, Restoring, Committing
<1>5. DraftInv(o)' /\ HeldInv(o)'
  BY <1>1, <1>2 DEF OwnInv, DraftInv, HeldInv, At, Restoring
<1> QED
  BY <1>2, <1>4, <1>5 DEF OwnInv

LEMMA CommittingContent ==
  ASSUME IInv, ContentInv, NEW o \in Ops, req[o].at \in Committing,
         NEW point \in Committing \ {"journal"}, Goto(o, point),
         point = "unlink" => req[o].draft.event = Nothing \/ Logged(req[o].draft.event)'
  PROVE  OwnInv(o)' /\ \A d \in Ops \ {o} : req'[d] = req[d]
<1>1. OwnInv(o) /\ Shape /\ Live(o)
  BY DEF ContentInv, IInv, Live, At, Ended, Committing
<1>2. /\ req'[o].at = point /\ req'[o].purpose = req[o].purpose
      /\ req'[o].draft = req[o].draft
      /\ \A d \in Ops \ {o} : req'[d] = req[d]
  BY <1>1, PointFacts, GotoOwn DEF Inside
<1>3. Live(o)' /\ req[o].purpose \in Purposes
  BY <1>1, <1>2 DEF Live, At, Ended, Committing, Shape, ShapeOfRequests
<1>4. PlaceInv(o)'
  BY <1>1, <1>2, <1>3 DEF OwnInv, PlaceInv, Stopping, Restoring, Committing
<1>5. DraftInv(o)'
  BY <1>1, <1>2 DEF OwnInv, DraftInv, At, Committing
<1>6. HeldInv(o)'
  BY <1>1, <1>2 DEF OwnInv, HeldInv, At, Committing, Logged
<1> QED
  BY <1>2, <1>4, <1>5, <1>6 DEF OwnInv

LEMMA RestoreFilesContent ==
  ASSUME IInv, ContentInv, NEW o \in Ops, Recover(o) \/ RestoreState(o) \/ RestoreReadModel(o)
  PROVE  ContentInv'
<1>1. req[o].at \in {"read"} \cup Restoring /\ UNCHANGED <<journal, events>>
  BY DEF Recover, RestoreState, RestoreReadModel, At, Restoring, projections, log
<1>2. PICK point \in Restoring \ {"restoreEnd"} : Goto(o, point)
  BY DEF Recover, RestoreState, RestoreReadModel, Restoring
<1> QED
  BY <1>1, <1>2, RestoringContent, QuietContent

LEMMA RestoreEndContent == ASSUME IInv, ContentInv, NEW o \in Ops, RestoreEnd(o) PROVE ContentInv'
<1>1. req[o].at \in Restoring /\ req[o].at \in Inside /\ journal' = Nothing /\ events' = events
  BY DEF RestoreEnd, At, Restoring, Inside, log
<1>2. OwnInv(o)' /\ \A d \in Ops \ {o} : req'[d] = req[d]
  BY <1>1, RestoringContent DEF RestoreEnd
<1>3. LogInv' /\ Grows
  BY <1>1 DEF ContentInv, LogInv, Grows
<1> QED
  BY <1>1, <1>2, <1>3, ContentStep

(* Appending the event of the journal.                                     *)
LEMMA AppendJournalEvent ==
  ASSUME IInv, ContentInv, journal # Nothing, journal' = journal,
         Fresh(journal.event, journal.sequence), events' = Append(events, journal.event)
  PROVE  Grows /\ LogInv' /\ Logged(journal.event)' /\ Placed(journal.event, journal.sequence)'
<1>1. /\ journal.event \in LogEvents /\ events \in Seq(LogEvents)
      /\ journal.sequence = Len(events) + 1
      /\ journal.event \in {Amended, Event("failure", journal.sequence)}
  BY DEF Fresh, IInv, Shape, JournalEntries, NextSequence, ContentInv, LogInv
<1>2. /\ DOMAIN events' = 1 .. Len(events) + 1 /\ events'[Len(events) + 1] = journal.event
      /\ \A i \in DOMAIN events : events'[i] = events[i]
      /\ DOMAIN events = 1 .. Len(events) /\ Len(events) \in Nat
  BY <1>1
<1>3. Len(events) + 1 \in DOMAIN events'
  BY <1>2
<1>4. Logged(journal.event)' /\ Placed(journal.event, journal.sequence)' /\ Grows
  BY <1>1, <1>2, <1>3 DEF Logged, Placed, Grows
<1>5. ASSUME NEW i \in DOMAIN events', events'[i].kind = "failure" PROVE events'[i].n = i
  <2>1. CASE i \in DOMAIN events
    BY <1>2, <1>5, <2>1 DEF ContentInv, LogInv
  <2>2. CASE i = Len(events) + 1
    BY <1>1, <1>2, <1>5, <2>2 DEF Amended, Event
  <2> QED
    BY <1>2, <2>1, <2>2
<1>6. LogInv'
  BY <1>5 DEF ContentInv, LogInv
<1> QED
  BY <1>4, <1>6

LEMMA PlacedIsLogged == \A e, n : Placed(e, n) => Logged(e)
  BY DEF Placed, Logged

LEMMA RestoreEventContent == ASSUME IInv, ContentInv, NEW o \in Ops, RestoreEvent(o) PROVE ContentInv'
<1>1. /\ req[o].at \in Restoring /\ journal # Nothing /\ journal' = journal
      /\ AppendOnce(o, journal.event, journal.sequence, "restoreEnd")
  BY DEF RestoreEvent, At, Restoring, IInv, PairInv, StepInv, projections
<1>2. CASE /\ journal.event = Nothing \/ Placed(journal.event, journal.sequence)
           /\ events' = events /\ Goto(o, "restoreEnd")
  <2>1. journal'.event = Nothing \/ Logged(journal.event)'
    BY <1>1, <1>2, PlacedIsLogged DEF Logged
  <2> QED
    BY <1>1, <1>2, <2>1, RestoringContent, QuietContent DEF Restoring
<1>3. CASE /\ Fresh(journal.event, journal.sequence)
           /\ events' = Append(events, journal.event) /\ Goto(o, "restoreEnd")
  <2>1. Grows /\ LogInv' /\ Logged(journal.event)'
    BY <1>1, <1>3, AppendJournalEvent
  <2>2. OwnInv(o)' /\ \A d \in Ops \ {o} : req'[d] = req[d]
    BY <1>1, <1>3, <2>1, RestoringContent DEF Restoring
  <2> QED
    BY <1>1, <2>1, <2>2, ContentStep
<1>4. CASE events' = events /\ Raise(o)
  BY <1>1, <1>4, QuietRaiseContent
<1> QED
  BY <1>1, <1>2, <1>3, <1>4 DEF AppendOnce

(* Whoever commits has a commit for a purpose.                             *)
LEMMA CommitterOwn ==
  ASSUME IInv, ContentInv, NEW o \in Ops, req[o].at \in Committing
  PROVE  /\ req[o].purpose \in Stopping \cup {"amend"} /\ Live(o) /\ OwnInv(o) /\ Shape
         /\ req[o].draft \in JournalEntries /\ req[o].draft # Nothing
         /\ req[o].at = "journal" => journal = Nothing
         /\ req[o].at # "journal" => journal = req[o].draft
<1>1. OwnInv(o) /\ Shape /\ req[o].purpose \in Purposes /\ Live(o) /\ StepInv(o)
  BY DEF ContentInv, IInv, PairInv, Shape, ShapeOfRequests, Live, At, Ended, Committing
<1>2. req[o].purpose \in Stopping \cup {"amend"}
  BY <1>1 DEF OwnInv, PlaceInv, Purposes, Restoring, Committing, Stopping, Live
<1>3. req[o].draft \in JournalEntries /\ req[o].draft # Nothing
  BY <1>1, EntryIsSomething DEF Shape, ShapeOfRequests
<1> QED
  BY <1>1, <1>2, <1>3 DEF OwnInv, HeldInv, StepInv, At

LEMMA WriteJournalContent == ASSUME IInv, ContentInv, NEW o \in Ops, WriteJournal(o) PROVE ContentInv'
<1>1. /\ req[o].at \in Committing /\ req[o].at \in Inside /\ events' = events
      /\ req[o].purpose \in Stopping \cup {"amend"} /\ OwnInv(o)
  BY CommitterOwn DEF WriteJournal, At, Committing, Inside, log
<1>2. CASE journal' = journal /\ Raise(o)
  BY <1>1, <1>2, QuietRaiseContent
<1>3. CASE journal' = req[o].draft /\ Goto(o, "replaceState")
  <2>1. OwnInv(o)' /\ \A d \in Ops \ {o} : req'[d] = req[d]
    BY <1>1, <1>3, CommittingContent DEF Committing
  <2>2. req[o].draft.event \in {Nothing, Amended, Event("failure", req[o].draft.sequence)}
    BY <1>1 DEF OwnInv, DraftInv, Stopping
  <2>3. LogInv' /\ Grows
    BY <1>1, <1>3, <2>2 DEF ContentInv, LogInv, Grows
  <2> QED
    BY <1>1, <2>1, <2>3, ContentStep
<1> QED
  BY <1>2, <1>3 DEF WriteJournal

LEMMA ReplaceContent ==
  ASSUME IInv, ContentInv, NEW o \in Ops, ReplaceState(o) \/ ReplaceReadModel(o) PROVE ContentInv'
<1>1. req[o].at \in Committing /\ UNCHANGED <<journal, events>>
  BY DEF ReplaceState, ReplaceReadModel, At, Committing, log
<1>2. PICK point \in Committing \ {"journal", "unlink"} : Goto(o, point)
  BY DEF ReplaceState, ReplaceReadModel, Committing
<1> QED
  BY <1>1, <1>2, CommittingContent, QuietContent

LEMMA AppendEventContent == ASSUME IInv, ContentInv, NEW o \in Ops, AppendEvent(o) PROVE ContentInv'
<1>1. /\ req[o].at \in Committing /\ journal # Nothing /\ journal' = journal /\ journal = req[o].draft
      /\ AppendOnce(o, journal.event, journal.sequence, "unlink")
  BY CommitterOwn DEF AppendEvent, At, Committing, projections
<1>2. Goto(o, "unlink") => req'[o].draft = req[o].draft
  BY PointFacts, GotoOwn DEF Inside, Committing, IInv
<1>3. CASE /\ journal.event = Nothing \/ Placed(journal.event, journal.sequence)
           /\ events' = events /\ Goto(o, "unlink")
  <2>1. req[o].draft.event = Nothing \/ Logged(req[o].draft.event)'
    BY <1>1, <1>2, <1>3, PlacedIsLogged DEF Logged
  <2> QED
    BY <1>1, <1>3, <2>1, CommittingContent, QuietContent DEF Committing
<1>4. CASE /\ Fresh(journal.event, journal.sequence)
           /\ events' = Append(events, journal.event) /\ Goto(o, "unlink")
  <2>1. Grows /\ LogInv' /\ Logged(journal.event)'
    BY <1>1, <1>4, AppendJournalEvent
  <2>2. Logged(req[o].draft.event)'
    BY <1>1, <1>2, <1>4, <2>1 DEF Logged
  <2>3. OwnInv(o)' /\ \A d \in Ops \ {o} : req'[d] = req[d]
    BY <1>1, <1>4, <2>2, CommittingContent DEF Committing
  <2> QED
    BY <1>1, <2>1, <2>3, ContentStep
<1>5. CASE events' = events /\ Raise(o)
  BY <1>1, <1>5, QuietRaiseContent
<1> QED
  BY <1>1, <1>3, <1>4, <1>5 DEF AppendOnce

LEMMA UnlinkContent == ASSUME IInv, ContentInv, NEW o \in Ops, Unlink(o) PROVE ContentInv'
<1>1. /\ req[o].at \in Committing /\ req[o].at \in Inside /\ Shape /\ OwnInv(o) /\ Live(o)
      /\ journal' = Nothing /\ events' = events
  BY CommitterOwn DEF Unlink, At, Committing, Inside, log
<1>2. LogInv' /\ Grows
  BY <1>1 DEF ContentInv, LogInv, Grows
<1>3. CASE req[o].purpose = "recovery" /\ Read(o, "recovered")
  <2>1. /\ req'[o].at = "read" /\ req'[o].purpose = "recovered"
        /\ \A d \in Ops \ {o} : req'[d] = req[d]
    BY <1>1, <1>3, ReadOwn
  <2>2. OwnInv(o)'
    BY <1>1, <1>3, <2>1 DEF OwnInv, PlaceInv, DraftInv, HeldInv, Stopping, Live, At, Ended
  <2> QED
    BY <1>1, <1>2, <2>1, <2>2, ContentStep
<1>4. CASE \E point \in Ended : End(o, point)
  BY <1>1, <1>2, <1>4, EndContent, ContentStep
<1> QED
  BY <1>3, <1>4 DEF Unlink, Ended

LEMMA AdmitContent == ASSUME IInv, ContentInv, NEW o \in Ops, Admit(o) PROVE ContentInv'
<1>1. /\ Shape /\ UNCHANGED <<journal, events>> /\ OwnInv(o) /\ o \in Steppers
      /\ req[o].at = "decide" /\ req[o].purpose = "start" /\ Live(o)
  BY DEF Admit, IInv, ContentInv, OwnInv, PlaceInv, At, Live, Ended, projections, log
<1>2. CASE Read(o, "step")
  <2>1. /\ req'[o].at = "read" /\ req'[o].purpose = "step"
        /\ \A d \in Ops \ {o} : req'[d] = req[d]
    BY <1>1, <1>2, ReadOwn
  <2>2. OwnInv(o)'
    BY <1>1, <2>1 DEF OwnInv, PlaceInv, DraftInv, HeldInv, Stopping, Live, At, Ended
  <2> QED
    BY <1>1, <2>1, <2>2, QuietContent
<1>3. ASSUME NEW why \in {"recovery", "reconcile"}, NEW status \in {"open", "stopped"},
             why = "recovery" => status = "open",
             ReadToCommit(o, why, Entry([status |-> status, author |-> o], Nothing, 0))
      PROVE  ContentInv'
  <2>1. /\ req'[o].at = "read" /\ req'[o].purpose = why
        /\ req'[o].draft.event = Nothing /\ req'[o].draft.projection.status = status
        /\ \A d \in Ops \ {o} : req'[d] = req[d]
    BY <1>1, <1>3, DraftOwn DEF Entry
  <2>2. OwnInv(o)'
    BY <1>1, <1>3, <2>1 DEF OwnInv, PlaceInv, DraftInv, HeldInv, Stopping, Live, At, Ended
  <2> QED
    BY <1>1, <2>1, <2>2, QuietContent
<1>4. CASE End(o, "done")
  BY <1>1, <1>4, QuietEndContent DEF Ended
<1> QED
  BY <1>2, <1>3, <1>4 DEF Admit

(* Only a step works or fails, only a step or a branch emits.              *)
LEMMA StepperOwn ==
  ASSUME IInv, ContentInv, NEW o \in Ops, req[o].at \in {"working", "failing", "emit"}
  PROVE  /\ Shape /\ OwnInv(o) /\ Live(o)
         /\ req[o].at = "working" => o \in Steppers /\ req[o].purpose = "step"
         /\ req[o].at = "failing" => o \in Steppers /\ req[o].purpose \in {"step", "result"}
         /\ req[o].at = "emit" =>
              /\ \/ o \in Steppers /\ req[o].purpose = "step"
                 \/ o \in Branches /\ o \notin Steppers /\ req[o].purpose = "branch"
              /\ req[o].draft.event \in {Event("graph", g) : g \in GraphEvents} \cup {Branched}
<1>1. Shape /\ OwnInv(o) /\ Live(o) /\ req[o].purpose \in Purposes
  BY DEF IInv, ContentInv, Live, At, Ended, Shape, ShapeOfRequests
<1>2. req[o].purpose \in {"step", "result", "branch"}
  BY <1>1 DEF OwnInv, PlaceInv, Purposes, Stopping, Restoring, Committing
<1> QED
  BY <1>1, <1>2, OpsAssumption DEF OwnInv, PlaceInv, DraftInv, Stopping, Restoring, Committing, At

LEMMA NextGraphEventContent ==
  ASSUME IInv, ContentInv, NEW o \in Ops, NEW g \in GraphEvents, NextGraphEvent(o, g) PROVE ContentInv'
<1>1. /\ Shape /\ OwnInv(o) /\ o \in Steppers /\ Live(o) /\ req[o].purpose = "step"
      /\ UNCHANGED <<journal, events>>
  BY StepperOwn DEF NextGraphEvent, At, projections, log
<1>2. CASE Raise(o)
  BY <1>1, <1>2, QuietRaiseContent
<1>3. CASE req' = [req EXCEPT ![o].at = "emit",
                              ![o].draft = Entry(InitialProjection, Event("graph", g), NextSequence)]
  <2>1. /\ req'[o].at = "emit" /\ req'[o].purpose = "step" /\ req'[o].draft.event = Event("graph", g)
        /\ \A d \in Ops \ {o} : req'[d] = req[d]
    BY <1>1, <1>3 DEF Shape, ShapeOfRequests, Entry
  <2>2. OwnInv(o)'
    BY <1>1, <2>1 DEF OwnInv, PlaceInv, DraftInv, HeldInv, Stopping, Live, At, Ended
  <2> QED
    BY <1>1, <2>1, <2>2, QuietContent
<1> QED
  BY <1>2, <1>3 DEF NextGraphEvent

(* An emitted event is neither an amendment nor a failure.                 *)
LEMMA EmittedFacts ==
  ASSUME NEW e \in {Event("graph", g) : g \in GraphEvents} \cup {Branched}
  PROVE  e \in LogEvents /\ e \in Events /\ e # Amended /\ e # Nothing /\ e.kind \in {"graph", "branched"}
<1>1. e \in LogEvents
  BY EventFacts, GraphEventsAssumption
<1> QED
  BY <1>1, NothingAssumption DEF Events, Event, Amended, Branched

LEMMA EmitContent == ASSUME IInv, ContentInv, NEW o \in Ops, Emit(o) PROVE ContentInv'
<1> DEFINE after == IF o \in Steppers THEN "working" ELSE "done"
<1> PICK e : e = req[o].draft.event
  OBVIOUS
<1>1. /\ Shape /\ OwnInv(o) /\ Live(o) /\ journal' = journal
      /\ \/ o \in Steppers /\ req[o].purpose = "step"
         \/ o \in Branches /\ o \notin Steppers /\ req[o].purpose = "branch"
      /\ e \in {Event("graph", g) : g \in GraphEvents} \cup {Branched}
  BY StepperOwn DEF Emit, At, projections
<1>2. ASSUME Goto(o, after) PROVE OwnInv(o)' /\ \A d \in Ops \ {o} : req'[d] = req[d]
  <2>1. /\ req'[o].at = after /\ req'[o].purpose = req[o].purpose
        /\ \A d \in Ops \ {o} : req'[d] = req[d]
    BY <1>1, <1>2, PointFacts, GotoOwn
  <2>2. OwnInv(o)'
    BY <1>1, <2>1 DEF OwnInv, PlaceInv, DraftInv, HeldInv, Stopping, Live, At, Ended
  <2> QED
    BY <2>1, <2>2
<1>3. CASE events' = events /\ Goto(o, after)
  BY <1>1, <1>2, <1>3, QuietContent
<1>4. CASE events' = Append(events, e) /\ Goto(o, after)
  <2>1. e \in LogEvents /\ e.kind # "failure"
    BY <1>1, EmittedFacts
  <2>2. /\ DOMAIN events' = 1 .. Len(events) + 1 /\ events'[Len(events) + 1] = e
        /\ \A i \in DOMAIN events : events'[i] = events[i]
        /\ DOMAIN events = 1 .. Len(events) /\ Len(events) \in Nat
    BY <1>1, <1>4, <2>1 DEF Shape
  <2>3. Grows
    BY <1>4, <2>1 DEF Grows
  <2>4. ASSUME NEW i \in DOMAIN events', events'[i].kind = "failure" PROVE events'[i].n = i
    BY <2>1, <2>2, <2>4 DEF ContentInv, LogInv
  <2>5. LogInv'
    BY <1>1, <2>4 DEF ContentInv, LogInv
  <2> QED
    BY <1>1, <1>2, <1>4, <2>3, <2>5, ContentStep
<1>5. CASE events' = events /\ Raise(o)
  BY <1>1, <1>5, QuietRaiseContent
<1> QED
  BY <1>3, <1>4, <1>5 DEF Emit, AppendOnce

LEMMA GraphEndsContent ==
  ASSUME IInv, ContentInv, NEW o \in Ops, NEW status \in {"open", "stopped"}, GraphEnds(o, status)
  PROVE  ContentInv'
<1>1. Shape /\ OwnInv(o) /\ o \in Steppers /\ UNCHANGED <<journal, events>>
  BY StepperOwn DEF GraphEnds, At, projections, log
<1>2. /\ req'[o].at = "read" /\ req'[o].purpose = "result"
      /\ req'[o].draft.event = Nothing /\ req'[o].draft.projection.status = status
      /\ \A d \in Ops \ {o} : req'[d] = req[d]
  BY <1>1, DraftOwn DEF GraphEnds, Entry
<1>3. OwnInv(o)'
  BY <1>1, <1>2 DEF OwnInv, PlaceInv, DraftInv, HeldInv, Stopping, Live, At, Ended
<1> QED
  BY <1>1, <1>2, <1>3, QuietContent

LEMMA GraphFailsContent == ASSUME IInv, ContentInv, NEW o \in Ops, GraphFails(o) PROVE ContentInv'
<1>1. Shape /\ OwnInv(o) /\ o \in Steppers /\ req[o].purpose = "step" /\ UNCHANGED <<journal, events>>
  BY StepperOwn DEF GraphFails, At, projections, log
<1>2. /\ req'[o].at = "failing" /\ req'[o].purpose = "step"
      /\ \A d \in Ops \ {o} : req'[d] = req[d]
  BY <1>1, PointFacts, GotoOwn DEF GraphFails
<1>3. OwnInv(o)'
  BY <1>1, <1>2 DEF OwnInv, PlaceInv, DraftInv, HeldInv, Stopping, Live, At, Ended
<1> QED
  BY <1>1, <1>2, <1>3, QuietContent

LEMMA FailContent ==
  ASSUME IInv, ContentInv, NEW o \in Ops, NEW status \in {"open", "stopped"}, Fail(o, status)
  PROVE  ContentInv'
<1>1. Shape /\ OwnInv(o) /\ o \in Steppers /\ UNCHANGED <<journal, events>>
  BY StepperOwn DEF Fail, At, projections, log
<1>2. CASE End(o, "done")
  BY <1>1, <1>2, QuietEndContent DEF Ended
<1>3. CASE ReadToCommit(o, "failure", Entry([status |-> status, author |-> o],
                                            Event("failure", NextSequence), NextSequence))
  <2>1. /\ req'[o].at = "read" /\ req'[o].purpose = "failure"
        /\ req'[o].draft.event = Event("failure", req'[o].draft.sequence)
        /\ req'[o].draft.projection.status = status
        /\ \A d \in Ops \ {o} : req'[d] = req[d]
    BY <1>1, <1>3, DraftOwn DEF Entry
  <2>2. OwnInv(o)'
    BY <1>1, <2>1 DEF OwnInv, PlaceInv, DraftInv, HeldInv, Stopping, Live, At, Ended
  <2> QED
    BY <1>1, <2>1, <2>2, QuietContent
<1> QED
  BY <1>2, <1>3 DEF Fail

LEMMA ApplyContent == ASSUME IInv, ContentInv, NEW o \in Ops, Apply(o) PROVE ContentInv'
<1>1. /\ Shape /\ OwnInv(o) /\ o \in Applies /\ UNCHANGED <<journal, events>>
  BY DEF Apply, At, IInv, ContentInv, OwnInv, PlaceInv, projections, log
<1>2. CASE End(o, "done") \/ End(o, "applied")
  BY <1>1, <1>2, QuietEndContent DEF Ended
<1>3. CASE ReadToCommit(o, "amend", Entry([status |-> "needs_action", author |-> o], Amended, NextSequence))
  <2>1. /\ req'[o].at = "read" /\ req'[o].purpose = "amend"
        /\ req'[o].draft.event = Amended /\ req'[o].draft.projection.status = "needs_action"
        /\ \A d \in Ops \ {o} : req'[d] = req[d]
    BY <1>1, <1>3, DraftOwn DEF Entry
  <2>2. OwnInv(o)'
    BY <1>1, <2>1 DEF OwnInv, PlaceInv, DraftInv, HeldInv, Stopping, Live, At, Ended
  <2> QED
    BY <1>1, <2>1, <2>2, QuietContent
<1> QED
  BY <1>2, <1>3 DEF Apply

LEMMA BranchContent == ASSUME IInv, ContentInv, NEW o \in Ops, Branch(o) PROVE ContentInv'
<1>1. /\ Shape /\ OwnInv(o) /\ o \in Branches /\ req[o].purpose = "branch" /\ UNCHANGED <<journal, events>>
  BY DEF Branch, At, IInv, ContentInv, OwnInv, PlaceInv, projections, log
<1>2. CASE End(o, "done")
  BY <1>1, <1>2, QuietEndContent DEF Ended
<1>3. CASE req' = [req EXCEPT ![o].at = "emit",
                              ![o].draft = Entry(InitialProjection, Branched, NextSequence)]
  <2>1. /\ req'[o].at = "emit" /\ req'[o].purpose = "branch" /\ req'[o].draft.event = Branched
        /\ \A d \in Ops \ {o} : req'[d] = req[d]
    BY <1>1, <1>3 DEF Shape, ShapeOfRequests, Entry
  <2>2. OwnInv(o)'
    BY <1>1, <2>1 DEF OwnInv, PlaceInv, DraftInv, HeldInv, Stopping, Live, At, Ended
  <2> QED
    BY <1>1, <2>1, <2>2, QuietContent
<1> QED
  BY <1>2, <1>3 DEF Branch

LEMMA DiskFailsContent == ASSUME IInv, ContentInv, NEW o \in Ops, DiskFails(o) PROVE ContentInv'
  BY QuietRaiseContent DEF DiskFails, projections

LEMMA CrashContent == ASSUME IInv, ContentInv, NEW o \in Ops, Crash(o) PROVE ContentInv'
<1> DEFINE dead == IF OneProcess THEN {d \in Ops : Live(d)} ELSE {o}
<1>1. /\ req' = [d \in Ops |-> IF d \in dead THEN AtPoint("done") ELSE req[d]]
      /\ UNCHANGED <<journal, events>>
  BY DEF Crash, projections
<1> HIDE DEF dead
<1>2. ASSUME NEW d \in Ops PROVE OwnInv(d)'
  <2>1. OwnInv(d)
    BY DEF ContentInv
  <2>2. CASE d \in dead
    <3>1. req'[d].at = "done" /\ req'[d].purpose = "none" /\ ~Live(d)'
      BY <1>1, <2>2 DEF AtPoint, Live, At, Ended
    <3> QED
      BY <3>1 DEF OwnInv, PlaceInv, DraftInv, HeldInv, Stopping, At
  <2>3. CASE d \notin dead
    <3>1. req'[d] = req[d]
      BY <1>1, <2>3
    <3> QED
      BY <1>1, <2>1, <3>1 DEF OwnInv, PlaceInv, DraftInv, HeldInv, Live, At, Logged
  <2> QED
    BY <2>2, <2>3
<1>3. LogInv'
  BY <1>1 DEF ContentInv, LogInv
<1> QED
  BY <1>2, <1>3 DEF ContentInv

LEMMA StutterContent == ASSUME ContentInv, UNCHANGED vars PROVE ContentInv'
<1>1. UNCHANGED <<journal, events, req>>
  BY DEF vars, projections, log
<1>2. \A o \in Ops : OwnInv(o)'
  BY <1>1 DEF ContentInv, OwnInv, PlaceInv, DraftInv, HeldInv, Live, At, Logged
<1> QED
  BY <1>1, <1>2 DEF ContentInv, LogInv

LEMMA InitContent == Init => ContentInv
<1> SUFFICES ASSUME Init PROVE ContentInv
  OBVIOUS
<1>1. \A o \in Ops : req[o].at = "idle" /\ req[o].purpose = "none" /\ ~Live(o)
  BY DEF Init, AtPoint, Live, At
<1>2. \A o \in Ops : OwnInv(o)
  BY <1>1 DEF OwnInv, PlaceInv, DraftInv, HeldInv, Stopping, At
<1>3. LogInv
  BY DEF Init, LogInv
<1> QED
  BY <1>2, <1>3 DEF ContentInv

LEMMA NextContent == ASSUME IInv, ContentInv, [Next]_vars PROVE ContentInv'
<1>1. ASSUME NEW o \in Ops, Advance(o) PROVE ContentInv'
  BY <1>1, BeginContent, ReadFilesContent, RestoreFilesContent, RestoreEventContent, RestoreEndContent,
     WriteJournalContent, ReplaceContent, AppendEventContent, UnlinkContent, AdmitContent,
     NextGraphEventContent, EmitContent, GraphEndsContent, FailContent, GraphFailsContent, ApplyContent,
     BranchContent, DiskFailsContent
  DEF Advance
<1>2. CASE UNCHANGED vars
  BY <1>2, StutterContent
<1> QED
  BY <1>1, <1>2, CrashContent DEF Next

-----------------------------------------------------------------------------
(* The record and the log a reader will find.                              *)
InLog(e) == \E i \in DOMAIN Log : Log[i] = e
LEMMA LogFacts ==
  ASSUME Shape
  PROVE  /\ Log \in Seq(LogEvents) /\ Len(Log) \in Nat /\ Len(events) <= Len(Log)
         /\ journal = Nothing => Log = events
         /\ \A e : Logged(e) => InLog(e)
<1>1. journal # Nothing => journal \in JournalEntries
  BY DEF Shape
<1>2. journal # Nothing /\ journal.event # Nothing => journal.event \in LogEvents
  BY <1>1 DEF JournalEntries
<1>3. events \in Seq(LogEvents)
  BY DEF Shape
<1>4. Log = events \/ \E e \in LogEvents : Log = Append(events, e)
  BY <1>2 DEF Log
<1>5. Log \in Seq(LogEvents) /\ Len(Log) \in Nat /\ Len(events) <= Len(Log)
  BY <1>3, <1>4
<1>6. \A i \in DOMAIN events : i \in DOMAIN Log /\ Log[i] = events[i]
  BY <1>3, <1>4
<1> QED
  BY <1>5, <1>6 DEF Log, Logged, InLog

(* What a step does to them: nothing, a commit, or a commit or an event    *)
(* that adds to the log.                                                   *)
Same == Log' = Log /\ Record' = Record
Adds(e) == ~InLog(e) /\ Log' = Append(Log, e)

LEMMA SameFiles ==
  ASSUME UNCHANGED <<journal, events>>, journal = Nothing => state' = state PROVE Same
  BY DEF Same, Log, Record, Logged

LEMMA AppendedSame ==
  ASSUME IInv, ContentInv, journal # Nothing, UNCHANGED <<projections, torn>>,
         \/ events' = events
         \/ Fresh(journal.event, journal.sequence) /\ events' = Append(events, journal.event)
  PROVE  Same
<1>1. CASE events' = events
  BY <1>1, SameFiles DEF projections
<1>2. CASE Fresh(journal.event, journal.sequence) /\ events' = Append(events, journal.event)
  <2>1. Logged(journal.event)' /\ journal' = journal /\ Record' = Record
    BY <1>2, AppendJournalEvent DEF projections, Record
  <2> QED
    BY <1>2, <2>1 DEF Same, Log, Fresh
<1> QED
  BY <1>1, <1>2

LEMMA RemovedSame ==
  ASSUME journal # Nothing, state = journal.projection, journal' = Nothing, UNCHANGED <<state, log>>,
         journal.event = Nothing \/ Logged(journal.event)
  PROVE  Same
  BY DEF Same, Log, Record, log

(* All but the writing of a journal and the emission of an event.          *)
LEMMA RestingFiles ==
  ASSUME IInv, ContentInv, NEW o \in Ops, Advance(o), ~WriteJournal(o), ~Emit(o) PROVE Same
<1> USE DEF projections, log
<1>1. CASE RestoreEvent(o)
  <2>1. journal # Nothing
    BY <1>1 DEF RestoreEvent, At, IInv, PairInv, StepInv, Restoring
  <2> QED
    BY <1>1, <2>1, AppendedSame DEF RestoreEvent, AppendOnce
<1>2. CASE AppendEvent(o)
  <2>1. journal = req[o].draft /\ req[o].draft \in JournalEntries
    BY <1>2, CommitterOwn DEF AppendEvent, At, Committing
  <2>2. journal # Nothing
    BY <2>1, EntryIsSomething
  <2> QED
    BY <1>2, <2>1, <2>2, AppendedSame DEF AppendEvent, AppendOnce
<1>3. CASE RestoreEnd(o)
  <2>1. journal # Nothing /\ state = journal.projection /\ (journal.event = Nothing \/ Logged(journal.event))
    BY <1>3 DEF RestoreEnd, At, IInv, PairInv, StepInv, Restoring, ContentInv, OwnInv, HeldInv
  <2> QED
    BY <1>3, <2>1, RemovedSame DEF RestoreEnd
<1>4. CASE Unlink(o)
  <2>1. /\ journal = req[o].draft /\ req[o].draft \in JournalEntries /\ state = req[o].draft.projection
        /\ req[o].draft.event = Nothing \/ Logged(req[o].draft.event)
    BY <1>4 DEF Unlink, At, IInv, PairInv, StepInv, Committing, ContentInv, OwnInv, HeldInv,
         Shape, ShapeOfRequests
  <2>2. journal # Nothing
    BY <2>1, EntryIsSomething
  <2> QED
    BY <1>4, <2>1, <2>2, RemovedSame DEF Unlink
<1>5. CASE RestoreState(o)
  <2>1. journal # Nothing
    BY <1>5 DEF RestoreState, At, IInv, PairInv, StepInv, Restoring
  <2> QED
    BY <1>5, <2>1, SameFiles DEF RestoreState
<1>6. CASE ReplaceState(o)
  <2>1. journal = req[o].draft /\ req[o].draft \in JournalEntries
    BY <1>6 DEF ReplaceState, At, IInv, PairInv, StepInv, Committing, Shape, ShapeOfRequests
  <2> QED
    BY <1>6, <2>1, EntryIsSomething, SameFiles DEF ReplaceState
<1>7. CASE /\ ~RestoreEvent(o) /\ ~AppendEvent(o) /\ ~RestoreEnd(o) /\ ~Unlink(o)
           /\ ~RestoreState(o) /\ ~ReplaceState(o)
  <2>1. UNCHANGED <<state, journal, events>>
    BY <1>7 DEF Advance, Start, Request, ReadFiles, Recover, RestoreReadModel, ReplaceReadModel, Admit,
         NextGraphEvent, GraphEnds, Fail, GraphFails, Apply, Branch, DiskFails
  <2> QED
    BY <2>1, SameFiles
<1> QED
  BY <1>1, <1>2, <1>3, <1>4, <1>5, <1>6, <1>7

LEMMA CrashFiles == ASSUME NEW o \in Ops, Crash(o) PROVE Same
  BY SameFiles DEF Crash, projections

LEMMA WriteJournalFiles ==
  ASSUME IInv, ContentInv, NEW o \in Ops, WriteJournal(o)
  PROVE  \/ Same
         \/ /\ Log' = Log /\ Record' \in Projections
         \/ /\ Adds(req[o].draft.event) /\ Record' \in Projections
            /\ req'[o].at = "replaceState" /\ req'[o].purpose = req[o].purpose
            /\ \/ req[o].purpose = "amend" /\ req[o].draft.event = Amended
               \/ /\ req[o].purpose = "failure" /\ o \in Steppers
                  /\ req[o].draft.event = Event("failure", NextSequence)
<1>1. /\ req[o].at = "journal" /\ req[o].purpose \in Stopping \cup {"amend"}
      /\ OwnInv(o) /\ Shape /\ journal = Nothing /\ UNCHANGED <<state, events>>
  BY CommitterOwn DEF WriteJournal, At, Committing, log
<1>2. CASE journal' = journal
  BY <1>1, <1>2, SameFiles
<1>3. CASE /\ req[o].draft.event = Nothing \/ (~torn /\ req[o].draft.sequence = NextSequence)
           /\ journal' = req[o].draft /\ Goto(o, "replaceState")
  <2> PICK entry \in JournalEntries : entry = req[o].draft
    BY <1>1 DEF Shape, ShapeOfRequests
  <2>1. /\ entry # Nothing /\ journal' = entry /\ Record' = entry.projection
        /\ Record' \in Projections /\ Log = events /\ entry.event \in LogEvents \cup {Nothing}
    BY <1>1, <1>3, EntryIsSomething DEF Record, Log, JournalEntries
  <2>2. CASE entry.event = Nothing \/ Logged(entry.event)
    BY <1>1, <2>1, <2>2 DEF Log, Logged
  <2>3. CASE entry.event # Nothing /\ ~Logged(entry.event)
    <3>1. Log' = Append(Log, entry.event)
      BY <1>1, <2>1, <2>3 DEF Log, Logged
    <3>2. Adds(entry.event)
      BY <2>1, <2>3, <3>1 DEF Adds, InLog, Logged
    <3>3. req'[o].at = "replaceState" /\ req'[o].purpose = req[o].purpose
      BY <1>1, <1>3, PointFacts, GotoOwn DEF Inside, Committing
    <3>4. \/ req[o].purpose = "amend" /\ entry.event = Amended
          \/ req[o].purpose = "failure" /\ o \in Steppers /\ entry.event = Event("failure", NextSequence)
      BY <1>1, <1>3, <2>3 DEF OwnInv, PlaceInv, DraftInv, Stopping
    <3> QED
      BY <2>1, <3>2, <3>3, <3>4
  <2> QED
    BY <2>2, <2>3
<1> QED
  BY <1>2, <1>3 DEF WriteJournal

LEMMA EmitFiles ==
  ASSUME IInv, ContentInv, NEW o \in Ops, Emit(o)
  PROVE  \/ Same
         \/ /\ UNCHANGED projections /\ Fresh(req[o].draft.event, req[o].draft.sequence)
            /\ req[o].draft.event \in {Event("graph", g) : g \in GraphEvents} \cup {Branched}
            /\ events' = Append(events, req[o].draft.event)
<1>1. req[o].draft.event \in {Event("graph", g) : g \in GraphEvents} \cup {Branched}
  BY StepperOwn DEF Emit, At
<1>2. CASE events' = events
  BY <1>2, SameFiles DEF Emit, projections
<1> QED
  BY <1>1, <1>2 DEF Emit, AppendOnce

-----------------------------------------------------------------------------
(* The length of the log.  Every event takes one of the places there are:  *)
(* one for each graph event, the amendment and the branch, and one for     *)
(* each stepper's failure, taken from the moment its journal is written.   *)
Places ==
  ((GraphEvents \X {"graph"}) \cup (Steppers \X {"failure"})) \cup {<<0, "amended">>, <<0, "branched">>}
Spent(s) ==
  \/ req[s].at \in Ended
  \/ req[s].purpose = "failure" /\ req[s].at \in Committing \ {"journal"}
Taken ==
  {p \in Places :
     \/ p[2] = "failure" /\ Spent(p[1])
     \/ p[2] # "failure" /\ InLog(Event(p[2], p[1]))}
PlacesInv == Len(Log) <= Cardinality(Taken)

LEMMA OneEach ==
  ASSUME NEW S, IsFiniteSet(S), NEW x
  PROVE  IsFiniteSet(S \X {x}) /\ Cardinality(S \X {x}) = Cardinality(S)
<1>1. IsFiniteSet({x}) /\ Cardinality({x}) = 1
  BY FS_Singleton
<1>2. IsFiniteSet(S \X {x}) /\ Cardinality(S \X {x}) = Cardinality(S) * Cardinality({x})
  BY <1>1, FS_Product
<1>3. Cardinality(S) \in Nat
  BY FS_CardinalityType
<1>4. Cardinality(S) * 1 = Cardinality(S)
  BY <1>3
<1> QED
  BY <1>1, <1>2, <1>4

LEMMA DisjointUnion ==
  ASSUME NEW S, NEW T, IsFiniteSet(S), IsFiniteSet(T), S \cap T = {}
  PROVE  IsFiniteSet(S \cup T) /\ Cardinality(S \cup T) = Cardinality(S) + Cardinality(T)
<1>1. IsFiniteSet(S \cup T) /\ Cardinality(S \cup T) = Cardinality(S) + Cardinality(T) - Cardinality({})
  BY FS_Union
<1>2. Cardinality(S) \in Nat /\ Cardinality(T) \in Nat /\ Cardinality({}) = 0
  BY FS_CardinalityType, FS_EmptySet
<1> QED
  BY <1>1, <1>2

LEMMA MaxSequenceFacts ==
  /\ IsFiniteSet(Places) /\ Cardinality(Places) + 1 = MaxSequence /\ MaxSequence \in Nat
<1> DEFINE G == GraphEvents \X {"graph"}
           S == Steppers \X {"failure"}
           B == {<<0, "amended">>, <<0, "branched">>}
<1>1. /\ IsFiniteSet(GraphEvents) /\ Cardinality(GraphEvents) \in Nat
      /\ IsFiniteSet(Steppers) /\ Cardinality(Steppers) \in Nat
  BY GraphEventsAssumption, SteppersAssumption, FS_CardinalityType
<1>2. IsFiniteSet(G) /\ Cardinality(G) = Cardinality(GraphEvents)
  BY <1>1, OneEach
<1>3. IsFiniteSet(S) /\ Cardinality(S) = Cardinality(Steppers)
  BY <1>1, OneEach
<1>4. IsFiniteSet(B) /\ Cardinality(B) = 2
  <2>1. IsFiniteSet({<<0, "amended">>}) /\ Cardinality({<<0, "amended">>}) = 1
    BY FS_Singleton
  <2>2. B = {<<0, "amended">>} \cup {<<0, "branched">>} /\ <<0, "branched">> \notin {<<0, "amended">>}
    OBVIOUS
  <2> HIDE DEF B
  <2>3. IsFiniteSet(B) /\ Cardinality(B) = Cardinality({<<0, "amended">>}) + 1
    BY <2>1, <2>2, FS_AddElement
  <2> QED
    BY <2>1, <2>3
<1>5. G \cap S = {} /\ (G \cup S) \cap B = {} /\ Places = (G \cup S) \cup B
  BY DEF Places
<1> HIDE DEF G, S, B
<1>6. IsFiniteSet(G \cup S) /\ Cardinality(G \cup S) = Cardinality(G) + Cardinality(S)
  BY <1>2, <1>3, <1>5, DisjointUnion
<1>7. IsFiniteSet(Places) /\ Cardinality(Places) = Cardinality(G \cup S) + Cardinality(B)
  BY <1>4, <1>5, <1>6, DisjointUnion
<1> QED
  BY <1>1, <1>2, <1>3, <1>4, <1>6, <1>7 DEF MaxSequence

LEMMA TakenFacts == IsFiniteSet(Taken) /\ Cardinality(Taken) \in Nat /\ Cardinality(Taken) + 1 <= MaxSequence
<1>1. Taken \in SUBSET Places
  BY DEF Taken
<1>2. IsFiniteSet(Taken) /\ Cardinality(Taken) <= Cardinality(Places)
  BY <1>1, MaxSequenceFacts, FS_Subset
<1>3. Cardinality(Taken) \in Nat /\ Cardinality(Places) \in Nat
  BY <1>2, MaxSequenceFacts, FS_CardinalityType
<1> QED
  BY <1>2, <1>3, MaxSequenceFacts

LEMMA NextIsInRange == ASSUME Shape, PlacesInv PROVE NextSequence \in 1 .. MaxSequence
  BY LogFacts, TakenFacts, MaxSequenceFacts DEF PlacesInv, NextSequence, Shape

(* A request that has ended does nothing, and each moves only itself.      *)
LEMMA OnlyMover ==
  ASSUME Shape, NEW o \in Ops, Advance(o), NEW d \in Ops \ {o} PROVE req'[d] = req[d]
<1> USE DEF Goto, Read, ReadToCommit, End, Shape
<1>1. CASE RestoreEvent(o) \/ AppendEvent(o) \/ Emit(o)
  BY <1>1 DEF RestoreEvent, AppendEvent, Emit, AppendOnce, Raise
<1>2. CASE Start(o) \/ Request(o) \/ ReadFiles(o) \/ Recover(o)
  BY <1>2 DEF Start, Request, ReadFiles, AfterRead, Recover
<1>3. CASE RestoreState(o) \/ RestoreReadModel(o) \/ RestoreEnd(o) \/ ReplaceState(o) \/ ReplaceReadModel(o)
  BY <1>3 DEF RestoreState, RestoreReadModel, RestoreEnd, ReplaceState, ReplaceReadModel
<1>4. CASE WriteJournal(o) \/ Unlink(o) \/ Admit(o)
  BY <1>4 DEF WriteJournal, Unlink, Admit, Raise
<1>5. CASE \E g \in GraphEvents : NextGraphEvent(o, g)
  BY <1>5 DEF NextGraphEvent, Raise
<1>6. CASE \E status \in {"open", "stopped"} : GraphEnds(o, status) \/ Fail(o, status)
  BY <1>6 DEF GraphEnds, Fail
<1>7. CASE GraphFails(o) \/ Apply(o) \/ Branch(o) \/ DiskFails(o)
  BY <1>7 DEF GraphFails, Apply, Branch, DiskFails, Raise
<1> QED
  BY <1>1, <1>2, <1>3, <1>4, <1>5, <1>6, <1>7 DEF Advance

LEMMA EndedIsEnded == ASSUME NEW o \in Ops, Advance(o) PROVE req[o].at \notin Ended
  BY DEF Advance, At, Ended, Restoring, Committing, Start, Request, ReadFiles, Recover, RestoreState,
     RestoreReadModel, RestoreEvent, RestoreEnd, WriteJournal, ReplaceState, ReplaceReadModel, AppendEvent,
     Unlink, Admit, NextGraphEvent, Emit, GraphEnds, Fail, GraphFails, Apply, Branch, DiskFails

(* A stepper's place stays taken.                                          *)
LEMMA SpentStays ==
  ASSUME Shape, [Next]_vars, NEW s \in Steppers, Spent(s) PROVE Spent(s)'
<1>1. s \in Ops
  BY DEF Ops
<1>2. CASE req'[s] = req[s]
  BY <1>2 DEF Spent
<1>3. ASSUME NEW o \in Ops, Advance(o), req'[s] # req[s] PROVE Spent(s)'
  <2>1. s = o
    BY <1>1, <1>3, OnlyMover
  <2>2. req[s].purpose = "failure" /\ req[s].at \in Committing \ {"journal"}
    BY <1>3, <2>1, EndedIsEnded DEF Spent
  <2>3. CASE \E point \in {"replaceReadModel", "appendEvent", "unlink"} : Goto(s, point)
    BY <1>1, <2>2, <2>3 DEF Goto, Shape, ShapeOfRequests, Spent, Committing
  <2>4. CASE \E point \in Ended : End(s, point)
    BY <1>1, <2>4 DEF End, AtPoint, Shape, Spent
  <2>5. Raise(s) => End(s, "done")
    BY <2>2 DEF Raise
  <2> QED
    BY <1>3, <2>1, <2>2, <2>3, <2>4, <2>5 DEF Advance, At, Ended, Committing, Start, Request, ReadFiles, Recover,
       RestoreState, RestoreReadModel, RestoreEvent, RestoreEnd, WriteJournal, ReplaceState, ReplaceReadModel,
       AppendEvent, AppendOnce, Unlink, Admit, NextGraphEvent, Emit, GraphEnds, Fail, GraphFails, Apply, Branch,
       DiskFails
<1>4. ASSUME NEW o \in Ops, Crash(o), req'[s] # req[s] PROVE Spent(s)'
  BY <1>1, <1>4 DEF Crash, Spent, AtPoint, Ended
<1> QED
  BY <1>2, <1>3, <1>4 DEF Next, vars

(* The log keeps what it holds, and one event more takes a place of its    *)
(* own.                                                                    *)
Keeps == \A e : InLog(e) => InLog(e)'
Widens ==
  /\ Keeps
  /\ \/ Len(Log') = Len(Log)
     \/ Len(Log') = Len(Log) + 1 /\ \E p \in Places \ Taken : p \in Taken'

LEMMA TakenStays == ASSUME Shape, [Next]_vars, Keeps PROVE Taken \subseteq Taken'
<1>1. \A p \in Places : p[2] = "failure" => p[1] \in Steppers
  BY DEF Places
<1>2. \A p : Event(p[2], p[1])' = Event(p[2], p[1])
  BY DEF Event
<1>3. Places' = Places
  BY DEF Places
<1> QED
  BY <1>1, <1>2, <1>3, SpentStays DEF Taken, Keeps

LEMMA PlacesStep == ASSUME Shape, Shape', PlacesInv, [Next]_vars, Widens PROVE PlacesInv'
<1>1. Taken \subseteq Taken' /\ Len(Log) \in Nat /\ Len(Log') \in Nat
  BY TakenStays, LogFacts DEF Widens
<1>2. IsFiniteSet(Taken) /\ Cardinality(Taken) \in Nat
  BY TakenFacts
<1>3. IsFiniteSet(Taken') /\ Cardinality(Taken') \in Nat
  <2>1. Taken' \in SUBSET Places
    BY DEF Taken, Places
  <2> QED
    BY <2>1, MaxSequenceFacts, FS_Subset, FS_CardinalityType
<1>4. CASE Len(Log') = Len(Log)
  <2>1. Cardinality(Taken) <= Cardinality(Taken')
    BY <1>1, <1>3, FS_Subset
  <2> QED
    BY <1>1, <1>2, <1>3, <1>4, <2>1 DEF PlacesInv
<1>5. ASSUME Len(Log') = Len(Log) + 1, NEW p \in Places \ Taken, p \in Taken' PROVE PlacesInv'
  <2>1. Cardinality(Taken \cup {p}) = Cardinality(Taken) + 1
    BY <1>2, FS_AddElement
  <2>2. Cardinality(Taken \cup {p}) <= Cardinality(Taken')
    BY <1>1, <1>3, <1>5, FS_Subset
  <2> QED
    BY <1>1, <1>2, <1>3, <1>5, <2>1, <2>2 DEF PlacesInv
<1> QED
  BY <1>4, <1>5 DEF Widens

(* An event that is new takes the place it is made for.                    *)
LEMMA PlaceOfEvent ==
  ASSUME NEW p \in Places, p[2] # "failure", ~InLog(Event(p[2], p[1])), InLog(Event(p[2], p[1]))'
  PROVE  p \in Places \ Taken /\ p \in Taken'
<1>1. Event(p[2], p[1])' = Event(p[2], p[1]) /\ Places' = Places
  BY DEF Event, Places
<1> QED
  BY <1>1 DEF Taken

LEMMA AddsFacts ==
  ASSUME Shape, NEW e, Adds(e) PROVE Keeps /\ Len(Log') = Len(Log) + 1 /\ ~InLog(e) /\ InLog(e)'
<1>1. Log \in Seq(LogEvents)
  BY LogFacts
<1>2. /\ DOMAIN Log' = 1 .. Len(Log) + 1 /\ DOMAIN Log = 1 .. Len(Log) /\ Len(Log) \in Nat
      /\ Len(Log') = Len(Log) + 1 /\ Log'[Len(Log) + 1] = e
      /\ \A i \in DOMAIN Log : Log'[i] = Log[i]
  BY <1>1 DEF Adds
<1>3. Keeps
  BY <1>2 DEF Keeps, InLog
<1>4. InLog(e)'
  <2>1. Len(Log) + 1 \in DOMAIN Log'
    BY <1>2
  <2> QED
    BY <1>2, <2>1 DEF InLog
<1> QED
  BY <1>2, <1>3, <1>4 DEF Adds

LEMMA SameWidens == ASSUME Log' = Log PROVE Widens
  BY DEF Widens, Keeps, InLog

LEMMA WriteJournalWidens == ASSUME IInv, ContentInv, NEW o \in Ops, WriteJournal(o) PROVE Widens
<1> DEFINE e == req[o].draft.event
<1>1. CASE Log' = Log
  BY <1>1, SameWidens
<1>2. CASE Adds(e) /\ e = Amended
  <2>1. Keeps /\ Len(Log') = Len(Log) + 1 /\ ~InLog(Amended) /\ InLog(Amended)'
    BY <1>2, AddsFacts DEF IInv, Amended, Event
  <2> DEFINE p == <<0, "amended">>
  <2>2. p \in Places /\ p[2] # "failure" /\ Event(p[2], p[1]) = Amended
    BY DEF Places, Amended
  <2> HIDE DEF p
  <2>3. p \in Places \ Taken /\ p \in Taken'
    BY <2>1, <2>2, PlaceOfEvent DEF Amended, Event
  <2> QED
    BY <2>1, <2>3 DEF Widens
<1>3. CASE /\ Adds(e) /\ req[o].purpose = "failure" /\ o \in Steppers
           /\ req'[o].at = "replaceState" /\ req'[o].purpose = "failure"
  <2>1. Keeps /\ Len(Log') = Len(Log) + 1
    BY <1>3, AddsFacts DEF IInv
  <2>2. Spent(o)' /\ ~Spent(o)
    BY <1>3 DEF Spent, Committing, Ended, WriteJournal, At
  <2> DEFINE p == <<o, "failure">>
  <2>3. p \in Places /\ p[1] = o /\ p[2] = "failure"
    BY <1>3 DEF Places
  <2> HIDE DEF p
  <2>4. p \in Places \ Taken /\ p \in Taken'
    BY <2>2, <2>3 DEF Taken, Places
  <2> QED
    BY <2>1, <2>4 DEF Widens
<1> QED
  BY <1>1, <1>2, <1>3, WriteJournalFiles DEF Same

(* An event that is emitted may overtake one that waits in the journal.    *)
LEMMA EmitLog ==
  ASSUME IInv, ContentInv, NEW e \in {Event("graph", g) : g \in GraphEvents} \cup {Branched},
         UNCHANGED projections, ~Logged(e), events' = Append(events, e)
  PROVE  Keeps /\ Len(Log') = Len(Log) + 1 /\ ~InLog(e) /\ InLog(e)'
<1>1. /\ e \in LogEvents /\ e # Amended /\ e.kind # "failure" /\ e # Nothing
      /\ events \in Seq(LogEvents) /\ journal' = journal
  BY EmittedFacts DEF IInv, Shape, projections
<1>2. /\ DOMAIN events' = 1 .. Len(events) + 1 /\ events'[Len(events) + 1] = e
      /\ \A i \in DOMAIN events : events'[i] = events[i]
      /\ DOMAIN events = 1 .. Len(events) /\ Len(events) \in Nat /\ Len(events') = Len(events) + 1
      /\ Len(events) + 1 \in DOMAIN events'
  BY <1>1
<1>3. CASE journal = Nothing \/ journal.event = Nothing \/ Logged(journal.event)
  <2>1. Logged(journal.event) => Logged(journal.event)'
    BY <1>1, <1>2 DEF Logged
  <2>2. Log = events /\ Log' = events'
    BY <1>1, <1>3, <2>1 DEF Log
  <2> QED
    BY <1>2, <2>2 DEF Keeps, InLog, Logged
<1>4. CASE journal # Nothing /\ journal.event # Nothing /\ ~Logged(journal.event)
  <2> PICK j : j = journal.event
    OBVIOUS
  <2>1. j \in LogEvents /\ j # e
    <3>1. journal \in JournalEntries /\ j \in {Amended, Event("failure", journal.sequence)}
      BY <1>4 DEF IInv, Shape, ContentInv, LogInv
    <3> QED
      BY <1>1, <1>4, <3>1 DEF JournalEntries, Event
  <2>2. ~Logged(j)'
    BY <1>1, <1>2, <1>4, <2>1 DEF Logged
  <2>3. Log = Append(events, j) /\ Log' = Append(events', j) /\ events' \in Seq(LogEvents)
    BY <1>1, <1>4, <2>2 DEF Log
  <2>4. /\ DOMAIN Log = 1 .. Len(events) + 1 /\ Len(Log) = Len(events) + 1
        /\ Log[Len(events) + 1] = j /\ \A i \in DOMAIN events : Log[i] = events[i]
    BY <1>1, <1>2, <2>1, <2>3
  <2>5. /\ DOMAIN Log' = 1 .. Len(events) + 2 /\ Len(Log') = Len(events) + 2
        /\ Log'[Len(events) + 2] = j /\ Log'[Len(events) + 1] = e
        /\ \A i \in DOMAIN events : Log'[i] = events[i]
    BY <1>1, <1>2, <2>1, <2>3
  <2>6. Keeps
    <3> SUFFICES ASSUME NEW x, NEW i \in DOMAIN Log, Log[i] = x PROVE InLog(x)'
      BY DEF Keeps, InLog
    <3>1. CASE i \in DOMAIN events
      BY <1>2, <2>4, <2>5, <3>1 DEF InLog
    <3>2. CASE i = Len(events) + 1
      <4>1. Len(events) + 2 \in DOMAIN Log' /\ Log'[Len(events) + 2] = x
        BY <1>2, <2>4, <2>5, <3>2
      <4> QED
        BY <4>1 DEF InLog
    <3> QED
      BY <1>2, <2>4, <3>1, <3>2
  <2>7. InLog(e)'
    <3>1. Len(events) + 1 \in DOMAIN Log'
      BY <1>2, <2>5
    <3> QED
      BY <2>5, <3>1 DEF InLog
  <2>8. ~InLog(e)
    BY <1>2, <2>1, <2>4 DEF InLog, Logged
  <2> QED
    BY <1>2, <2>4, <2>5, <2>6, <2>7, <2>8
<1> QED
  BY <1>3, <1>4

LEMMA EmitWidens == ASSUME IInv, ContentInv, NEW o \in Ops, Emit(o) PROVE Widens
<1>1. CASE Same
  BY <1>1, SameWidens DEF Same
<1>2. ASSUME NEW e \in {Event("graph", g) : g \in GraphEvents} \cup {Branched},
             UNCHANGED projections, ~Logged(e), events' = Append(events, e)
      PROVE  Widens
  <2>1. Keeps /\ Len(Log') = Len(Log) + 1 /\ ~InLog(e) /\ InLog(e)'
    BY <1>2, EmitLog
  <2>2. PICK p \in Places : p[2] # "failure" /\ e = Event(p[2], p[1])
    <3>1. CASE e = Branched
      <4>1. <<0, "branched">> \in Places
        BY DEF Places
      <4> QED
        BY <3>1, <4>1 DEF Branched
    <3>2. ASSUME NEW g \in GraphEvents, e = Event("graph", g)
          PROVE  \E p \in Places : p[2] # "failure" /\ e = Event(p[2], p[1])
      <4>1. <<g, "graph">> \in Places
        BY DEF Places
      <4> QED
        BY <3>2, <4>1
    <3> QED
      BY <1>2, <3>1, <3>2
  <2>3. p \in Places \ Taken /\ p \in Taken'
    BY <2>1, <2>2, PlaceOfEvent DEF Event
  <2> QED
    BY <2>1, <2>3 DEF Widens
<1> QED
  BY <1>1, <1>2, EmitFiles DEF Fresh

LEMMA NextPlaces == ASSUME IInv, IInv', ContentInv, PlacesInv, [Next]_vars PROVE PlacesInv'
<1>1. ASSUME NEW o \in Ops, Advance(o) PROVE Widens
  BY <1>1, RestingFiles, WriteJournalWidens, EmitWidens, SameWidens DEF Same
<1>2. ASSUME NEW o \in Ops, Crash(o) PROVE Widens
  BY <1>2, CrashFiles, SameWidens DEF Same
<1>3. ASSUME UNCHANGED vars PROVE Widens
  <2>1. Same
    BY <1>3, SameFiles DEF vars, projections, log
  <2> QED
    BY <2>1, SameWidens DEF Same
<1>4. Widens
  BY <1>1, <1>2, <1>3 DEF Next
<1> QED
  BY <1>4, PlacesStep DEF IInv

LEMMA InitPlaces == ASSUME Init PROVE PlacesInv
<1>1. Log = <<>>
  BY DEF Init, Log
<1> QED
  BY <1>1, TakenFacts DEF PlacesInv

-----------------------------------------------------------------------------
(* The types, with the bound on the length of the log.                     *)
TypesInv ==
  /\ events \in Seq(Events)
  /\ journal \in Entries \cup {Nothing}
  /\ \A o \in Ops : req[o].draft \in Entries
  /\ execution \in Steppers \cup {Nothing}
  /\ torn \in BOOLEAN /\ overtaken \in BOOLEAN

LEMMA EntryTypes ==
  /\ NoEntry \in Entries
  /\ \A e \in Events \cup {Nothing}, n \in 0 .. MaxSequence :
       /\ Entry(InitialProjection, e, n) \in Entries
       /\ \A status \in RunStatuses, o \in Ops : Entry([status |-> status, author |-> o], e, n) \in Entries
<1>1. InitialProjection \in Projections
  BY DEF InitialProjection, Projections, RunStatuses
<1>2. 0 \in 0 .. MaxSequence
  BY MaxSequenceFacts
<1> QED
  BY <1>1, <1>2 DEF NoEntry, Entry, Entries, Projections

(* Most steps write nothing down.                                          *)
LEMMA KeptDraft ==
  ASSUME Shape, NEW o \in Ops, Advance(o), req'[o].draft \notin {req[o].draft, NoEntry}
  PROVE  \/ Admit(o) \/ Apply(o) \/ Branch(o)
         \/ \E g \in GraphEvents : NextGraphEvent(o, g)
         \/ \E status \in {"open", "stopped"} : GraphEnds(o, status) \/ Fail(o, status)
<1> USE DEF Goto, Read, ReadToCommit, End, Shape, AtPoint, ShapeOfRequests
<1>1. CASE RestoreEvent(o) \/ AppendEvent(o) \/ Emit(o)
  BY <1>1 DEF RestoreEvent, AppendEvent, Emit, AppendOnce, Raise
<1>2. CASE Start(o) \/ Request(o) \/ ReadFiles(o) \/ Recover(o)
  BY <1>2 DEF Start, Request, ReadFiles, AfterRead, Recover
<1>3. CASE RestoreState(o) \/ RestoreReadModel(o) \/ RestoreEnd(o) \/ ReplaceState(o) \/ ReplaceReadModel(o)
  BY <1>3 DEF RestoreState, RestoreReadModel, RestoreEnd, ReplaceState, ReplaceReadModel
<1>4. CASE WriteJournal(o) \/ Unlink(o) \/ GraphFails(o) \/ DiskFails(o)
  BY <1>4 DEF WriteJournal, Unlink, GraphFails, DiskFails, Raise
<1> QED
  BY <1>1, <1>2, <1>3, <1>4 DEF Advance

LEMMA DraftsOfAStep ==
  ASSUME IInv, PlacesInv, TypesInv, NEW o \in Ops, Advance(o) PROVE req'[o].draft \in Entries
<1>1. Shape /\ 0 \in 0 .. MaxSequence /\ NextSequence \in 1 .. MaxSequence
  BY NextIsInRange, MaxSequenceFacts DEF IInv
<1>2. Amended \in Events /\ Branched \in Events /\ Event("failure", NextSequence) \in Events
  BY <1>1 DEF Events
<1>3. CASE req'[o].draft \in {req[o].draft, NoEntry}
  BY <1>3, EntryTypes DEF TypesInv
<1>4. CASE Admit(o)
  <2>1. CASE \E status \in {"open", "stopped"} : req'[o].draft = Entry([status |-> status, author |-> o], Nothing, 0)
    BY <1>1, <2>1, EntryTypes DEF RunStatuses
  <2>2. CASE req'[o].draft \in {req[o].draft, NoEntry}
    BY <1>3, <2>2
  <2> QED
    BY <1>1, <1>4, <2>1, <2>2 DEF Admit, Read, ReadToCommit, End, AtPoint, Shape, ShapeOfRequests
<1>5. ASSUME NEW g \in GraphEvents, NextGraphEvent(o, g) PROVE req'[o].draft \in Entries
  <2>1. CASE req'[o].draft = Entry(InitialProjection, Event("graph", g), NextSequence)
    <3>1. Event("graph", g) \in Events
      BY DEF Events
    <3> QED
      BY <1>1, <2>1, <3>1, EntryTypes
  <2>2. CASE req'[o].draft \in {req[o].draft, NoEntry}
    BY <1>3, <2>2
  <2> QED
    BY <1>1, <1>5, <2>1, <2>2 DEF NextGraphEvent, Raise, Goto, End, AtPoint, Shape, ShapeOfRequests
<1>6. ASSUME NEW status \in {"open", "stopped"}, GraphEnds(o, status) PROVE req'[o].draft \in Entries
  <2>1. req'[o].draft = Entry([status |-> status, author |-> o], Nothing, 0)
    BY <1>1, <1>6, DraftOwn DEF GraphEnds
  <2> QED
    BY <1>1, <2>1, EntryTypes DEF RunStatuses
<1>7. ASSUME NEW status \in {"open", "stopped"}, Fail(o, status) PROVE req'[o].draft \in Entries
  <2>1. CASE req'[o].draft = Entry([status |-> status, author |-> o], Event("failure", NextSequence), NextSequence)
    BY <1>1, <1>2, <2>1, EntryTypes DEF RunStatuses
  <2>2. CASE req'[o].draft \in {req[o].draft, NoEntry}
    BY <1>3, <2>2
  <2> QED
    BY <1>1, <1>7, <2>1, <2>2 DEF Fail, ReadToCommit, End, AtPoint, Shape, ShapeOfRequests
<1>8. CASE Apply(o)
  <2>1. CASE req'[o].draft = Entry([status |-> "needs_action", author |-> o], Amended, NextSequence)
    BY <1>1, <1>2, <2>1, EntryTypes DEF RunStatuses
  <2>2. CASE req'[o].draft \in {req[o].draft, NoEntry}
    BY <1>3, <2>2
  <2> QED
    BY <1>1, <1>8, <2>1, <2>2 DEF Apply, ReadToCommit, End, AtPoint, Shape, ShapeOfRequests
<1>9. CASE Branch(o)
  <2>1. CASE req'[o].draft = Entry(InitialProjection, Branched, NextSequence)
    BY <1>1, <1>2, <2>1, EntryTypes
  <2>2. CASE req'[o].draft \in {req[o].draft, NoEntry}
    BY <1>3, <2>2
  <2> QED
    BY <1>1, <1>9, <2>1, <2>2 DEF Branch, End, AtPoint, Shape, ShapeOfRequests
<1> QED
  BY <1>1, <1>3, <1>4, <1>5, <1>6, <1>7, <1>8, <1>9, KeptDraft

LEMMA EventsOfAStep ==
  ASSUME IInv, TypesInv, NEW o \in Ops, Advance(o) PROVE events' \in Seq(Events)
<1>1. req[o].draft \in Entries /\ (journal # Nothing => journal \in Entries) /\ events \in Seq(Events)
  BY DEF TypesInv
<1>2. ASSUME NEW e \in Events \cup {Nothing}, NEW sequence, NEW after, AppendOnce(o, e, sequence, after)
      PROVE  events' \in Seq(Events)
  BY <1>1, <1>2 DEF AppendOnce, Fresh
<1>3. CASE RestoreEvent(o)
  <2>1. journal # Nothing
    BY <1>3 DEF RestoreEvent, At, IInv, PairInv, StepInv, Restoring
  <2> QED
    BY <1>1, <1>2, <1>3, <2>1 DEF RestoreEvent, Entries
<1>4. CASE AppendEvent(o) \/ Emit(o)
  BY <1>1, <1>2, <1>4 DEF AppendEvent, Emit, Entries
<1>5. CASE ~RestoreEvent(o) /\ ~AppendEvent(o) /\ ~Emit(o)
  <2>1. events' = events
    BY <1>5 DEF Advance, Start, Request, ReadFiles, Recover, RestoreState, RestoreReadModel, RestoreEnd,
       WriteJournal, ReplaceState, ReplaceReadModel, Unlink, Admit, NextGraphEvent, GraphEnds, Fail, GraphFails,
       Apply, Branch, DiskFails, log
  <2> QED
    BY <1>1, <2>1
<1> QED
  BY <1>3, <1>4, <1>5

LEMMA JournalOfAStep ==
  ASSUME TypesInv, NEW o \in Ops, Advance(o) PROVE journal' \in Entries \cup {Nothing}
<1>1. journal' = journal \/ journal' = Nothing \/ journal' = req[o].draft
  BY DEF Advance, Start, Request, ReadFiles, Recover, RestoreState, RestoreReadModel, RestoreEnd, RestoreEvent,
     WriteJournal, ReplaceState, ReplaceReadModel, AppendEvent, Unlink, Admit, NextGraphEvent, Emit, GraphEnds,
     Fail, GraphFails, Apply, Branch, DiskFails, projections
<1> QED
  BY <1>1 DEF TypesInv

LEMMA LocksOfAStep ==
  ASSUME TypesInv, NEW o \in Ops, Advance(o) PROVE execution' \in Steppers \cup {Nothing} /\ torn' \in BOOLEAN
<1>1. execution' = execution \/ execution' = Nothing \/ (o \in Steppers /\ execution' = o)
  <2>1. CASE Start(o) \/ Request(o) \/ ReadFiles(o) \/ Recover(o)
    BY <2>1 DEF Start, Request, ReadFiles, AfterRead, Recover, End, locks
  <2>2. CASE RestoreEvent(o) \/ AppendEvent(o) \/ Emit(o)
    BY <2>2 DEF RestoreEvent, AppendEvent, Emit, AppendOnce, Raise, End, locks
  <2>3. CASE RestoreState(o) \/ RestoreReadModel(o) \/ RestoreEnd(o) \/ ReplaceState(o) \/ ReplaceReadModel(o)
    BY <2>3 DEF RestoreState, RestoreReadModel, RestoreEnd, ReplaceState, ReplaceReadModel, locks
  <2>4. CASE WriteJournal(o) \/ Unlink(o) \/ Admit(o) \/ \E g \in GraphEvents : NextGraphEvent(o, g)
    BY <2>4 DEF WriteJournal, Unlink, Admit, NextGraphEvent, Raise, End, locks
  <2>5. CASE \/ \E status \in {"open", "stopped"} : GraphEnds(o, status) \/ Fail(o, status)
             \/ GraphFails(o) \/ Apply(o) \/ Branch(o) \/ DiskFails(o)
    BY <2>5 DEF GraphEnds, Fail, GraphFails, Apply, Branch, DiskFails, Raise, End, locks
  <2> QED
    BY <2>1, <2>2, <2>3, <2>4, <2>5 DEF Advance
<1>2. torn' = torn \/ Tear({o})
  BY DEF Advance, Start, Request, ReadFiles, Recover, RestoreState, RestoreReadModel, RestoreEnd, RestoreEvent,
     WriteJournal, ReplaceState, ReplaceReadModel, AppendEvent, Unlink, Admit, NextGraphEvent, Emit, GraphEnds,
     Fail, GraphFails, Apply, Branch, DiskFails, log
<1>3. torn' \in BOOLEAN
  BY <1>2, ModesAssumption DEF TypesInv, Tear
<1> QED
  BY <1>1, <1>3 DEF TypesInv

LEMMA NextTypes == ASSUME IInv, PlacesInv, TypesInv, [Next]_vars PROVE TypesInv'
<1>1. ASSUME NEW o \in Ops, Advance(o), Notice PROVE TypesInv'
  <2>1. \A d \in Ops : req'[d].draft \in Entries
    <3>1. req'[o].draft \in Entries
      BY <1>1, DraftsOfAStep
    <3>2. \A d \in Ops \ {o} : req'[d] = req[d]
      BY <1>1, OnlyMover DEF IInv
    <3> QED
      BY <3>1, <3>2 DEF TypesInv
  <2>2. events' \in Seq(Events) /\ journal' \in Entries \cup {Nothing}
    BY <1>1, EventsOfAStep, JournalOfAStep
  <2>3. execution' \in Steppers \cup {Nothing} /\ torn' \in BOOLEAN
    BY <1>1, LocksOfAStep
  <2>4. overtaken' \in BOOLEAN
    BY <1>1 DEF Notice
  <2> QED
    BY <2>1, <2>2, <2>3, <2>4 DEF TypesInv
<1>2. ASSUME NEW o \in Ops, Crash(o), Notice PROVE TypesInv'
  <2>1. \A d \in Ops : req'[d].draft \in {req[d].draft, NoEntry}
    BY <1>2 DEF Crash, AtPoint
  <2>2. torn' \in BOOLEAN /\ overtaken' \in BOOLEAN
    BY <1>2, ModesAssumption DEF Crash, Tear, TypesInv, Notice
  <2> QED
    BY <1>2, <2>1, <2>2, EntryTypes DEF Crash, TypesInv, projections
<1>3. CASE UNCHANGED vars
  BY <1>3 DEF vars, projections, log, locks, TypesInv
<1> QED
  BY <1>1, <1>2, <1>3 DEF Next

LEMMA InitTypes == Init => TypesInv
<1> SUFFICES ASSUME Init PROVE TypesInv
  OBVIOUS
<1>1. \A o \in Ops : req[o].draft = NoEntry
  BY DEF Init, AtPoint
<1>2. events \in Seq(Events) /\ journal = Nothing /\ execution = Nothing
  BY DEF Init
<1>3. torn \in BOOLEAN /\ overtaken \in BOOLEAN
  BY DEF Init
<1> QED
  BY <1>1, <1>2, <1>3, EntryTypes DEF TypesInv

(* TypeOK: the log never outgrows the events there are.                    *)
THEOREM TypeCorrect == Spec => []TypeOK
<1>1. Init => ContentInv /\ PlacesInv /\ TypesInv
  BY InitContent, InitPlaces, InitTypes
<1>2. /\ IInv /\ ContentInv /\ [Next]_vars => ContentInv'
      /\ IInv /\ IInv' /\ ContentInv /\ PlacesInv /\ [Next]_vars => PlacesInv'
      /\ IInv /\ PlacesInv /\ TypesInv /\ [Next]_vars => TypesInv'
  BY NextContent, NextPlaces, NextTypes
<1>3. IInv /\ TypesInv => TypeOK
  <2> SUFFICES ASSUME IInv, TypesInv PROVE TypeOK
    OBVIOUS
  <2>1. Shape
    BY DEF IInv
  <2>2. req \in [Ops -> Requests]
    BY <2>1 DEF Shape, ShapeOfRequests, Requests, TypesInv
  <2> QED
    BY <2>1, <2>2 DEF Shape, TypesInv, TypeOK
<1> QED
  BY <1>1, <1>2, <1>3, Invariance, PTL DEF Spec

=============================================================================
