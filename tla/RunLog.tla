-------------------------------- MODULE RunLog --------------------------------
(***************************************************************************)
(* What the Run repository promises: the Run's record (state and read      *)
(* model, one value) and its event log change together or not at all, and  *)
(* an event, once logged, is never lost, repeated or moved, whatever dies  *)
(* in between.  RunRepository implements it.                               *)
(***************************************************************************)
EXTENDS Sequences

CONSTANTS Records, Events, InitialRecord

VARIABLES record, log

logVars == <<record, log>>

Logged(e) == \E i \in DOMAIN log : log[i] = e

Init ==
  /\ record = InitialRecord
  /\ log = <<>>

(* commit_projection.                                                      *)
Commit(r) ==
  /\ record' = r
  /\ log' = log

(* commit_projection_with_event.                                           *)
CommitWithEvent(r, e) ==
  /\ ~Logged(e)
  /\ record' = r
  /\ log' = Append(log, e)

(* append_event.                                                           *)
LogEvent(e) ==
  /\ ~Logged(e)
  /\ log' = Append(log, e)
  /\ record' = record

Next ==
  \/ \E r \in Records : Commit(r)
  \/ \E r \in Records, e \in Events : CommitWithEvent(r, e)
  \/ \E e \in Events : LogEvent(e)

Spec == Init /\ [][Next]_logVars
===============================================================================
