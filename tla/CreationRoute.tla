---------------------------- MODULE CreationRoute ----------------------------
(***************************************************************************)
(* What a Run promises its author: the units of the route are committed    *)
(* one by one and in order, a unit whose stage needs a decision only once  *)
(* the author has granted it, nothing committed is ever taken back, and a  *)
(* Run that has ended stays as it is.  RunExecution implements it.         *)
(***************************************************************************)
EXTENDS Naturals, Sequences

CONSTANTS
  Drafts,     \* candidates, each with the unit it is for
  Route,      \* the stage of each unit
  Mandatory   \* the stages that need a decision

VARIABLES
  status,     \* open, completed or cancelled
  artifacts,  \* the committed units
  granted,    \* drafts the author accepted
  withdrawn   \* whether the author cancelled

routeVars == <<status, artifacts, granted, withdrawn>>

Init ==
  /\ status = "open"
  /\ artifacts = <<>>
  /\ granted = {}
  /\ withdrawn = FALSE

Grant ==
  /\ \E draft \in granted' : draft \in Drafts /\ granted' = granted \cup {draft}
  /\ UNCHANGED <<status, artifacts, withdrawn>>

Withdraw ==
  /\ withdrawn' = TRUE
  /\ UNCHANGED <<status, artifacts, granted>>

(* A step of the Run commits any number of units.                          *)
Advance ==
  /\ status = "open"
  /\ Len(artifacts') <= Len(Route)
  /\ SubSeq(artifacts', 1, Len(artifacts)) = artifacts
  /\ \A u \in Len(artifacts) + 1 .. Len(artifacts') :
       /\ artifacts'[u].unit = u
       /\ Route[u] \in Mandatory => artifacts'[u] \in granted
  /\ \/ status' = "open"
     \/ status' = "completed" /\ Len(artifacts') = Len(Route)
     \/ status' = "cancelled" /\ withdrawn
  /\ UNCHANGED <<granted, withdrawn>>

Next ==
  \/ Grant
  \/ Withdraw
  \/ Advance

Spec == Init /\ [][Next]_routeVars
==============================================================================
