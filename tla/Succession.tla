------------------------------ MODULE Succession ------------------------------
(***************************************************************************)
(* What creation, amendments and branches promise for one project: its     *)
(* Runs form one line that only grows at its end, each Run in it the only  *)
(* successor of the amended Run before it, and a branch that was           *)
(* acknowledged is in that line.  ProjectLineage implements it.            *)
(*                                                                         *)
(* A Run's name is the sequence of commands it came from: the root and the *)
(* branches taken since.                                                   *)
(***************************************************************************)
EXTENDS Naturals, Sequences, SequencesExt

VARIABLES
  born,       \* the Runs that exist
  amended,    \* those with an applied amendment
  lineage,    \* the project's Runs, oldest first
  resolved    \* amended Runs whose branch was acknowledged

successionVars == <<born, amended, lineage, resolved>>

IsRoot(run) == Len(run) = 1
Source(run) == Front(run)

Init ==
  /\ born = {}
  /\ amended = {}
  /\ lineage = <<>>
  /\ resolved = {}

CreateRoot(run) ==
  /\ IsRoot(run) /\ run \notin born
  /\ born' = born \cup {run}
  /\ UNCHANGED <<amended, lineage, resolved>>

(* The project's first Run is registered.                                  *)
Found ==
  /\ lineage = <<>>
  /\ \E run \in born : IsRoot(run) /\ lineage' = <<run>>
  /\ UNCHANGED <<born, amended, resolved>>

Amend ==
  /\ \E run \in born \ amended : amended' = amended \cup {run}
  /\ UNCHANGED <<born, lineage, resolved>>

(* A successor of the latest Run, which is amended and has none yet.       *)
CreateSuccessor(run) ==
  /\ ~IsRoot(run) /\ lineage # <<>>
  /\ Source(run) = Last(lineage) /\ Source(run) \in amended
  /\ \A other \in born : ~IsRoot(other) => Source(other) # Source(run)
  /\ born' = born \cup {run}
  /\ UNCHANGED <<amended, lineage, resolved>>

Extend ==
  /\ lineage # <<>>
  /\ \E run \in born :
       /\ ~IsRoot(run) /\ Source(run) = Last(lineage)
       /\ lineage' = Append(lineage, run)
  /\ UNCHANGED <<born, amended, resolved>>

Resolve ==
  /\ \E run \in ToSet(lineage) :
       /\ ~IsRoot(run)
       /\ resolved' = resolved \cup {Source(run)}
  /\ UNCHANGED <<born, amended, lineage>>

Next ==
  \/ \E run \in born' \ born : CreateRoot(run) \/ CreateSuccessor(run)
  \/ Found
  \/ Amend
  \/ Extend
  \/ Resolve

Spec == Init /\ [][Next]_successionVars
===============================================================================
