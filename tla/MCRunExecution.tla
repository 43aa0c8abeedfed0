---------------------------- MODULE MCRunExecution ----------------------------
(* Small instances of RunExecution for TLC.                                *)
EXTENDS RunExecution, TLC

MCRoute == <<"brief", "plan", "text", "text">>
MCMandatory == {"brief", "text"}
MCRedraftLimit == [s \in {"brief", "plan", "text"} |-> IF s = "text" THEN 1 ELSE 0]

Symmetry == Permutations(Directions)
=============================================================================
