----------------------------- MODULE ProviderCall -----------------------------
(***************************************************************************)
(* What one Provider operation promises, whoever runs it and whatever      *)
(* crashes: a bounded number of calls, at most one recorded answer, and at *)
(* most one verdict on that answer, none of which is ever taken back.      *)
(* ProviderOperation implements it.                                        *)
(***************************************************************************)
EXTENDS Naturals

CONSTANTS Answers,    \* what the Provider may answer
          Acceptable, \* the answers that satisfy the Artifact contract
          NoAnswer,
          MaxCalls

VARIABLES phase,  \* "open", "answered", "accepted" or "rejected"
          calls,  \* how many times the Provider was called
          answer  \* the recorded answer

callVars == <<phase, calls, answer>>

Init ==
  /\ phase = "open"
  /\ calls = 0
  /\ answer = NoAnswer

Call ==
  /\ phase = "open"
  /\ calls < MaxCalls
  /\ calls' = calls + 1
  /\ UNCHANGED <<phase, answer>>

Answer(a) ==
  /\ phase = "open"
  /\ calls > 0
  /\ phase' = "answered"
  /\ answer' = a
  /\ UNCHANGED calls

Accept ==
  /\ phase = "answered"
  /\ answer \in Acceptable
  /\ phase' = "accepted"
  /\ UNCHANGED <<calls, answer>>

Reject ==
  /\ phase = "answered"
  /\ phase' = "rejected"
  /\ UNCHANGED <<calls, answer>>

Next == Call \/ (\E a \in Answers : Answer(a)) \/ Accept \/ Reject

Spec == Init /\ [][Next]_callVars
===============================================================================
