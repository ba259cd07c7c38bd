---------------------------- MODULE LoopContract ----------------------------
(***************************************************************************)
(* What the rest of the system relies on about one attempt at a run,       *)
(* whatever the model answers: the form in which AgentRuns contains it.    *)
(*                                                                         *)
(* An attempt takes numbered steps, one at a time and in order, at most    *)
(* one past its budget; a finish step is reported at most once and last;   *)
(* and it ends with an outcome, or is cancelled and ends with none.        *)
(***************************************************************************)
EXTENDS Naturals

CONSTANT MaxSteps

VARIABLES pc,      \* "loop", "report", "detail", "finish" or "cancelled"
          number,  \* the last step begun
          count,   \* the steps recorded
          kind,    \* whether the step being reported is a finish
          next     \* where the attempt goes once that step is recorded

vars == <<pc, number, count, kind, next>>

Terminal == {"SUCCEEDED", "FAILED"}

Init == pc = "loop" /\ number = 0 /\ count = 0 /\ kind = "work" /\ next = "loop"

Decide ==
  /\ pc = "loop"
  /\ pc' = "report"
  /\ number' = number + 1
  /\ \/ kind' = "finish" /\ next' = "SUCCEEDED"
     \/ kind' = "work" /\ next' = "FAILED"
     \/ kind' = "work" /\ next' = "loop" /\ number < MaxSteps
  /\ UNCHANGED count

ModelFails ==
  /\ pc = "loop"
  /\ number < MaxSteps
  /\ pc' = "finish"
  /\ number' = number + 1
  /\ next' = "FAILED"
  /\ UNCHANGED <<count, kind>>

CreateStep ==
  /\ pc = "report"
  /\ pc' = "detail"
  /\ UNCHANGED <<number, count, kind, next>>

CreateDetail ==
  /\ pc = "detail"
  /\ pc' = IF next = "loop" THEN "loop" ELSE "finish"
  /\ count' = count + 1
  /\ UNCHANGED <<number, kind, next>>

ReportFails ==
  /\ pc \in {"report", "detail"}
  /\ pc' = "finish"
  /\ next' = "FAILED"
  /\ UNCHANGED <<number, count, kind>>

(* What the attempt had in hand goes with it.                              *)
Cancel ==
  /\ pc \in {"loop", "report", "detail"}
  /\ pc' = "cancelled"
  /\ number' = 0 /\ count' = 0 /\ kind' = "work" /\ next' = "loop"

Next == Decide \/ ModelFails \/ CreateStep \/ CreateDetail \/ ReportFails \/ Cancel

Spec == Init /\ [][Next]_vars
=============================================================================
