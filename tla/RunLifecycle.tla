----------------------------- MODULE RunLifecycle -----------------------------
(***************************************************************************)
(* What an investigation promises to whoever reads it, with the queue, the *)
(* workers, the leases and the sweep left out.                             *)
(*                                                                         *)
(* A run is created once, is started one or more times, records numbered   *)
(* steps while it is running, and ends once.  Starting it again begins its *)
(* timeline again (ADR 0009): no reader ever finds two attempts spliced    *)
(* into one timeline, a gap in the numbering, or a row that moves after    *)
(* the run has ended.                                                      *)
(***************************************************************************)
EXTENDS Naturals

CONSTANTS Runs,        \* run identifiers
          Incidents,   \* incident identifiers
          IncidentOf   \* the incident each run investigates

VARIABLES status,      \* agent_runs.status, "NONE" before the row exists
          attempts,    \* how many times the run has been started
          timeline     \* the step numbers a reader of the run finds

vars == <<status, attempts, timeline>>

Active   == {"PENDING", "RUNNING"}
Terminal == {"SUCCEEDED", "FAILED"}

Init ==
  /\ status   = [r \in Runs |-> "NONE"]
  /\ attempts = [r \in Runs |-> 0]
  /\ timeline = [r \in Runs |-> {}]

(* A run may be created for an incident that has none in progress.         *)
Create(r) ==
  /\ status[r] = "NONE"
  /\ \A q \in Runs : IncidentOf[q] = IncidentOf[r] => status[q] \notin Active
  /\ status' = [status EXCEPT ![r] = "PENDING"]
  /\ UNCHANGED <<attempts, timeline>>

(* Starting counts an attempt and empties the timeline in one step.        *)
Start(r) ==
  /\ status[r] \in Active
  /\ status'   = [status EXCEPT ![r] = "RUNNING"]
  /\ attempts' = [attempts EXCEPT ![r] = @ + 1]
  /\ timeline' = [timeline EXCEPT ![r] = {}]

(* The next step of the numbering, and never another.                      *)
Record(r) ==
  /\ status[r] = "RUNNING"
  /\ \E n \in timeline[r] \cup {0} :
       /\ timeline[r] = 1..n
       /\ timeline' = [timeline EXCEPT ![r] = 1..(n + 1)]
  /\ UNCHANGED <<status, attempts>>

(* Ending is final: no action is enabled for the run afterwards.           *)
End(r) ==
  /\ status[r] = "RUNNING"
  /\ \E s \in Terminal : status' = [status EXCEPT ![r] = s]
  /\ UNCHANGED <<attempts, timeline>>

Next == \E r \in Runs : Create(r) \/ Start(r) \/ Record(r) \/ End(r)

Spec == Init /\ [][Next]_vars
=============================================================================
