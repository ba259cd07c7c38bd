----------------------------- MODULE MCAgentRuns -----------------------------
(* Instances of AgentRuns for TLC. *)
EXTENDS AgentRuns

(* Every run investigates the one incident.                                *)
OneIncident == [r \in Runs |-> CHOOSE i \in Incidents : TRUE]
=============================================================================
