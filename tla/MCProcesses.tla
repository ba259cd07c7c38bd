----------------------------- MODULE MCProcesses ----------------------------
(* Two workers that start at once, one of which may be told to stop, and     *)
(* each other kind of process by itself.                                     *)
EXTENDS Processes

CONSTANTS p1, p2
MCPair(k1, k2) ==
    [kinds |-> [p \in {p1, p2} |-> IF p = p1 THEN k1 ELSE k2], stoppable |-> {p1}]
MCAlone(k) == [kinds |-> [p \in {p1} |-> k], stoppable |-> {p1}]
MCFleets == {MCPair("ingestion-worker", "ingestion-worker"),
             MCPair("ingestion-worker", "agent-worker"),
             MCAlone("agent-worker"), MCAlone("api"), MCAlone("ops-mcp")}
MCTopics == <<"documents.ingest.v1", "agent.runs.v1">>
=============================================================================
