------------------------------ MODULE MCLabFaults ------------------------------
(* Instances of LabFaults for TLC. *)
EXTENDS LabFaults
=============================================================================
