------------------------------ MODULE MCUploads ------------------------------
(* Instances of Uploads for TLC. *)
EXTENDS Uploads

(* Two documents stored before, of different types. *)
TwoStored == <<"runbook", "postmortem">>
=============================================================================
