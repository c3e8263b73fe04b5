----------------------------- MODULE MCJobsList -----------------------------
(* Instances of JobsList for TLC. *)
EXTENDS JobsList

AllFaults == {"open", "get_jobs"}
NoFaults == {}
=============================================================================
