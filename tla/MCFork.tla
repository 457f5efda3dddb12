------------------------------- MODULE MCFork -------------------------------
(* Either process, or both, may be killed. *)
EXTENDS Fork
=============================================================================
