----------------------------- MODULE MCWrappers -----------------------------
(* A function of the process, one of the library, one of both.   *)
EXTENDS Wrappers
=============================================================================
