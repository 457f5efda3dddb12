---------------------------- MODULE MCFfiTypes ----------------------------
(* FfiTypes for TLC: the real list of types, three modules. *)
EXTENDS FfiTypes
=============================================================================
