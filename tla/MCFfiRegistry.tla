--------------------------- MODULE MCFfiRegistry ---------------------------
(***************************************************************************)
(* Small instances of FfiRegistry for TLC.                                 *)
(***************************************************************************)
EXTENDS FfiRegistry

CONSTANTS i, int   \* the one known type name and its ffi_type

OneType == [t \in {i} |-> int]
=============================================================================
