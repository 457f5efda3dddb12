----------------------------- MODULE MCFfiCall -----------------------------
(***************************************************************************)
(* FfiCall with words of 7 bits, ints of 4, doubles of 5 significant bits  *)
(* and floats of 2: integers that one or the other of them holds or not,   *)
(* and a floating value that no word holds.                                *)
(***************************************************************************)
EXTENDS FfiCall

IntegralSample == {-3, 12, 32}
HalfSample == {25, 301}
PointerSample == {0, 31, 32, 33, 63, 64, 96, 127}
=============================================================================
