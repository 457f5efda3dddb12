----------------------------- MODULE MCBuffers -----------------------------
(* Descriptors on both sides of the limits of a byte and of the set; numbers   *)
(* that need one, two and all bytes of a field; labels at the limits of DNS    *)
(* and of a byte; all offsets of a word of 8 bits.                             *)
EXTENDS Buffers

NearLimits == {NaN, -2, 0, 7, 8, 15, 16}
Numbers == {-1, 258, 65536}
=============================================================================
