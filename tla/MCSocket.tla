------------------------------ MODULE MCSocket ------------------------------
(* Three Sockets and room for two descriptors besides the standard input. *)
EXTENDS Socket, TLC

Symmetric == Permutations(Objects)
=============================================================================
