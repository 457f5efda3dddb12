----------------------------- MODULE MCTelnet -----------------------------
(* Telnet for TLC: what the user types. *)
EXTENDS Telnet

\* An interrupt, of which one byte is sent, and 0x11; or plain keys.
InterruptAndQuit == <<"ff", "f2", "03", "quit">>
TwoKeys == <<"char", "char">>
=============================================================================
