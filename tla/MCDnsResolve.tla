--------------------------- MODULE MCDnsResolve ---------------------------
(* DnsResolve for TLC. *)
EXTENDS DnsResolve
CONSTANTS server, other
TwoHosts == {server, other}
=============================================================================
