------------------------------- MODULE FdSet -------------------------------
(***************************************************************************)
(* fd_set, the FD_* functions and select() of examples/socket.js, as the   *)
(* main loops of the examples use them.  An fd_set is the set of           *)
(* descriptors whose bit is set.                                           *)
(***************************************************************************)
EXTENDS Integers

\* +undefined, a number that is no descriptor.
NaN == -1

\* The byte and the bit of a descriptor; >> and & make 0 of NaN.
Bit(fd) == IF fd = NaN THEN 0 ELSE fd

FD_SET(fd, set) == set \cup {Bit(fd)}
FD_CLR(fd, set) == set \ {Bit(fd)}
FD_ISSET(fd, set) == Bit(fd) \in set

\* Called with one argument, as all callers do: new Uint8Array(undefined) is
\* empty, and the set given in the place of fd stays as it is.
FD_ZERO(fd) == fd

\* A mutant of select: rfds is left as it was.
select_writes(rfds, wfds, R, W, interrupted) ==
  IF interrupted THEN <<rfds, wfds>> ELSE <<rfds, wfds \cap W>>

\* What the sets rfds and wfds hold after select(), when R and W are ready: the
\* ready ones, none of them after the timeout; or, when a signal has interrupted
\* it, what they held before. The callers do not tell these apart.
select(rfds, wfds, R, W, interrupted) ==
  IF interrupted THEN <<rfds, wfds>> ELSE <<rfds \cap R, wfds \cap W>>
=============================================================================
