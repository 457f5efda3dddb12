----------------------------- MODULE ForkOutput -----------------------------
(***************************************************************************)
(* What can be seen of test2.js from outside: its two processes, and the   *)
(* lines on its stdout, which is a terminal or not.  Fork is the program.  *)
(***************************************************************************)
EXTENDS Integers, Sequences

VARIABLES
  unbuffered, \* stdout is a terminal, or console.log() flushes it
  parent,     \* where the parent is, or how it has ended
  child,      \* where the child is; "zombie" once it has ended, then "reaped"
  out,        \* lines that have come out
  kills       \* how many of the processes a signal has ended

Lines == {"in child", "parent is", "_exit", "in parent", "status"}
FromChild == {"in child", "parent is", "_exit"}

\* The lines that have come out, and the place of each in the program of its process.
Came(l) == \E i \in DOMAIN out : out[i] = l
Place(l) == IF l \in {"in child", "in parent"} THEN 1 ELSE IF l = "_exit" THEN 3 ELSE 2

\* The lines of each process come out in its order and none twice, though fork()
\* copies what stdio holds. When the parent has ended, both of its lines are
\* there. Of the child's lines all are there then, unless it was killed, if stdout
\* is not buffered; and none ever comes out if it is.
OutputExact ==
  /\ \A i, j \in DOMAIN out :
       i < j /\ (out[i] \in FromChild <=> out[j] \in FromChild) => Place(out[i]) < Place(out[j])
  /\ parent = "ended" => Came("in parent") /\ Came("status")
  /\ unbuffered /\ parent = "ended" /\ child = "reaped" /\ kills = 0 =>
       \A l \in FromChild : Came(l)
  /\ ~unbuffered => \A l \in FromChild : ~Came(l)
=============================================================================
