------------------------------ MODULE Bindings ------------------------------
(***************************************************************************)
(* What define() and call() of ffi.so promise to a script, without the     *)
(* linked list, the heap, the C strings and the call frames: a table from  *)
(* names to bindings in which an entry, once made, is there for good, and  *)
(* the native calls in progress, each of which keeps the binding that its  *)
(* name had when it was looked up.                                         *)
(***************************************************************************)
CONSTANTS
  Names,     \* names a script may give to define() and call()
  Binding,   \* what a name may be bound to: function, ABI and prototype
  Unbound,   \* the entry of a name that is not defined
  Calls      \* identities of native calls in progress

VARIABLES
  bound,     \* [Names -> Binding \cup {Unbound}]
  active,    \* the native calls in progress: set of <<call, binding>>
  alive      \* FALSE once the process has exited

vars == <<bound, active, alive>>

Init ==
  /\ bound = [n \in Names |-> Unbound]
  /\ active = {}
  /\ alive = TRUE

\* A name without a binding gets one.
Bind(n, b) ==
  /\ alive
  /\ bound[n] = Unbound
  /\ bound' = [bound EXCEPT ![n] = b]
  /\ UNCHANGED <<active, alive>>

\* A native call starts, with the binding of its name.
Invoke(c, n) ==
  /\ alive
  /\ bound[n] # Unbound
  /\ \A x \in active : x[1] # c
  /\ active' = active \cup {<<c, bound[n]>>}
  /\ UNCHANGED <<bound, alive>>

\* A native call comes back.
Return(c) ==
  /\ alive
  /\ \E x \in active : x[1] = c /\ active' = active \ {x}
  /\ UNCHANGED <<bound, alive>>

\* The process exits: fatal() when there is no memory.
Exit ==
  /\ alive
  /\ alive' = FALSE
  /\ UNCHANGED <<bound, active>>

Next ==
  \/ \E n \in Names, b \in Binding : Bind(n, b)
  \/ \E c \in Calls, n \in Names : Invoke(c, n)
  \/ \E c \in Calls : Return(c)
  \/ Exit

Spec == Init /\ [][Next]_vars
=============================================================================
