------------------------------ MODULE FfiTypes ------------------------------
(***************************************************************************)
(* The table of type names of ffi.so, which js_init fills.  The table is   *)
(* static data of the shared object, but js_init runs for every module     *)
(* that is made from it: one for each path the object is imported by.      *)
(***************************************************************************)
EXTENDS Integers, Sequences

CONSTANTS
  NULL,
  MaxInits    \* bound: modules made from ffi.so

VARIABLES
  types,    \* ffi_type_head, head first
  step,     \* the line of define_types that comes next; 0 outside js_init
  inits,    \* js_init calls that have ended
  process   \* "running"; "exited" by fatal(); "crashed"

vars == <<types, step, inits, process>>

\* The lines of define_types: a name and the libffi type it stands for.
define_types ==
  << <<"void", "void">>, <<"sint8", "sint8">>, <<"sint16", "sint16">>,
     <<"sint32", "sint32">>, <<"sint64", "sint64">>, <<"uint8", "uint8">>,
     <<"uint16", "uint16">>, <<"uint32", "uint32">>, <<"uint64", "uint64">>,
     <<"float", "float">>, <<"double", "double">>, <<"schar", "schar">>,
     <<"uchar", "uchar">>, <<"sshort", "sshort">>, <<"ushort", "ushort">>,
     <<"sint", "sint">>, <<"uint", "uint">>, <<"slong", "slong">>,
     <<"ulong", "ulong">>, <<"longdouble", "longdouble">>, <<"pointer", "pointer">>,
     <<"int", "sint">>, <<"long", "slong">>, <<"short", "sshort">>,
     <<"char", "schar">>, <<"size_t", "uint">>, <<"unsigned char", "uchar">>,
     <<"unsigned int", "uint">>, <<"unsigned long", "ulong">>,
     <<"void *", "pointer">>, <<"char *", "pointer">>,
     <<"string", "pointer">>, <<"buffer", "pointer">> >>

Lines == DOMAIN define_types
Name(k) == define_types[k][1]
Type(k) == define_types[k][2]

ASSUME TypesAssumption == MaxInits \in Nat /\ \A k \in Lines : Name(k) # NULL

\* A struct ffi_type_s; its name is NULL when strdup has failed.
FfiTypeS == [name : {Name(k) : k \in Lines} \cup {NULL}, type : {Type(k) : k \in Lines}]

\* The nodes that find_ffi_type looks at for name: up to the one that has it.
Walk(name) == {i \in DOMAIN types : \A j \in 1..(i - 1) : types[j].name # name}
Known(name) == \E i \in DOMAIN types : types[i].name = name
find_ffi_type(name) ==
  IF Known(name) THEN types[CHOOSE i \in Walk(name) : types[i].name = name].type ELSE NULL

\* strcmp of a NULL name.
WalkCrashes(name) == \E i \in Walk(name) : types[i].name = NULL

-----------------------------------------------------------------------------

\* A module made from ffi.so is initialised.
js_init ==
  /\ process = "running"
  /\ step = 0
  /\ inits < MaxInits
  /\ step' = 1
  /\ UNCHANGED <<types, inits, process>>

\* A mutant of LineDone: define_types leaves out the last line.
LineDoneEarly ==
  /\ step' = IF step + 2 \in Lines THEN step + 1 ELSE 0
  /\ inits' = IF step + 2 \in Lines THEN inits ELSE inits + 1

\* The line is done: on to the next, and to the end of js_init.
LineDone ==
  /\ step' = IF step + 1 \in Lines THEN step + 1 ELSE 0
  /\ inits' = IF step + 1 \in Lines THEN inits ELSE inits + 1

\* define_ffi_type, from a line of define_types.
AtLine == process = "running" /\ step \in Lines

\* The name is known already.
KnownType ==
  /\ AtLine
  /\ ~WalkCrashes(Name(step))
  /\ Known(Name(step))
  /\ LineDone
  /\ UNCHANGED <<types, process>>

\* A mutant of NewType: a known name gets another node.
NewTypeUnchecked ==
  /\ AtLine
  /\ ~WalkCrashes(Name(step))
  /\ \E n \in {Name(step), NULL} :
       types' = <<[name |-> n, type |-> Type(step)]>> \o types
  /\ LineDone
  /\ UNCHANGED process

\* A new head. The result of strdup is not looked at.
NewType ==
  /\ AtLine
  /\ ~WalkCrashes(Name(step))
  /\ ~Known(Name(step))
  /\ \E n \in {Name(step), NULL} :
       types' = <<[name |-> n, type |-> Type(step)]>> \o types
  /\ LineDone
  /\ UNCHANGED process

\* No memory for the node: fatal().
NoMemory ==
  /\ AtLine
  /\ ~WalkCrashes(Name(step))
  /\ ~Known(Name(step))
  /\ process' = "exited"
  /\ UNCHANGED <<types, step, inits>>

Crash ==
  /\ AtLine
  /\ WalkCrashes(Name(step))
  /\ process' = "crashed"
  /\ UNCHANGED <<types, step, inits>>

Init ==
  /\ types = <<>>
  /\ step = 0
  /\ inits = 0
  /\ process = "running"

\* All modules are made, or the process is gone.
Terminated ==
  /\ process # "running" \/ (step = 0 /\ inits = MaxInits)
  /\ UNCHANGED vars

Next == js_init \/ KnownType \/ NewType \/ NoMemory \/ Crash \/ Terminated

Spec == Init /\ [][Next]_vars

-----------------------------------------------------------------------------
(* Properties *)

\* The state has its types.
TypeOK ==
  /\ types \in Seq(FfiTypeS)
  /\ step \in Lines \cup {0}
  /\ inits \in 0..MaxInits
  /\ process \in {"running", "exited", "crashed"}

\* However often js_init runs, a type name has one node, and the table has no
\* more nodes than define_types has lines.
NamesOnce ==
  /\ \A i, j \in DOMAIN types : types[i].name = types[j].name => i = j
  /\ Len(types) <= Len(define_types)

\* Once a module is made, every name stands for its type, also while js_init
\* runs again, if memory was never short.
TypesReady ==
  inits > 0 /\ (\A i \in DOMAIN types : types[i].name # NULL) =>
    \A k \in Lines : find_ffi_type(Name(k)) = Type(k)
=============================================================================
