---------------------------- MODULE FfiRegistry ----------------------------
(***************************************************************************)
(* The function table of ffi.so: js_define and js_call with                *)
(* define_function and call_function, which they wrap.                     *)
(*                                                                         *)
(* QuickJS is single-threaded, but these handlers are not atomic: an       *)
(* argument that is an object is converted by its own toString or valueOf  *)
(* method, which may call define() and call() again, and a native function *)
(* may re-enter the interpreter through the JSContext that ffi.so exports. *)
(* The state therefore holds a stack of frames, one per handler in         *)
(* progress.  Only the last one runs; it stops only where JavaScript can   *)
(* run.  Between two such points the C code is one step.                   *)
(*                                                                         *)
(* The values of the parameters and of the result are in FfiCall.          *)
(***************************************************************************)
EXTENDS Integers, Sequences, FiniteSets

CONSTANTS
  Names,            \* strings given as function names
  Fps,              \* non-null function pointers
  Dummy,            \* dummy_, the function a null pointer stands for
  AbiNames,         \* strings given as ABI names
  KnownAbis,        \* those that the FFI_* macros of the build know
  DefaultAbi,       \* FFI_DEFAULT_ABI
  TypeNames,        \* strings given as type names
  StandardTypes,    \* what define_types makes of them: name -> ffi_type
  Addr,             \* addresses malloc may return for a function_s
  NULL,
  MAX_PARAMETERS,   \* the constant of that name
  MaxArgs,          \* bound: arguments given after the fixed ones
  MaxDepth          \* bound: handlers in progress at once

ASSUME RegistryAssumption ==
  /\ MAX_PARAMETERS \in Nat /\ MaxArgs \in Nat /\ MaxDepth \in Nat
  /\ DOMAIN StandardTypes \subseteq TypeNames
  /\ KnownAbis \subseteq AbiNames
  /\ NULL \notin Names \cup Fps \cup {Dummy} \cup AbiNames \cup TypeNames \cup Addr
  /\ \A t \in DOMAIN StandardTypes : StandardTypes[t] # NULL

VARIABLES
  list,     \* function_list, head first: addresses of function_s nodes
  nodes,    \* the contents of the nodes, by address
  blocks,   \* live malloc blocks of the table: <<address, what it holds>>
  stack,    \* frames of the handlers in progress, the running one last
  cstrs,    \* C strings not yet freed: <<depth of the frame, slot>>
  temps,    \* live malloc blocks of call_function: <<depth, what it holds>>
  ret,      \* what the handler that ended in the last step returned
  exited    \* exit(2) was called

vars == <<list, nodes, blocks, stack, cstrs, temps, ret, exited>>

-----------------------------------------------------------------------------
(* Types of the state *)

\* ffi_type objects the type table knows.
FfiTypes == {StandardTypes[t] : t \in DOMAIN StandardTypes}

\* What a name is bound to: function, ABI and prototype, as in the ffi_cif.
Binding ==
  [fp : Fps \cup {Dummy}, abi : AbiNames \cup {DefaultAbi}, rtype : FfiTypes,
   args : Seq(FfiTypes)]

ASSUME NullAssumption == NULL \notin Binding

\* The fields of struct function_s; nargs is the length of args.
Node == [name : Names, b : Binding]

\* A js_define or js_call in progress. pc is the argument it converts next
\* ("argv4": the types), or "native" while the C function runs. params are
\* the converted types, given the number of types on the command line,
\* fl the number of string parameters of a call.
Frame ==
  [op : {"define", "call"},
   pc : {"argv0", "argv1", "argv2", "argv3", "argv4", "native"},
   name : Names \cup {NULL}, fp : Fps \cup {NULL}, abi : AbiNames \cup {NULL},
   rtype : TypeNames \cup {NULL},
   params : Seq(TypeNames \cup {NULL}), given : Nat, fl : Nat, node : Addr \cup {NULL}]

NewFrame(op, given) ==
  [op |-> op, pc |-> "argv0", name |-> NULL, fp |-> NULL, abi |-> NULL,
   rtype |-> NULL, params |-> <<>>, given |-> given, fl |-> 0, node |-> NULL]

Depth == Len(stack)
Top == stack[Depth]
Pop == SubSeq(stack, 1, Depth - 1)
Linked == {list[i] : i \in DOMAIN list}

\* The things of kinds K that belong to x; what every x of F's domain owns.
Own(x, K) == {<<x, k>> : k \in K}
Owned(F) == UNION {Own(x, F[x]) : x \in DOMAIN F}

-----------------------------------------------------------------------------
(* Lookups *)

\* Mutants of find_function: the walk stops before the last node; it returns the
\* last node, for want of a test for NULL.
find_function_but_last(n) ==
  LET hits == {i \in 1..(Len(list) - 1) : nodes[list[i]].name = n}
  IN  IF hits = {} THEN NULL
      ELSE list[CHOOSE i \in hits : \A j \in hits : i <= j]
find_function_last(n) ==
  LET hits == {i \in DOMAIN list : nodes[list[i]].name = n}
  IN  IF list = <<>> THEN NULL
      ELSE list[CHOOSE i \in hits \cup {Len(list)} : \A j \in hits : i <= j]

\* The walk of define_function and call_function along function_list.
find_function(n) ==
  LET hits == {i \in DOMAIN list : nodes[list[i]].name = n}
  IN  IF hits = {} THEN NULL
      ELSE list[CHOOSE i \in hits : \A j \in hits : i <= j]

find_ffi_type(t) == IF t \in DOMAIN StandardTypes THEN StandardTypes[t] ELSE NULL

\* An ABI that is not given, or that no macro of the build knows, is the default.
find_abi(a) == IF a \in KnownAbis THEN a ELSE DefaultAbi

\* The types that reach define_function end at the first one that is NULL.
Nargs(params) ==
  Cardinality({k \in 1..Len(params) : \A i \in 1..k : params[i] # NULL})

-----------------------------------------------------------------------------
(* Starting a handler *)

\* A mutant of MoreTypes: one parameter too many.
MoreTypesInclusive(f) == Len(f.params) < f.given /\ Len(f.params) <= MAX_PARAMETERS

\* There is a type to convert, and room for it in params[].
MoreTypes(f) == Len(f.params) < f.given /\ Len(f.params) < MAX_PARAMETERS

\* JavaScript may run: at top level, in a conversion method of the argument that
\* the last handler converts, or called back by its native function. A
\* js_define with no type left to convert runs on to its end.
InScript == stack # <<>> => Top.pc # "argv4" \/ MoreTypes(Top)

\* A script calls define() or call().
Begin(op, given) ==
  /\ ~exited
  /\ InScript
  /\ Depth < MaxDepth
  /\ stack' = Append(stack, NewFrame(op, given))
  /\ ret' = "none"
  /\ UNCHANGED <<list, nodes, blocks, cstrs, temps, exited>>

\* The last frame is that of handler op, about to take the step of pc.
At(op, pc) ==
  /\ ~exited
  /\ stack # <<>>
  /\ Top.op = op
  /\ Top.pc = pc

-----------------------------------------------------------------------------
(* js_define *)

\* Where js_define holds a C string: the index in argv of its argument.
DefineSlots(f) ==
  (IF f.name # NULL THEN {0} ELSE {})
    \cup (IF f.abi # NULL THEN {2} ELSE {})
    \cup (IF f.rtype # NULL THEN {3} ELSE {})
    \cup {3 + k : k \in {i \in DOMAIN f.params : f.params[i] # NULL}}

\* The label error of js_define, where every path ends.
DefineReturn(r) ==
  /\ cstrs' = cstrs \ Own(Depth, DefineSlots(Top))
  /\ stack' = Pop
  /\ ret' = r

\* An argument was converted: on to the next, with f for the frame.
Converted(f, held) ==
  /\ stack' = [stack EXCEPT ![Depth] = f]
  /\ cstrs' = cstrs \cup Own(Depth, held)
  /\ ret' = "none"

\* The arguments in order. null, undefined and a dlsym() that found nothing
\* convert to the pointer 0; a null ABI is not converted; a type that cannot be
\* converted is stored as NULL, and the loop goes on.
DefineArgument ==
  /\ \/ /\ At("define", "argv0")
        /\ \E n \in Names : Converted([Top EXCEPT !.name = n, !.pc = "argv1"], {0})
     \/ /\ At("define", "argv1")
        /\ \E p \in Fps \cup {NULL} : Converted([Top EXCEPT !.fp = p, !.pc = "argv2"], {})
     \/ /\ At("define", "argv2")
        /\ \/ Converted([Top EXCEPT !.pc = "argv3"], {})
           \/ \E a \in AbiNames : Converted([Top EXCEPT !.abi = a, !.pc = "argv3"], {2})
     \/ /\ At("define", "argv3")
        /\ \E t \in TypeNames : Converted([Top EXCEPT !.rtype = t, !.pc = "argv4"], {3})
     \/ /\ At("define", "argv4") /\ MoreTypes(Top)
        /\ \E t \in TypeNames \cup {NULL} :
             Converted([Top EXCEPT !.params = Append(@, t)],
                       IF t = NULL THEN {} ELSE {4 + Len(Top.params)})
  /\ UNCHANGED <<list, nodes, blocks, temps, exited>>

\* One of the first four arguments cannot be converted.
DefineArgumentFails ==
  /\ \E pc \in {"argv0", "argv1", "argv2", "argv3"} : At("define", pc)
  /\ DefineReturn("false")
  /\ UNCHANGED <<list, nodes, blocks, temps, exited>>

\* What define_function allocates for a node with n parameters, and what
\* its label error frees.
NodeBlocks(n) == {"function_s", "name"} \cup (IF n > 0 THEN {"args"} ELSE {})

\* A mutant of ErrorFrees: the parameter types are forgotten.
ErrorFreesNode == {"name", "function_s"}

ErrorFrees == {"args", "name", "function_s"}

FreeAddr == {a \in Addr : \A x \in blocks : x[1] # a}

\* The prototype that the types of f make; it is one if all of them are known.
ParamTypes(f) == [i \in 1..Nargs(f.params) |-> find_ffi_type(f.params[i])]
KnownPrototype(f) ==
  /\ find_ffi_type(f.rtype) # NULL
  /\ \A i \in 1..Nargs(f.params) : find_ffi_type(f.params[i]) # NULL

NewBinding(f) ==
  [fp |-> IF f.fp = NULL THEN Dummy ELSE f.fp, abi |-> find_abi(f.abi),
   rtype |-> find_ffi_type(f.rtype), args |-> ParamTypes(f)]

\* All arguments are converted: define_function runs, then the label error.
AtDefineFunction == At("define", "argv4") /\ ~MoreTypes(Top)

\* A mutant of AlreadyDefined: the new definition replaces the old one.
AlreadyDefinedReplaces ==
  /\ AtDefineFunction
  /\ find_function(Top.name) # NULL /\ KnownPrototype(Top)
  /\ nodes' = [nodes EXCEPT ![find_function(Top.name)].b = NewBinding(Top)]
  /\ DefineReturn("true")
  /\ UNCHANGED <<list, blocks, temps, exited>>

\* The name is in the list: true, whatever the other arguments are.
AlreadyDefined ==
  /\ AtDefineFunction
  /\ find_function(Top.name) # NULL
  /\ DefineReturn("true")
  /\ UNCHANGED <<list, nodes, blocks, temps, exited>>

\* fatal(): the process exits with everything as it is.
NoMemory ==
  /\ exited' = TRUE
  /\ ret' = "none"
  /\ UNCHANGED <<list, nodes, blocks, stack, cstrs, temps>>

DefineNoMemory ==
  /\ AtDefineFunction
  /\ find_function(Top.name) = NULL
  /\ NoMemory

\* A mutant of DefineAdded: the name is not looked up.
DefineAddedUnchecked ==
  /\ AtDefineFunction
  /\ KnownPrototype(Top)
  /\ \E a \in FreeAddr :
       /\ blocks' = blocks \cup Own(a, NodeBlocks(Nargs(Top.params)))
       /\ nodes' = [x \in DOMAIN nodes \cup {a} |->
                      IF x = a THEN [name |-> Top.name, b |-> NewBinding(Top)] ELSE nodes[x]]
       /\ list' = <<a>> \o list
  /\ DefineReturn("true")
  /\ UNCHANGED <<temps, exited>>

\* The prototype is complete and ffi_prep_cif accepts it: a new head.
DefineAdded ==
  /\ AtDefineFunction
  /\ find_function(Top.name) = NULL
  /\ KnownPrototype(Top)
  /\ \E a \in FreeAddr :
       /\ blocks' = blocks \cup Own(a, NodeBlocks(Nargs(Top.params)))
       /\ nodes' = [x \in DOMAIN nodes \cup {a} |->
                      IF x = a THEN [name |-> Top.name, b |-> NewBinding(Top)] ELSE nodes[x]]
       /\ list' = <<a>> \o list
  /\ DefineReturn("true")
  /\ UNCHANGED <<temps, exited>>

\* A mutant of DefineRejected: js_define does not look at the result.
DefineRejectedTrue ==
  /\ AtDefineFunction
  /\ find_function(Top.name) = NULL
  /\ \E a \in FreeAddr :
       blocks' = (blocks \cup Own(a, NodeBlocks(Nargs(Top.params)))) \ Own(a, ErrorFrees)
  /\ DefineReturn("true")
  /\ UNCHANGED <<list, nodes, temps, exited>>

\* A type is not known, or ffi_prep_cif refuses, as it always may.
DefineRejected ==
  /\ AtDefineFunction
  /\ find_function(Top.name) = NULL
  /\ \E a \in FreeAddr :
       blocks' = (blocks \cup Own(a, NodeBlocks(Nargs(Top.params)))) \ Own(a, ErrorFrees)
  /\ DefineReturn("false")
  /\ UNCHANGED <<list, nodes, temps, exited>>

-----------------------------------------------------------------------------
(* js_call *)

\* Where js_call holds a C string: the name, then strings[0..fl - 1].
CallSlots(f) == (IF f.name # NULL THEN {0} ELSE {}) \cup 1..f.fl

\* A mutant of CallFrees: only the name is freed.
CallFreesName(f) == {0}

\* The label error of js_call: f for the locals, freed with the name.
CallFrees(f) == {0} \cup 1..f.fl
CallReturn(f, r) ==
  /\ cstrs' = (cstrs \cup Own(Depth, CallSlots(f))) \ Own(Depth, CallFrees(f))
  /\ stack' = Pop
  /\ ret' = r

\* What call_function allocates, which its own label error frees.
Arrays == {"ptrs", "pointer_list", "arguments"}
Needed(a) == IF nodes[a].b.args = <<>> THEN {} ELSE Arrays

\* The parameters that the loop reaches.
Reached(f) == IF f.given < MAX_PARAMETERS THEN f.given ELSE MAX_PARAMETERS

\* Locals of js_call when k of its parameters were strings. Only the
\* conversion of the name can run JavaScript.
CallLocals(n, k) == [Top EXCEPT !.name = n, !.fl = k]

\* The name cannot be converted; or a parameter, which is no null, boolean,
\* number, string nor ArrayBuffer, and the strings before it are held; or the
\* name is not defined.
CallFails ==
  /\ At("call", "argv0")
  /\ \/ CallReturn(Top, "exception")
     \/ \E n \in Names, k \in 0..Reached(Top) :
          /\ k < Reached(Top) \/ find_function(n) = NULL
          /\ CallReturn(CallLocals(n, k), "exception")
  /\ UNCHANGED <<list, nodes, blocks, temps, exited>>

CallNoMemory ==
  /\ At("call", "argv0")
  /\ \E n \in Names : find_function(n) # NULL /\ Needed(find_function(n)) # {}
  /\ NoMemory

\* The function is found: its arrays are allocated and it is entered.
CallNative ==
  /\ At("call", "argv0")
  /\ \E n \in Names, k \in 0..Reached(Top) :
       /\ find_function(n) # NULL
       /\ stack' = [stack EXCEPT ![Depth] =
                      [CallLocals(n, k) EXCEPT !.node = find_function(n), !.pc = "native"]]
       /\ cstrs' = cstrs \cup Own(Depth, CallSlots(CallLocals(n, k)))
       /\ temps' = temps \cup Own(Depth, Needed(find_function(n)))
  /\ ret' = "none"
  /\ UNCHANGED <<list, nodes, blocks, exited>>

\* A mutant of CallFunctionReturns: pointer_list is not freed.
CallFunctionReturnsLeaks ==
  /\ At("call", "native")
  /\ temps' = temps \ Own(Depth, Arrays \ {"pointer_list"})
  /\ CallReturn(Top, "value")
  /\ UNCHANGED <<list, nodes, blocks, exited>>

\* The native function returns; the node is read again, for the result type.
CallFunctionReturns ==
  /\ At("call", "native")
  /\ temps' = temps \ Own(Depth, Arrays)
  /\ CallReturn(Top, "value")
  /\ UNCHANGED <<list, nodes, blocks, exited>>

-----------------------------------------------------------------------------
(* The specification *)

Init ==
  /\ list = <<>>
  /\ nodes = [a \in {} |-> NULL]
  /\ blocks = {}
  /\ stack = <<>>
  /\ cstrs = {}
  /\ temps = {}
  /\ ret = "none"
  /\ exited = FALSE

\* The process has exited.
Terminated == exited /\ UNCHANGED vars

Define ==
  \/ DefineArgument
  \/ DefineArgumentFails
  \/ AlreadyDefined
  \/ DefineNoMemory
  \/ DefineAdded
  \/ DefineRejected

Call ==
  \/ CallFails
  \/ CallNoMemory
  \/ CallNative
  \/ CallFunctionReturns

Next ==
  \/ \E op \in {"define", "call"}, given \in 0..MaxArgs : Begin(op, given)
  \/ Define
  \/ Call
  \/ Terminated

Spec == Init /\ [][Next]_vars

-----------------------------------------------------------------------------
(* Properties *)

\* The state has its types.
TypeOK ==
  /\ list \in Seq(Addr)
  /\ DOMAIN nodes \subseteq Addr
  /\ \A a \in DOMAIN nodes : nodes[a] \in Node
  /\ blocks \subseteq Addr \X {"function_s", "name", "args"}
  /\ stack \in Seq(Frame)
  /\ cstrs \subseteq Nat \X Nat
  /\ temps \subseteq Nat \X Arrays
  /\ ret \in {"none", "true", "false", "exception", "value"}
  /\ exited \in BOOLEAN

\* A name has one node, although other define() calls run between the start of a
\* js_define and its look at the list; so no node is linked twice either.
UniqueNames ==
  \A i, j \in DOMAIN list : nodes[list[i]].name = nodes[list[j]].name => i = j

\* The heap holds the three blocks (two without parameters) of each linked node,
\* and nothing that a rejected define_function has left.
Ledger ==
  /\ DOMAIN nodes = Linked
  /\ blocks = Owned([a \in Linked |-> NodeBlocks(Len(nodes[a].b.args))])

Natives == {d \in 1..Depth : stack[d].pc = "native"}

\* The node that call_function found is linked and has the name it was called
\* by, for as long as the call lasts: call_function reads it again after
\* ffi_call, during which the script may have run define().
NativeNodeLive ==
  \A d \in Natives :
    /\ stack[d].node \in Linked
    /\ nodes[stack[d].node].name = stack[d].name

\* Every C string is held by a handler in progress, which has not freed it: the
\* strings that the native function uses are there until it returns, and
\* none is left when a handler ends, on any path.
Slots(f) == IF f.op = "define" THEN DefineSlots(f) ELSE CallSlots(f)
CStringsExact ==
  cstrs = Owned([d \in 1..Depth |-> Slots(stack[d])])

\* call_function's arrays exist exactly while its native function runs.
FrameArrays(f) == IF f.pc = "native" THEN Needed(f.node) ELSE {}
TempsExact ==
  temps = Owned([d \in 1..Depth |-> FrameArrays(stack[d])])

\* No defined function has more parameters than js_call has converted
\* arguments for: call_function reads args[0..nargs - 1] of an array of
\* MAX_PARAMETERS, which another handler, js_define, must have bounded.
ArgsInBounds == \A a \in Linked : Len(nodes[a].b.args) <= MAX_PARAMETERS

\* The binding of a name, once made, never changes: a function is never
\* redefined nor removed.
Bound(n) == IF find_function(n) = NULL THEN NULL ELSE nodes[find_function(n)].b
FirstDefinitionWins ==
  [][\A n \in Names : find_function(n) # NULL => Bound(n)' = Bound(n)]_vars

\* define() that returns true has made its name callable.
TrueMeansCallable ==
  [][ret' = "true" => \A n \in Names : n = Top.name => find_function(n)' # NULL]_vars

\* The README's reading of true: the name is now bound to the function pointer
\* that was given. It is not, when the name was already defined.
TrueMeansBound ==
  [][ret' = "true" => \A n \in Names : n = Top.name => Bound(n)' = NewBinding(Top)]_vars

\* define() and call() implement the table of Bindings: its bindings are those of
\* the list, its active calls are the native frames.
Callable ==
  [fp : Fps \cup {Dummy}, abi : AbiNames \cup {DefaultAbi}, rtype : FfiTypes,
   args : UNION {[1..k -> FfiTypes] : k \in 0..MAX_PARAMETERS}]
Table == INSTANCE Bindings WITH
  Binding <- Callable,
  Unbound <- NULL,
  Calls <- 1..MaxDepth,
  bound <- [n \in Names |-> Bound(n)],
  active <- {<<d, nodes[stack[d].node].b>> : d \in Natives},
  alive <- ~exited
TableSpec == Table!Spec
=============================================================================
