------------------------------ MODULE Wrappers ------------------------------
(***************************************************************************)
(* The clients of ffi.so that make JavaScript functions of C functions,    *)
(* with its dynamic loader functions: define() of util.mjs, foreign() of   *)
(* examples/socket.js, examples/fcntl.js, and def() of examples/term.js,   *)
(* which looks up at import and defines at the first call.  They share one *)
(* table, Bindings, in which only the name counts.                         *)
(*                                                                         *)
(* There is the process itself, always mapped, and one library, which is   *)
(* mapped from the first dlopen() to the last dlclose(), and then again at *)
(* any place.  A script uses no handle that it has closed.                 *)
(***************************************************************************)
EXTENDS Integers

CONSTANTS
  Names,         \* names of C functions
  InProcess,     \* those that the process has
  InLibrary,     \* those that the library has
  Dummy,         \* dummy_ of ffi.c, the function a null pointer stands for
  Unbound, NULL,
  MaxOpen,       \* bound: handles open at once
  MaxMappings    \* bound: times that the library is mapped

ASSUME WrappersAssumption ==
  /\ InProcess \subseteq Names /\ InLibrary \subseteq Names
  /\ MaxOpen \in Nat /\ MaxMappings \in Nat
  /\ Dummy # Unbound /\ Dummy # NULL /\ Unbound # NULL
  /\ {Dummy, Unbound, NULL} \cap ((0..MaxMappings) \X Names) = {}

VARIABLES
  table,     \* the function pointers that ffi.so has for the names
  refs,      \* the loader's: references to the library
  mapping,   \* the loader's: how often the library has been mapped
  global,    \* the loader's: the library was opened with RTLD_GLOBAL
  held,      \* the script's: dlopen() that succeeded, less dlclose()
  wrappers,  \* functions that the script has: <<how made, name>>
  term,      \* examples/term.js: "no", "imported", or "failed"
  cterm,     \* the pointers it has found at import
  defined,   \* those of its functions whose flag is set
  missing,   \* names that were looked up in vain by one who does not check
  status     \* of the process: "runs", "exited", or "crashed"

loader == <<refs, mapping, global, held>>
clients == <<wrappers, term, cterm, defined, missing>>
vars == <<table, loader, clients, status>>

\* A function pointer is the mapping that it points into, 0 for the process, and
\* the name of the function there.
Pointers == ((0..MaxMappings) \X Names) \cup {Dummy}

B == INSTANCE Bindings
       WITH Binding <- Pointers, Calls <- {}, bound <- table, active <- {},
            alive <- (status = "runs")

-----------------------------------------------------------------------------
(* The loader *)

Mapped(p) == p # Dummy => p[1] = 0 \/ (p[1] = mapping /\ refs > 0)

\* dlsym() by RTLD_DEFAULT, which null stands for, and by the library's handle.
DlsymDefault(n) ==
  IF n \in InProcess THEN <<0, n>>
  ELSE IF n \in InLibrary /\ refs > 0 /\ global THEN <<mapping, n>> ELSE NULL
DlsymLibrary(n) ==
  IF n \in InLibrary THEN <<mapping, n>> ELSE IF n \in InProcess THEN <<0, n>> ELSE NULL

\* dlopen() of the library, which is found, or of one that is not.
Dlopen ==
  /\ status = "runs"
  /\ refs < MaxOpen /\ (refs = 0 => mapping < MaxMappings)
  /\ refs' = refs + 1
  /\ held' = held + 1
  /\ mapping' = IF refs = 0 THEN mapping + 1 ELSE mapping
  /\ \E g \in BOOLEAN : global' = ((refs > 0 /\ global) \/ g)
  /\ UNCHANGED <<table, clients, status>>

\* A mutant of Dlclose: the library goes with the first handle.
DlcloseAll ==
  /\ status = "runs"
  /\ held > 0
  /\ refs' = 0 /\ held' = held - 1
  /\ UNCHANGED <<table, mapping, global, clients, status>>

Dlclose ==
  /\ status = "runs"
  /\ held > 0
  /\ refs' = refs - 1
  /\ held' = held - 1
  /\ UNCHANGED <<table, mapping, global, clients, status>>

-----------------------------------------------------------------------------
(* Definitions *)

\* define() of ffi.so with types that it knows: a name that is bound stays as it is.
Define(n, p) ==
  /\ UNCHANGED status
  /\ IF table[n] = Unbound THEN B!Bind(n, IF p = NULL THEN Dummy ELSE p) ELSE UNCHANGED table

\* define(so, name, ...) of util.mjs.
UtilDefine(n) ==
  /\ status = "runs"
  /\ \E p \in {DlsymDefault(n)} \cup IF held > 0 THEN {DlsymLibrary(n)} ELSE {} :
       /\ p # NULL
       /\ Define(n, p)
  /\ wrappers' = wrappers \cup {<<"util", n>>}
  /\ UNCHANGED <<loader, term, cterm, defined, missing>>

\* The function is not there, or, if the name is not defined yet, one of its types
\* is unknown: std.exit(1).
UtilDefineExits(n) ==
  /\ status = "runs"
  /\ \/ NULL \in {DlsymDefault(n)} \cup IF held > 0 THEN {DlsymLibrary(n)} ELSE {}
     \/ table[n] = Unbound
  /\ status' = "exited"
  /\ UNCHANGED <<table, loader, clients>>

\* foreign() of socket.js, and fcntl.js: what dlsym() and define() say is not
\* looked at.
Foreign(n) ==
  /\ status = "runs"
  /\ Define(n, DlsymDefault(n))
  /\ missing' = IF DlsymDefault(n) = NULL THEN missing \cup {n} ELSE missing
  /\ wrappers' = wrappers \cup {<<"foreign", n>>}
  /\ UNCHANGED <<loader, term, cterm, defined>>

\* A mutant of ImportTerm: dlerror is imported there.
ImportTermTolerant ==
  /\ status = "runs" /\ term = "no"
  /\ cterm' = [n \in Names |-> DlsymDefault(n)]
  /\ term' = "imported"
  /\ wrappers' = wrappers \cup ({"term"} \X Names)
  /\ UNCHANGED <<table, loader, defined, missing, status>>

\* The reduce() that makes cterm: it reports a name that is not there by
\* dlerror(), which term.js does not import: ReferenceError.
ImportTerm ==
  /\ status = "runs" /\ term = "no"
  /\ IF \E n \in Names : DlsymDefault(n) = NULL
     THEN term' = "failed" /\ UNCHANGED <<cterm, wrappers>>
     ELSE /\ cterm' = [n \in Names |-> DlsymDefault(n)]
          /\ term' = "imported"
          /\ wrappers' = wrappers \cup ({"term"} \X Names)
  /\ UNCHANGED <<table, loader, defined, missing, status>>

-----------------------------------------------------------------------------
(* Calls *)

\* call() of ffi.so finds the pointer p: the function runs if it is there, or if
\* a new mapping happens to be where the old one was.
Jump(p) ==
  \/ (Mapped(p) \/ refs > 0) /\ status' = status
  \/ ~Mapped(p) /\ status' = "crashed"

Call(n) ==
  /\ status = "runs"
  /\ table[n] # Unbound
  /\ \/ \E how \in {"util", "foreign"} : <<how, n>> \in wrappers
     \/ <<"term", n>> \in wrappers /\ n \in defined
  /\ Jump(table[n])
  /\ UNCHANGED <<table, loader, clients>>

\* The first call of a function of term.js defines it, with what was found then.
FirstCall(n) ==
  /\ status = "runs"
  /\ <<"term", n>> \in wrappers /\ n \notin defined
  /\ defined' = defined \cup {n}
  /\ table' = IF table[n] # Unbound THEN table
              ELSE [table EXCEPT ![n] = IF cterm[n] = NULL THEN Dummy ELSE cterm[n]]
  /\ Jump(table'[n])
  /\ UNCHANGED <<loader, wrappers, term, cterm, missing>>

Init ==
  /\ table = [n \in Names |-> Unbound]
  /\ refs = 0 /\ mapping = 0 /\ global = FALSE /\ held = 0
  /\ wrappers = {} /\ term = "no"
  /\ cterm = [n \in Names |-> NULL]
  /\ defined = {} /\ missing = {}
  /\ status = "runs"

Next ==
  \/ Dlopen \/ Dlclose \/ ImportTerm
  \/ \E n \in Names :
       UtilDefine(n) \/ UtilDefineExits(n) \/ Foreign(n) \/ Call(n) \/ FirstCall(n)

Spec == Init /\ [][Next]_vars

-----------------------------------------------------------------------------
(* Properties *)

\* The state has its types.
TypeOK ==
  /\ table \in [Names -> Pointers \cup {Unbound}]
  /\ refs \in Nat /\ held \in Nat /\ mapping \in 0..MaxMappings
  /\ global \in BOOLEAN
  /\ wrappers \subseteq {"util", "foreign", "term"} \X Names
  /\ term \in {"no", "imported", "failed"}
  /\ cterm \in [Names -> Pointers \cup {NULL}]
  /\ defined \subseteq Names /\ missing \subseteq Names
  /\ status \in {"runs", "exited", "crashed"}

\* Only foreign() and fcntl.js can bind a name to the dummy, which returns 0 as if
\* all were well: a function of util.mjs or term.js comes to the dummy only
\* if one of those has looked for the same name in vain.
DummyOnlyUnchecked == \A n \in Names : table[n] = Dummy => n \in missing

\* A script that opens the library, keeps a handle for as long as it calls
\* anything, and never opens it anew never jumps to where nothing is mapped. Once
\* it is opened anew no handle helps: names, and what term.js has looked up,
\* may still point to where it was.
CrashNeedsUnload == status = "crashed" => held = 0 \/ mapping > 1
=============================================================================
