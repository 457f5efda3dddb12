--------------------------- MODULE WrappersProofs ---------------------------
(***************************************************************************)
(* Theorems about Wrappers, for any sets of names and any number of        *)
(* handles and mappings: who can bind a name to the dummy, and what a      *)
(* jump to unmapped memory needs.  Then theorems about Fork, a program of  *)
(* theirs: what its two processes print.                                   *)
(***************************************************************************)
EXTENDS Wrappers, ForkOutput, TLAPS

\* What the pointers are that the table and term.js keep: functions of a mapping
\* that there has been.
PointersKnown ==
  /\ \A n \in Names : table[n] \notin {Unbound, Dummy} => table[n][1] \in 0..mapping
  /\ \A n \in Names : cterm[n] # NULL => cterm[n] # Dummy /\ cterm[n][1] \in 0..mapping

\* A function of term.js is there only when all were found.
TermInv ==
  \A n \in Names : <<"term", n>> \in wrappers => cterm[n] # NULL

\* The script's account of its handles is the loader's.
LoaderInv == refs = held /\ (mapping = 0 => refs = 0)

Inv == TypeOK /\ PointersKnown /\ TermInv /\ LoaderInv /\ DummyOnlyUnchecked /\ CrashNeedsUnload

-----------------------------------------------------------------------------
(* Pointers *)

LEMMA PointerKinds ==
  ASSUME NEW m \in 0..MaxMappings, NEW n \in Names
  PROVE  /\ <<m, n>> \in Pointers
         /\ <<m, n>> \notin {Dummy, Unbound, NULL}
BY WrappersAssumption DEF Pointers

\* What dlsym() finds is a function of the process or of the latest mapping.
LEMMA Found ==
  ASSUME mapping \in 0..MaxMappings, NEW n \in Names,
         NEW p, p \in {DlsymDefault(n), DlsymLibrary(n)}, p # NULL
  PROVE  p \in Pointers /\ p # Dummy /\ p # Unbound /\ p[1] \in 0..mapping
<1>1. 0 \in 0..MaxMappings /\ mapping \in Nat /\ MaxMappings \in Nat
  BY WrappersAssumption
<1>2. p = <<0, n>> \/ p = <<mapping, n>>
  BY DEF DlsymDefault, DlsymLibrary
<1>3. CASE p = <<0, n>>
  BY <1>1, <1>3, PointerKinds
<1>4. CASE p = <<mapping, n>>
  BY <1>1, <1>4, PointerKinds
<1> QED BY <1>2, <1>3, <1>4

\* A bound name stays as it is; an unbound one gets the pointer, or the dummy.
LEMMA Defined ==
  ASSUME Inv, NEW n \in Names, NEW p, Define(n, p)
  PROVE  \/ table' = table
         \/ table' = [table EXCEPT ![n] = IF p = NULL THEN Dummy ELSE p]
BY DEF Define, B!Bind

\* The invariant holds after a name was bound, if the pointer is one that was found,
\* or is missing.
LEMMA BindKeeps ==
  ASSUME Inv, NEW n \in Names, NEW p \in Pointers,
         table' = table \/ table' = [table EXCEPT ![n] = p],
         p # Dummy => p[1] \in 0..mapping,
         p = Dummy => n \in missing',
         missing \subseteq missing', missing' \subseteq Names, mapping' = mapping
  PROVE  /\ table' \in [Names -> Pointers \cup {Unbound}]
         /\ \A m \in Names : table'[m] \notin {Unbound, Dummy} => table'[m][1] \in 0..mapping'
         /\ DummyOnlyUnchecked'
BY DEF Inv, TypeOK, PointersKnown, DummyOnlyUnchecked

\* A jump: while a handle is held and the library was mapped but once, whatever is
\* known is mapped.
LEMMA JumpKeeps ==
  ASSUME Inv, status = "runs", NEW p \in Pointers, p # Dummy => p[1] \in 0..mapping, Jump(p),
         UNCHANGED <<held, mapping>>
  PROVE  status' \in {"runs", "exited", "crashed"} /\ CrashNeedsUnload'
<1>1. held \in Nat /\ refs = held /\ mapping \in 0..MaxMappings /\ MaxMappings \in Nat
  BY WrappersAssumption DEF Inv, TypeOK, LoaderInv
<1>2. CASE held > 0 /\ mapping \in {0, 1}
  <2>1. p # Dummy => p[1] = 0 \/ p[1] = mapping
    BY <1>2
  <2>2. Mapped(p)
    BY <1>1, <1>2, <2>1 DEF Mapped
  <2> QED BY <2>2 DEF Jump, CrashNeedsUnload
<1>3. CASE held = 0 \/ mapping > 1
  BY <1>3 DEF Jump, CrashNeedsUnload
<1> QED BY <1>1, <1>2, <1>3

-----------------------------------------------------------------------------
(* The steps *)

LEMMA DlopenStep ==
  ASSUME Inv, Dlopen
  PROVE  Inv'
<1>1. /\ refs \in Nat /\ held \in Nat /\ mapping \in Nat /\ MaxMappings \in Nat /\ MaxOpen \in Nat
      /\ mapping <= MaxMappings /\ mapping' \in {mapping, mapping + 1}
      /\ mapping' \in 0..MaxMappings /\ refs' = refs + 1 /\ held' = held + 1
      /\ refs = held /\ (mapping' = 0 => mapping = 0 /\ refs # 0)
  BY WrappersAssumption DEF Dlopen, Inv, TypeOK, LoaderInv
<1>2. UNCHANGED <<table, wrappers, term, cterm, defined, missing, status>> /\ status = "runs"
  BY DEF Dlopen, clients
<1>3. global' \in BOOLEAN
  BY DEF Dlopen, Inv, TypeOK
<1>4. TypeOK'
  BY <1>1, <1>2, <1>3 DEF Inv, TypeOK
<1>5. 0..mapping \subseteq 0..mapping'
  BY <1>1
<1>6. PointersKnown'
  BY <1>2, <1>5 DEF Inv, PointersKnown
<1>7. LoaderInv'
  BY <1>1 DEF Inv, LoaderInv
<1>8. TermInv' /\ DummyOnlyUnchecked' /\ CrashNeedsUnload'
  BY <1>2 DEF Inv, TermInv, DummyOnlyUnchecked, CrashNeedsUnload
<1> QED BY <1>4, <1>6, <1>7, <1>8 DEF Inv

LEMMA DlcloseStep ==
  ASSUME Inv, Dlclose
  PROVE  Inv'
BY DEF Dlclose, clients, Inv, TypeOK, PointersKnown, TermInv, LoaderInv, DummyOnlyUnchecked,
       CrashNeedsUnload

LEMMA UtilDefineStep ==
  ASSUME Inv, NEW n \in Names, UtilDefine(n)
  PROVE  Inv'
<1>1. mapping \in 0..MaxMappings
  BY DEF Inv, TypeOK
<1>2. PICK p \in {DlsymDefault(n), DlsymLibrary(n)} : p # NULL /\ Define(n, p)
  BY DEF UtilDefine
<1>3. p \in Pointers /\ p # Dummy /\ p # Unbound /\ p[1] \in 0..mapping
  BY <1>1, <1>2, Found
<1>4. /\ UNCHANGED <<refs, mapping, global, held, term, cterm, defined, missing, status>>
      /\ wrappers' = wrappers \cup {<<"util", n>>} /\ status = "runs"
  BY <1>2 DEF UtilDefine, loader, Define
<1>5. table' = table \/ table' = [table EXCEPT ![n] = p]
  BY <1>2, Defined
<1>6. missing \subseteq Names
  BY DEF Inv, TypeOK
<1>7. /\ table' \in [Names -> Pointers \cup {Unbound}]
      /\ \A m \in Names : table'[m] \notin {Unbound, Dummy} => table'[m][1] \in 0..mapping'
      /\ DummyOnlyUnchecked'
  BY <1>3, <1>4, <1>5, <1>6, BindKeeps
<1>8. TypeOK' /\ PointersKnown'
  BY <1>4, <1>7 DEF Inv, TypeOK, PointersKnown
<1>9. TermInv' /\ LoaderInv' /\ CrashNeedsUnload'
  BY <1>4 DEF Inv, TermInv, LoaderInv, CrashNeedsUnload
<1> QED BY <1>7, <1>8, <1>9 DEF Inv

LEMMA ExitsStep ==
  ASSUME Inv, NEW n \in Names, UtilDefineExits(n)
  PROVE  Inv'
BY DEF UtilDefineExits, loader, clients, Inv, TypeOK, PointersKnown, TermInv, LoaderInv,
       DummyOnlyUnchecked, CrashNeedsUnload

LEMMA ForeignStep ==
  ASSUME Inv, NEW n \in Names, Foreign(n)
  PROVE  Inv'
<1> DEFINE p == IF DlsymDefault(n) = NULL THEN Dummy ELSE DlsymDefault(n)
<1>1. mapping \in 0..MaxMappings /\ missing \subseteq Names
  BY DEF Inv, TypeOK
<1>2. /\ UNCHANGED <<refs, mapping, global, held, term, cterm, defined, status>>
      /\ wrappers' = wrappers \cup {<<"foreign", n>>} /\ status = "runs"
      /\ missing' = IF DlsymDefault(n) = NULL THEN missing \cup {n} ELSE missing
  BY DEF Foreign, loader, Define
<1>3. p \in Pointers /\ (p # Dummy => p[1] \in 0..mapping) /\ (p = Dummy => n \in missing')
  <2>1. CASE DlsymDefault(n) = NULL
    BY <1>2, <2>1 DEF Pointers
  <2>2. CASE DlsymDefault(n) # NULL
    BY <1>1, <2>2, Found
  <2> QED BY <2>1, <2>2
<1>4. table' = table \/ table' = [table EXCEPT ![n] = p]
  BY Defined DEF Foreign
<1>5. missing \subseteq missing' /\ missing' \subseteq Names
  BY <1>1, <1>2
<1> HIDE DEF p
<1>6. /\ table' \in [Names -> Pointers \cup {Unbound}]
      /\ \A m \in Names : table'[m] \notin {Unbound, Dummy} => table'[m][1] \in 0..mapping'
      /\ DummyOnlyUnchecked'
  BY <1>2, <1>3, <1>4, <1>5, BindKeeps
<1>7. TypeOK' /\ PointersKnown'
  BY <1>2, <1>5, <1>6 DEF Inv, TypeOK, PointersKnown
<1>8. TermInv' /\ LoaderInv' /\ CrashNeedsUnload'
  BY <1>2 DEF Inv, TermInv, LoaderInv, CrashNeedsUnload
<1> QED BY <1>6, <1>7, <1>8 DEF Inv

LEMMA ImportStep ==
  ASSUME Inv, ImportTerm
  PROVE  Inv'
<1>1. UNCHANGED <<table, refs, mapping, global, held, defined, missing, status>>
      /\ mapping \in 0..MaxMappings
  BY DEF ImportTerm, loader, Inv, TypeOK
<1>2. DummyOnlyUnchecked' /\ CrashNeedsUnload' /\ LoaderInv'
  BY <1>1 DEF Inv, DummyOnlyUnchecked, CrashNeedsUnload, LoaderInv
<1>3. CASE term' = "failed" /\ UNCHANGED <<cterm, wrappers>>
  BY <1>1, <1>2, <1>3 DEF Inv, TypeOK, PointersKnown, TermInv
<1>4. CASE /\ \A n \in Names : DlsymDefault(n) # NULL
           /\ cterm' = [n \in Names |-> DlsymDefault(n)]
           /\ term' = "imported"
           /\ wrappers' = wrappers \cup ({"term"} \X Names)
  <2>1. \A n \in Names : /\ cterm'[n] \in Pointers /\ cterm'[n] # NULL /\ cterm'[n] # Dummy
                         /\ cterm'[n][1] \in 0..mapping
    BY <1>1, <1>4, Found
  <2>2. cterm' \in [Names -> Pointers \cup {NULL}]
    BY <1>4, <2>1
  <2>3. TypeOK'
    BY <1>1, <1>4, <2>2 DEF Inv, TypeOK
  <2>4. PointersKnown' /\ TermInv'
    BY <1>1, <2>1 DEF Inv, PointersKnown, TermInv
  <2> QED BY <1>2, <2>3, <2>4 DEF Inv
<1> QED BY <1>3, <1>4 DEF ImportTerm

LEMMA CallStep ==
  ASSUME Inv, NEW n \in Names, Call(n)
  PROVE  Inv'
<1>1. UNCHANGED <<table, refs, mapping, global, held, wrappers, term, cterm, defined, missing>>
      /\ status = "runs"
  BY DEF Call, loader, clients
<1>2. table[n] \in Pointers /\ (table[n] # Dummy => table[n][1] \in 0..mapping)
  BY DEF Call, Inv, TypeOK, PointersKnown
<1>3. status' \in {"runs", "exited", "crashed"} /\ CrashNeedsUnload'
  BY <1>1, <1>2, JumpKeeps DEF Call
<1> QED BY <1>1, <1>3 DEF Inv, TypeOK, PointersKnown, TermInv, LoaderInv, DummyOnlyUnchecked

LEMMA FirstCallStep ==
  ASSUME Inv, NEW n \in Names, FirstCall(n)
  PROVE  Inv'
<1>1. /\ UNCHANGED <<refs, mapping, global, held, wrappers, term, cterm, missing>>
      /\ defined' = defined \cup {n} /\ status = "runs" /\ Jump(table'[n])
  BY DEF FirstCall, loader
<1>2. cterm[n] \in Pointers /\ cterm[n] # NULL /\ cterm[n] # Dummy /\ cterm[n][1] \in 0..mapping
      /\ missing \subseteq Names
  BY DEF FirstCall, Inv, TypeOK, PointersKnown, TermInv
<1>3. \/ table' = table /\ table[n] # Unbound
      \/ table' = [table EXCEPT ![n] = cterm[n]]
  BY <1>2 DEF FirstCall
<1>4. /\ table' \in [Names -> Pointers \cup {Unbound}]
      /\ \A m \in Names : table'[m] \notin {Unbound, Dummy} => table'[m][1] \in 0..mapping'
      /\ DummyOnlyUnchecked'
  BY <1>1, <1>2, <1>3, BindKeeps
<1>5. table'[n] # Unbound
  BY <1>2, <1>3, WrappersAssumption DEF Inv, TypeOK, Pointers
<1>6. table'[n] \in Pointers /\ (table'[n] # Dummy => table'[n][1] \in 0..mapping)
  BY <1>1, <1>4, <1>5
<1>7. status' \in {"runs", "exited", "crashed"} /\ CrashNeedsUnload'
  BY <1>1, <1>6, JumpKeeps
<1>8. TypeOK' /\ PointersKnown'
  BY <1>1, <1>4, <1>7 DEF Inv, TypeOK, PointersKnown
<1>9. TermInv' /\ LoaderInv'
  BY <1>1 DEF Inv, TermInv, LoaderInv
<1> QED BY <1>4, <1>7, <1>8, <1>9 DEF Inv

-----------------------------------------------------------------------------
(* The invariant *)

LEMMA InitInv == Init => Inv
<1> SUFFICES ASSUME Init PROVE Inv
  OBVIOUS
<1>1. /\ table \in [Names -> Pointers \cup {Unbound}] /\ cterm \in [Names -> Pointers \cup {NULL}]
      /\ \A n \in Names : table[n] = Unbound /\ cterm[n] = NULL
  BY DEF Init
<1>2. TypeOK
  <2>1. 0 \in 0..MaxMappings
    BY WrappersAssumption
  <2> QED BY <1>1, <2>1 DEF Init, TypeOK
<1>3. PointersKnown /\ DummyOnlyUnchecked
  BY <1>1, WrappersAssumption DEF PointersKnown, DummyOnlyUnchecked
<1>4. TermInv /\ LoaderInv /\ CrashNeedsUnload
  BY DEF Init, TermInv, LoaderInv, CrashNeedsUnload
<1> QED BY <1>2, <1>3, <1>4 DEF Inv

LEMMA NextInv == Inv /\ [Next]_vars => Inv'
<1> SUFFICES ASSUME Inv, [Next]_vars PROVE Inv'
  OBVIOUS
<1>1. CASE UNCHANGED vars
  BY <1>1 DEF vars, loader, clients, Inv, TypeOK, PointersKnown, TermInv, LoaderInv,
              DummyOnlyUnchecked, CrashNeedsUnload
<1>2. CASE Next
  BY <1>2, DlopenStep, DlcloseStep, ImportStep, UtilDefineStep, ExitsStep, ForeignStep, CallStep,
     FirstCallStep DEF Next
<1> QED BY <1>1, <1>2

LEMMA SpecInv == Spec => []Inv
BY InitInv, NextInv, PTL DEF Spec

\* The state has its types in every reachable state.
THEOREM TypeCorrect == Spec => []TypeOK
<1>1. Inv => TypeOK
  BY DEF Inv
<1> QED BY <1>1, SpecInv, PTL

\* A name is bound to the dummy only after foreign() or fcntl.js looked for it in
\* vain: never by util.mjs, and never by a lazy definition of term.js.
THEOREM DummyNeedsUnchecked == Spec => []DummyOnlyUnchecked
<1>1. Inv => DummyOnlyUnchecked
  BY DEF Inv
<1> QED BY <1>1, SpecInv, PTL

\* A call jumps to unmapped memory only when the script holds no handle, or the
\* library was mapped more than once.
THEOREM HandleKeepsCallsSafe == Spec => []CrashNeedsUnload
<1>1. Inv => CrashNeedsUnload
  BY DEF Inv
<1> QED BY <1>1, SpecInv, PTL

\* A name that is bound keeps its pointer, whoever defines it again.
THEOREM BindingsStay == Spec => [][\A n \in Names : table[n] # Unbound => table'[n] = table[n]]_vars
<1>1. Inv /\ [Next]_vars => [\A n \in Names : table[n] # Unbound => table'[n] = table[n]]_vars
  <2> SUFFICES ASSUME Inv, Next PROVE \A n \in Names : table[n] # Unbound => table'[n] = table[n]
    OBVIOUS
  <2> QED BY DEF Next, Dlopen, Dlclose, ImportTerm, UtilDefine, UtilDefineExits, Foreign, Define,
                 B!Bind, Call, FirstCall, clients, loader, Inv, TypeOK
<1> QED BY <1>1, SpecInv, PTL DEF Spec

-----------------------------------------------------------------------------
(* test2.js, a program that uses the wrappers of util.mjs: the lines that its *)
(* two processes print, for any number of processes killed.                   *)

CONSTANT MaxKills
VARIABLES pid, code, lines, printed

Test == INSTANCE Fork WITH held <- lines

\* The parts of the state that the output depends on have their types.
OutputTypes ==
  /\ unbuffered \in BOOLEAN
  /\ parent \in {"fork", "log", "sleep", "wait", "exit", "ended", "killed"}
  /\ child \in {"none", "log 1", "log 2", "log 3", "_exit", "zombie", "reaped"}
  /\ lines \in [{"parent", "child"} -> Seq(Lines)] /\ out \in Seq(Lines)
  /\ kills \in Nat

\* On an unbuffered stdout the lines have come out that a process has passed,
\* unless it was killed.
ParentOut ==
  /\ parent \in {"fork", "log"} => ~Came("in parent") /\ ~Came("status")
  /\ parent \in {"sleep", "wait"} => Came("in parent") /\ ~Came("status")
  /\ parent \in {"exit", "ended"} => Came("in parent") /\ Came("status")
ChildOut ==
  /\ child \in {"none", "log 1"} => \A l \in FromChild : ~Came(l)
  /\ child = "log 2" => Came("in child") /\ ~Came("parent is") /\ ~Came("_exit")
  /\ child = "log 3" => Came("in child") /\ Came("parent is") /\ ~Came("_exit")
  /\ child = "_exit" => \A l \in FromChild : Came(l)
  /\ child \in {"zombie", "reaped"} /\ kills = 0 => \A l \in FromChild : Came(l)
UnbufferedInv == unbuffered => ParentOut /\ ChildOut /\ lines["parent"] = <<>>

\* On a buffered one stdio holds the parent's lines until it exits, and nothing
\* else is ever written.
BufferedInv ==
  ~unbuffered =>
    /\ parent # "ended" => out = <<>>
    /\ parent \in {"fork", "log"} => lines["parent"] = <<>>
    /\ parent \in {"sleep", "wait"} => lines["parent"] = <<"in parent">>
    /\ parent = "exit" => lines["parent"] = <<"in parent", "status">>
    /\ parent = "ended" => out = <<"in parent", "status">>

InPlace ==
  \A i, j \in DOMAIN out :
    i < j /\ (out[i] \in FromChild <=> out[j] \in FromChild) =>
      Place(out[i]) < Place(out[j])

ForkInv ==
  /\ OutputTypes
  /\ parent = "fork" => child = "none"
  /\ InPlace
  /\ UnbufferedInv
  /\ BufferedInv

-----------------------------------------------------------------------------
(* Lines and their places *)

LEMMA Places ==
  /\ Place("in parent") < Place("status")
  /\ Place("in child") < Place("parent is")
  /\ Place("in child") < Place("_exit")
  /\ Place("parent is") < Place("_exit")
BY DEF Place

\* Sequences of no, one and two lines.
LEMMA Concatenations ==
  ASSUME NEW S, NEW s \in Seq(S), NEW t \in Seq(S)
  PROVE  s \o t \in Seq(S) /\ s \o <<>> = s /\ <<>> \o s = s
OBVIOUS

LEMMA OneLine == ASSUME NEW a PROVE Append(<<>>, a) = <<a>>
OBVIOUS

LEMMA TwoLines ==
  ASSUME NEW a, NEW b
  PROVE  Append(<<a>>, b) = <<a, b>>
<1> DEFINE S == {a, b}
<1>1. <<a>> \in Seq(S) /\ Len(<<a>>) = 1 /\ <<a>>[1] = a /\ b \in S
  OBVIOUS
<1> HIDE DEF S
<1>2. Append(<<a>>, b) = [i \in 1..2 |-> IF i = 2 THEN b ELSE a]
  BY <1>1
<1>3. <<a, b>> = [i \in 1..2 |-> IF i = 2 THEN b ELSE a]
  OBVIOUS
<1> QED BY <1>2, <1>3

LEMMA LinesOfTwo ==
  ASSUME NEW a, NEW b, NEW s, s = <<a, b>>
  PROVE  DOMAIN s = {1, 2} /\ s[1] = a /\ s[2] = b
<1>1. DOMAIN s = 1..2 /\ s[1] = a /\ s[2] = b
  OBVIOUS
<1>2. 1..2 = {1, 2}
  OBVIOUS
<1> QED BY <1>1, <1>2

LEMMA FirstOfTwo == \A i, j \in {1, 2} : i < j => i = 1 /\ j = 2
OBVIOUS

LEMMA OneMore == ASSUME NEW n \in Nat PROVE n + 1 \in Nat /\ n + 1 # 0
OBVIOUS

\* A line that is written is the only news.
LEMMA CameAppend ==
  ASSUME out \in Seq(Lines), NEW line \in Lines, out' = Append(out, line)
  PROVE  \A l : Came(l)' <=> Came(l) \/ l = line
<1> SUFFICES ASSUME NEW l PROVE Came(l)' <=> Came(l) \/ l = line
  OBVIOUS
<1>1. /\ DOMAIN out = 1..Len(out) /\ DOMAIN out' = 1..Len(out) + 1 /\ Len(out) \in Nat
      /\ out'[Len(out) + 1] = line /\ \A i \in 1..Len(out) : out'[i] = out[i]
  OBVIOUS
<1> QED BY <1>1 DEF Came

LEMMA CameSame ==
  ASSUME UNCHANGED out
  PROVE  (\A l : Came(l)' <=> Came(l)) /\ (InPlace' <=> InPlace)
BY DEF Came, InPlace, FromChild, Place

LEMMA InPlaceAppend ==
  ASSUME out \in Seq(Lines), NEW line \in Lines, out' = Append(out, line), InPlace,
         \A l \in Lines : Came(l) /\ (l \in FromChild <=> line \in FromChild) =>
           Place(l) < Place(line)
  PROVE  InPlace'
<1>1. /\ DOMAIN out = 1..Len(out) /\ DOMAIN out' = 1..Len(out) + 1 /\ Len(out) \in Nat
      /\ out'[Len(out) + 1] = line /\ \A i \in 1..Len(out) : out'[i] = out[i] /\ out[i] \in Lines
  OBVIOUS
<1> SUFFICES ASSUME NEW i \in DOMAIN out', NEW j \in DOMAIN out', i < j,
                    out'[i] \in FromChild <=> out'[j] \in FromChild
             PROVE  Place(out'[i]) < Place(out'[j])
  BY DEF InPlace, FromChild, Place
<1>2. i \in 1..Len(out) /\ out'[i] = out[i] /\ out[i] \in Lines /\ i \in DOMAIN out
  BY <1>1
<1>3. CASE j = Len(out) + 1
  <2>1. Came(out[i])
    BY <1>2 DEF Came
  <2> QED BY <1>1, <1>2, <1>3, <2>1
<1>4. CASE j \in 1..Len(out)
  <2>1. out'[j] = out[j] /\ j \in DOMAIN out
    BY <1>1, <1>4
  <2> QED BY <1>2, <2>1 DEF InPlace
<1> QED BY <1>1, <1>3, <1>4

-----------------------------------------------------------------------------
(* The steps of the two processes *)

\* A line that stdio holds has its type, as does one that it writes.
LEMMA LogTypes ==
  ASSUME OutputTypes, NEW p \in {"parent", "child"}, NEW line \in Lines, Test!Log(p, line)
  PROVE  /\ lines' \in [{"parent", "child"} -> Seq(Lines)] /\ out' \in Seq(Lines)
         /\ unbuffered => out' = Append(out, line) /\ lines' = lines
         /\ ~unbuffered => out' = out /\ lines'[p] = Append(lines[p], line)
         /\ p = "child" => lines'["parent"] = lines["parent"]
<1> DEFINE Both == {"parent", "child"}
<1>1. lines \in [Both -> Seq(Lines)] /\ out \in Seq(Lines) /\ p \in Both /\ "parent" \in Both
  BY DEF OutputTypes
<1>2. Append(lines[p], line) \in Seq(Lines) /\ Append(out, line) \in Seq(Lines)
  BY <1>1
<1>3. CASE unbuffered
  BY <1>1, <1>2, <1>3 DEF Test!Log
<1>4. CASE ~unbuffered
  <2>1. out' = out /\ lines' = [lines EXCEPT ![p] = Append(lines[p], line)]
    BY <1>4 DEF Test!Log
  <2> HIDE DEF Both
  <2>2. /\ lines' \in [Both -> Seq(Lines)] /\ lines'[p] = Append(lines[p], line)
        /\ p # "parent" => lines'["parent"] = lines["parent"]
    BY <1>1, <1>2, <2>1
  <2> QED BY <1>1, <1>4, <2>1, <2>2 DEF Both
<1> QED BY <1>3, <1>4

\* What stdio holds of a process is forgotten when it ends.
LEMMA Emptied ==
  ASSUME OutputTypes, NEW p \in {"parent", "child"}, lines' = [lines EXCEPT ![p] = <<>>]
  PROVE  /\ lines' \in [{"parent", "child"} -> Seq(Lines)]
         /\ lines'[p] = <<>>
         /\ p = "child" => lines'["parent"] = lines["parent"]
<1> DEFINE Both == {"parent", "child"}
<1>1. lines \in [Both -> Seq(Lines)] /\ p \in Both /\ "parent" \in Both
  BY DEF OutputTypes
<1>2. <<>> \in Seq(Lines)
  OBVIOUS
<1> HIDE DEF Both
<1>3. /\ lines' \in [Both -> Seq(Lines)] /\ lines'[p] = <<>>
      /\ p # "parent" => lines'["parent"] = lines["parent"]
  BY <1>1, <1>2
<1> QED BY <1>3 DEF Both

\* A step that writes nothing, and changes neither what stdio holds of the parent
\* nor how far a process is that is not killed by it.
LEMMA QuietStep ==
  ASSUME ForkInv, UNCHANGED <<unbuffered, out>>, OutputTypes', lines'["parent"] = lines["parent"],
         \/ parent' = parent
         \/ parent = "fork" /\ parent' = "log"
         \/ parent = "sleep" /\ parent' = "wait",
         parent' # "fork" \/ child' = "none",
         \/ child' = child /\ kills' = kills
         \/ child = "none" /\ child' = "log 1"
         \/ child = "_exit" /\ child' = "zombie"
         \/ child = "zombie" /\ child' = "reaped" /\ kills' = kills
         \/ child' = "zombie" /\ kills' = kills + 1
  PROVE  ForkInv'
<1>1. InPlace'
  BY CameSame DEF ForkInv
<1>2. UnbufferedInv'
  <2> SUFFICES ASSUME unbuffered PROVE ParentOut' /\ ChildOut' /\ lines'["parent"] = <<>>
    BY DEF UnbufferedInv
  <2>1. ParentOut /\ ChildOut /\ lines["parent"] = <<>>
    BY DEF ForkInv, UnbufferedInv
  <2>2. ParentOut'
    BY <2>1, CameSame DEF ParentOut, ForkInv, OutputTypes
  <2>3. ChildOut'
    <3>1. child' \in {"none", "log 1"} => child \in {"none", "log 1"}
      OBVIOUS
    <3>2. child' \in {"zombie", "reaped"} /\ kills' = 0 => \A l \in FromChild : Came(l)
      <4>1. kills \in Nat
        BY DEF ForkInv, OutputTypes
      <4>2. kills + 1 # 0
        BY <4>1, OneMore
      <4> QED BY <2>1, <4>2 DEF ChildOut
    <3> QED BY <2>1, <3>1, <3>2, CameSame DEF ChildOut
  <2> QED BY <2>1, <2>2, <2>3
<1>3. BufferedInv'
  BY DEF ForkInv, BufferedInv, OutputTypes
<1> QED BY <1>1, <1>2, <1>3 DEF ForkInv

LEMMA ForkStep == ForkInv /\ (Test!Fork \/ Test!ForkFails) => ForkInv'
<1> SUFFICES ASSUME ForkInv, Test!Fork \/ Test!ForkFails PROVE ForkInv'
  OBVIOUS
<1>1. OutputTypes' /\ lines'["parent"] = lines["parent"]
  BY DEF ForkInv, OutputTypes, Test!Fork, Test!ForkFails
<1>2. /\ UNCHANGED <<unbuffered, out, kills>> /\ parent = "fork" /\ parent' = "log"
      /\ child = "none" /\ child' \in {"none", "log 1"}
  BY DEF ForkInv, Test!Fork, Test!ForkFails
<1> QED BY <1>1, <1>2, QuietStep

LEMMA ChildExitsStep == ForkInv /\ Test!ChildExits => ForkInv'
<1> SUFFICES ASSUME ForkInv, Test!ChildExits PROVE ForkInv'
  OBVIOUS
<1>1. OutputTypes' /\ lines'["parent"] = lines["parent"]
  BY DEF ForkInv, OutputTypes, Test!ChildExits
<1>2. parent' # "fork"
  BY DEF ForkInv, Test!ChildExits
<1> QED BY <1>1, <1>2, QuietStep DEF Test!ChildExits

LEMMA SleepStep == ForkInv /\ Test!Sleep => ForkInv'
<1> SUFFICES ASSUME ForkInv, Test!Sleep PROVE ForkInv'
  OBVIOUS
<1>1. OutputTypes' /\ lines'["parent"] = lines["parent"]
  BY DEF ForkInv, OutputTypes, Test!Sleep
<1> QED BY <1>1, QuietStep DEF Test!Sleep

LEMMA KillChildStep == ASSUME NEW signal PROVE ForkInv /\ Test!KillChild(signal) => ForkInv'
<1> SUFFICES ASSUME ForkInv, Test!KillChild(signal) PROVE ForkInv'
  OBVIOUS
<1>0. kills \in Nat /\ kills' = kills + 1
  BY DEF ForkInv, OutputTypes, Test!KillChild
<1>1. kills' \in Nat
  BY <1>0
<1>3. parent' # "fork"
  BY DEF ForkInv, Test!KillChild
<1>2. OutputTypes' /\ lines'["parent"] = lines["parent"]
  BY <1>1, Emptied DEF ForkInv, OutputTypes, Test!KillChild
<1> QED BY <1>2, <1>3, QuietStep DEF Test!KillChild

LEMMA InitReapsStep == ForkInv /\ Test!InitReaps => ForkInv'
<1> SUFFICES ASSUME ForkInv, Test!InitReaps PROVE ForkInv'
  OBVIOUS
<1>1. OutputTypes' /\ lines'["parent"] = lines["parent"]
  BY DEF ForkInv, OutputTypes, Test!InitReaps
<1> QED BY <1>1, QuietStep DEF Test!InitReaps

\* What stdio held of a parent that is killed is lost, and it says nothing more.
LEMMA KillParentStep == ForkInv /\ Test!KillParent => ForkInv'
<1> SUFFICES ASSUME ForkInv, Test!KillParent PROVE ForkInv'
  OBVIOUS
<1>1. UNCHANGED <<unbuffered, child, out>> /\ kills \in Nat /\ kills' = kills + 1
  BY DEF ForkInv, OutputTypes, Test!KillParent
<1>2. OutputTypes' /\ lines'["parent"] = <<>> /\ parent' = "killed" /\ parent # "ended"
  <2>1. kills' \in Nat
    BY <1>1
  <2> QED BY <1>1, <2>1, Emptied DEF ForkInv, OutputTypes, Test!KillParent
<1>3. InPlace'
  BY <1>1, CameSame DEF ForkInv
<1>4. UnbufferedInv'
  <2>1. ParentOut'
    BY <1>2 DEF ParentOut
  <2>2. unbuffered => ChildOut'
    <3> SUFFICES ASSUME unbuffered PROVE ChildOut'
      OBVIOUS
    <3>1. ChildOut
      BY DEF ForkInv, UnbufferedInv
    <3>2. kills' # 0
      BY <1>1
    <3> QED BY <1>1, <3>1, <3>2, CameSame DEF ChildOut
  <2> QED BY <1>2, <1>1, <2>1, <2>2 DEF UnbufferedInv
<1>5. BufferedInv'
  BY <1>2, <1>1 DEF ForkInv, BufferedInv
<1> QED BY <1>2, <1>3, <1>4, <1>5 DEF ForkInv

\* The child writes the next of its lines, or stdio holds it.
LEMMA ChildLogsStep == ForkInv /\ Test!ChildLogs => ForkInv'
<1> SUFFICES ASSUME ForkInv, NEW line \in FromChild, Test!Log("child", line),
                    \/ child = "log 1" /\ child' = "log 2" /\ line = "in child"
                    \/ child = "log 2" /\ child' = "log 3" /\ line = "parent is"
                    \/ child = "log 3" /\ child' = "_exit" /\ line = "_exit",
                    UNCHANGED <<unbuffered, parent, kills>>
             PROVE  ForkInv'
  BY DEF Test!ChildLogs, FromChild
<1>1. line \in Lines /\ OutputTypes
  BY DEF FromChild, Lines, ForkInv
<1>2. /\ lines' \in [{"parent", "child"} -> Seq(Lines)] /\ out' \in Seq(Lines)
      /\ unbuffered => out' = Append(out, line)
      /\ ~unbuffered => out' = out
      /\ lines'["parent"] = lines["parent"]
  BY <1>1, LogTypes DEF OutputTypes
<1>3. OutputTypes' /\ parent' # "fork"
  BY <1>1, <1>2 DEF OutputTypes, ForkInv
<1>4. CASE unbuffered
  <2>1. ParentOut /\ ChildOut /\ lines["parent"] = <<>> /\ InPlace
    BY <1>4 DEF ForkInv, UnbufferedInv
  <2>2. \A l : Came(l)' <=> Came(l) \/ l = line
    BY <1>1, <1>2, <1>4, CameAppend DEF OutputTypes
  <2>3. \A l \in FromChild : Came(l) => Place(l) < Place(line)
    <3>1. CASE line = "in child"
      BY <2>1, <3>1 DEF ChildOut
    <3>2. CASE line = "parent is"
      BY <2>1, <3>2, Places DEF ChildOut, FromChild
    <3>3. CASE line = "_exit"
      BY <2>1, <3>3, Places DEF ChildOut, FromChild
    <3> QED BY <3>1, <3>2, <3>3
  <2>4. InPlace'
    BY <1>1, <1>2, <1>4, <2>1, <2>3, InPlaceAppend DEF OutputTypes
  <2>5. ParentOut'
    BY <2>1, <2>2 DEF ParentOut, FromChild
  <2>6. ChildOut'
    BY <2>1, <2>2 DEF ChildOut, FromChild
  <2> QED BY <1>2, <1>3, <1>4, <2>1, <2>4, <2>5, <2>6 DEF ForkInv, UnbufferedInv, BufferedInv
<1>5. CASE ~unbuffered
  <2>1. InPlace'
    BY <1>2, <1>5, CameSame DEF ForkInv
  <2>2. BufferedInv'
    BY <1>2, <1>5 DEF ForkInv, BufferedInv
  <2> QED BY <1>3, <1>5, <2>1, <2>2 DEF ForkInv, UnbufferedInv
<1> QED BY <1>4, <1>5

\* The parent writes the next of its lines, or stdio holds it.
LEMMA ParentLogsStep == ForkInv /\ (Test!ParentLogs \/ Test!WaitPid) => ForkInv'
<1> SUFFICES ASSUME ForkInv, NEW line \in {"in parent", "status"}, Test!Log("parent", line),
                    \/ parent = "log" /\ parent' = "sleep" /\ line = "in parent"
                    \/ parent = "wait" /\ parent' = "exit" /\ line = "status",
                    \/ child' = child
                    \/ child = "zombie" /\ child' = "reaped",
                    UNCHANGED <<unbuffered, kills>>
             PROVE  ForkInv'
  <2>1. CASE Test!ParentLogs
    BY <2>1 DEF Test!ParentLogs
  <2>2. CASE Test!WaitPid
    BY <2>2 DEF Test!WaitPid
  <2> QED BY <2>1, <2>2
<1>1. line \in Lines /\ line \notin FromChild /\ OutputTypes
  BY DEF FromChild, Lines, ForkInv
<1>2. /\ lines' \in [{"parent", "child"} -> Seq(Lines)] /\ out' \in Seq(Lines)
      /\ unbuffered => out' = Append(out, line) /\ lines' = lines
      /\ ~unbuffered => out' = out /\ lines'["parent"] = Append(lines["parent"], line)
  BY <1>1, LogTypes DEF OutputTypes
<1>3. OutputTypes' /\ parent' # "fork"
  BY <1>1, <1>2 DEF OutputTypes
<1>4. CASE unbuffered
  <2>1. ParentOut /\ ChildOut /\ lines["parent"] = <<>> /\ InPlace
    BY <1>4 DEF ForkInv, UnbufferedInv
  <2>2. \A l : Came(l)' <=> Came(l) \/ l = line
    BY <1>1, <1>2, <1>4, CameAppend DEF OutputTypes
  <2>3. \A l \in Lines \ FromChild : Came(l) => Place(l) < Place(line)
    <3>1. CASE line = "in parent"
      BY <2>1, <3>1 DEF ParentOut, FromChild, Lines
    <3>2. CASE line = "status"
      BY <2>1, <3>2, Places DEF ParentOut, FromChild, Lines
    <3> QED BY <3>1, <3>2
  <2>4. InPlace'
    BY <1>1, <1>2, <1>4, <2>1, <2>3, InPlaceAppend DEF OutputTypes
  <2>5. ParentOut'
    BY <2>1, <2>2 DEF ParentOut
  <2>6. ChildOut'
    BY <2>1, <2>2, <1>1 DEF ChildOut, FromChild
  <2> QED BY <1>2, <1>3, <1>4, <2>1, <2>4, <2>5, <2>6 DEF ForkInv, UnbufferedInv, BufferedInv
<1>5. CASE ~unbuffered
  <2>1. InPlace'
    BY <1>2, <1>5, CameSame DEF ForkInv
  <2>2. /\ lines["parent"] = IF line = "status" THEN <<"in parent">> ELSE <<>>
        /\ out = <<>> /\ out' = out /\ lines'["parent"] = Append(lines["parent"], line)
    BY <1>2, <1>5 DEF ForkInv, BufferedInv
  <2>3. BufferedInv'
    <3>1. CASE line = "in parent"
      <4>1. parent' = "sleep" /\ lines'["parent"] = <<"in parent">> /\ out' = <<>>
        BY <2>2, <3>1, OneLine
      <4> QED BY <4>1 DEF BufferedInv
    <3>2. CASE line = "status"
      <4>1. parent' = "exit" /\ lines'["parent"] = <<"in parent", "status">> /\ out' = <<>>
        BY <2>2, <3>2, TwoLines
      <4> QED BY <4>1 DEF BufferedInv
    <3> QED BY <3>1, <3>2
  <2> QED BY <1>3, <1>5, <2>1, <2>3 DEF ForkInv, UnbufferedInv
<1> QED BY <1>4, <1>5

\* exit() writes what stdio holds of the parent: both lines or nothing.
LEMMA ParentExitsStep == ForkInv /\ Test!ParentExits => ForkInv'
<1> SUFFICES ASSUME ForkInv, Test!ParentExits PROVE ForkInv'
  OBVIOUS
<1>1. /\ parent = "exit" /\ parent' = "ended" /\ UNCHANGED <<unbuffered, child, kills>>
      /\ out' = out \o lines["parent"] /\ lines' = [lines EXCEPT !["parent"] = <<>>]
      /\ OutputTypes
  BY DEF Test!ParentExits, Test!Flush, ForkInv
<1>2. OutputTypes' /\ lines'["parent"] = <<>>
  <2>1. lines["parent"] \in Seq(Lines)
    BY <1>1 DEF OutputTypes
  <2>2. out' \in Seq(Lines)
    BY <1>1, <2>1, Concatenations DEF OutputTypes
  <2>3. lines' \in [{"parent", "child"} -> Seq(Lines)] /\ lines'["parent"] = <<>>
    BY <1>1, Emptied
  <2> QED BY <1>1, <2>2, <2>3 DEF OutputTypes
<1>3. CASE unbuffered
  <2>1. ParentOut /\ ChildOut /\ lines["parent"] = <<>>
    BY <1>3 DEF ForkInv, UnbufferedInv
  <2>2. out \in Seq(Lines) /\ out' = out \o <<>>
    BY <1>1, <2>1 DEF OutputTypes
  <2>5. UNCHANGED out
    BY <2>2, Concatenations
  <2>3. InPlace'
    BY <2>5, CameSame DEF ForkInv
  <2>4. ParentOut' /\ ChildOut'
    BY <1>1, <2>1, <2>5, CameSame DEF ParentOut, ChildOut
  <2> QED BY <1>1, <1>2, <1>3, <2>3, <2>4 DEF ForkInv, UnbufferedInv, BufferedInv
<1>4. CASE ~unbuffered
  <2>1. out' = <<"in parent", "status">>
    <3>1. out = <<>> /\ lines["parent"] = <<"in parent", "status">> /\ lines["parent"] \in Seq(Lines)
      BY <1>1, <1>4 DEF ForkInv, BufferedInv, OutputTypes
    <3> QED BY <1>1, <3>1, Concatenations
  <2>2. InPlace'
    <3>1. DOMAIN out' = {1, 2} /\ out'[1] = "in parent" /\ out'[2] = "status"
      BY <2>1, LinesOfTwo
    <3>2. \A i, j \in DOMAIN out' : i < j => i = 1 /\ j = 2
      BY <3>1, FirstOfTwo
    <3> QED BY <3>1, <3>2, Places DEF InPlace
  <2> QED BY <1>1, <1>2, <1>4, <2>1, <2>2 DEF ForkInv, UnbufferedInv, BufferedInv
<1> QED BY <1>3, <1>4

LEMMA ForkInitInv == Test!Init => ForkInv
<1> SUFFICES ASSUME Test!Init PROVE ForkInv
  OBVIOUS
<1>1. out = <<>> /\ OutputTypes
  BY DEF Test!Init, OutputTypes
<1>2. InPlace /\ \A l : ~Came(l)
  BY <1>1 DEF InPlace, Came
<1> QED BY <1>1, <1>2 DEF Test!Init, ForkInv, UnbufferedInv, BufferedInv, ParentOut, ChildOut

LEMMA ForkNextInv == ForkInv /\ [Test!Next]_Test!vars => ForkInv'
<1> SUFFICES ASSUME ForkInv, [Test!Next]_Test!vars PROVE ForkInv'
  OBVIOUS
<1>1. CASE UNCHANGED Test!vars
  <2>1. UNCHANGED <<unbuffered, parent, child, lines, out, kills>>
    BY <1>1 DEF Test!vars
  <2>2. OutputTypes'
    BY <2>1 DEF ForkInv, OutputTypes
  <2> QED BY <2>1, <2>2, QuietStep DEF ForkInv
<1>2. CASE Test!Next
  BY <1>2, ForkStep, ChildExitsStep, SleepStep, KillChildStep, InitReapsStep, KillParentStep,
     ChildLogsStep, ParentLogsStep, ParentExitsStep
     DEF Test!Next, Test!Parent, Test!Child, Test!Environment
<1> QED BY <1>1, <1>2

\* The lines that test2.js prints come out in the order of each process and none
\* twice; those of the parent once it has ended, and of the child those that the
\* kind of stdout lets out.
THEOREM OutputInOrder == Test!Spec => []OutputExact
<1>1. ForkInv => OutputExact
  <2> SUFFICES ASSUME ForkInv PROVE OutputExact
    OBVIOUS
  <2>1. CASE unbuffered
    <3>1. ParentOut /\ ChildOut
      BY <2>1 DEF ForkInv, UnbufferedInv
    <3> QED BY <2>1, <3>1 DEF ForkInv, InPlace, OutputExact, ParentOut, ChildOut
  <2>2. CASE ~unbuffered
    <3>1. out \in {<<>>, <<"in parent", "status">>}
      BY <2>2 DEF ForkInv, BufferedInv
    <3>2. \A l \in FromChild : ~Came(l)
      <4>1. CASE out = <<>>
        BY <4>1 DEF Came
      <4>2. CASE out = <<"in parent", "status">>
        <5>1. DOMAIN out = {1, 2} /\ out[1] = "in parent" /\ out[2] = "status"
          BY <4>2, LinesOfTwo
        <5> QED BY <5>1 DEF Came, FromChild
      <4> QED BY <3>1, <4>1, <4>2
    <3>3. parent = "ended" => Came("in parent") /\ Came("status")
      <4> SUFFICES ASSUME parent = "ended" PROVE Came("in parent") /\ Came("status")
        OBVIOUS
      <4>1. out = <<"in parent", "status">>
        BY <2>2 DEF ForkInv, BufferedInv
      <4>2. DOMAIN out = {1, 2} /\ out[1] = "in parent" /\ out[2] = "status"
        BY <4>1, LinesOfTwo
      <4> QED BY <4>2 DEF Came
    <3> QED BY <2>2, <3>2, <3>3 DEF ForkInv, InPlace, OutputExact
  <2> QED BY <2>1, <2>2
<1> QED BY <1>1, ForkInitInv, ForkNextInv, PTL DEF Test!Spec

-----------------------------------------------------------------------------
(* The status *)

\* What waitpid() has told the parent is how the child ended.
StatusInv ==
  /\ kills \in Nat
  /\ parent = "fork" => printed = -1
  /\ child = "zombie" /\ kills = 0 => code = Test!Exited(5)
  /\ printed # -1 => printed = 5 \/ pid = -1 \/ kills > 0

LEMMA FiveReturned == Test!Exited(5) \div 256 = 5
BY DEF Test!Exited

\* The last line of test2.js never prints anything else than the 5 that it says,
\* unless fork() failed or a process was killed: that it prints it at last is
\* PrintsFive.
THEOREM NothingButFive ==
  Test!Spec => [](printed # -1 => printed = 5 \/ pid = -1 \/ kills > 0)
<1>1. Test!Init => StatusInv
  BY DEF Test!Init, StatusInv
<1>2. StatusInv /\ [Test!Next]_Test!vars => StatusInv'
  <2> SUFFICES ASSUME StatusInv, [Test!Next]_Test!vars PROVE StatusInv'
    OBVIOUS
  <2>1. CASE Test!Fork \/ Test!ForkFails
    BY <2>1 DEF StatusInv, Test!Fork, Test!ForkFails
  <2>2. CASE Test!ChildLogs
    BY <2>2 DEF StatusInv, Test!ChildLogs
  <2>3. CASE Test!ChildExits
    BY <2>3 DEF StatusInv, Test!ChildExits
  <2>4. CASE Test!ParentLogs \/ Test!Sleep \/ Test!ParentExits
    BY <2>4 DEF StatusInv, Test!ParentLogs, Test!Sleep, Test!ParentExits
  <2>5. CASE Test!WaitPid
    <3>1. CASE pid = -1 /\ UNCHANGED <<child, kills, pid>>
      BY <2>5, <3>1 DEF StatusInv, Test!WaitPid
    <3>2. CASE child = "zombie" /\ child' = "reaped" /\ printed' = code \div 256
      <4>1. UNCHANGED <<kills, pid>> /\ parent' = "exit"
        BY <2>5 DEF Test!WaitPid
      <4>2. kills = 0 => printed' = 5
        BY <3>2, FiveReturned DEF StatusInv
      <4> QED BY <3>2, <4>1, <4>2 DEF StatusInv
    <3> QED BY <2>5, <3>1, <3>2 DEF Test!WaitPid
  <2>6. CASE \E signal \in {2, 11} : Test!KillChild(signal)
    <3>1. kills \in Nat /\ kills' = kills + 1 /\ UNCHANGED <<printed, pid, parent>>
      BY <2>6 DEF StatusInv, Test!KillChild
    <3> QED BY <3>1 DEF StatusInv
  <2>7. CASE Test!KillParent
    <3>1. kills \in Nat /\ kills' = kills + 1 /\ UNCHANGED <<printed, pid>> /\ parent' = "killed"
      BY <2>7 DEF StatusInv, Test!KillParent
    <3> QED BY <3>1 DEF StatusInv
  <2>8. CASE Test!InitReaps
    BY <2>8 DEF StatusInv, Test!InitReaps
  <2>9. CASE UNCHANGED Test!vars
    BY <2>9 DEF StatusInv, Test!vars
  <2> QED BY <2>1, <2>2, <2>3, <2>4, <2>5, <2>6, <2>7, <2>8, <2>9
          DEF Test!Next, Test!Parent, Test!Child, Test!Environment
<1>3. StatusInv => (printed # -1 => printed = 5 \/ pid = -1 \/ kills > 0)
  BY DEF StatusInv
<1> QED BY <1>1, <1>2, <1>3, PTL DEF Test!Spec
=============================================================================
