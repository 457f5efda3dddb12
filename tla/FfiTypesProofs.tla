--------------------------- MODULE FfiTypesProofs ---------------------------
(***************************************************************************)
(* Theorems about FfiTypes, for any number of modules made from ffi.so.    *)
(***************************************************************************)
EXTENDS FfiTypes, TLAPS

Nodes == DOMAIN types

\* strdup has given every node its name.
AllNamed == \A i \in Nodes : types[i].name # NULL

\* Only the head can lack its name: every later search stops there.
\* The other nodes are lines of define_types, no two of the same.
TableInv ==
  /\ \A i \in Nodes : types[i].name = NULL => i = 1
  /\ \A i \in Nodes : types[i].name # NULL =>
       \E k \in Lines : types[i].name = Name(k) /\ types[i].type = Type(k)
  /\ \A i, j \in Nodes : types[i].name = types[j].name => i = j

\* How far the table is filled: in the first js_init each line done has added at
\* most one node, and each has left its name there.
FillInv ==
  /\ step # 0 => inits < MaxInits
  /\ AllNamed => \A k \in Lines : inits > 0 \/ k < step => Known(Name(k))
  /\ Len(types) <= 33
  /\ inits = 0 => Len(types) <= IF step = 0 THEN 0 ELSE step - 1

Inv == TypeOK /\ TableInv /\ FillInv

-----------------------------------------------------------------------------
(* The lines of define_types *)

LEMMA LinesAre == Lines = 1..33 /\ Len(define_types) = 33
BY DEF Lines, define_types

\* Each name has one line.
LineOf(n) ==
  CASE n = "void" -> 1 [] n = "sint8" -> 2 [] n = "sint16" -> 3 [] n = "sint32" -> 4
      [] n = "sint64" -> 5 [] n = "uint8" -> 6 [] n = "uint16" -> 7 [] n = "uint32" -> 8
      [] n = "uint64" -> 9 [] n = "float" -> 10 [] n = "double" -> 11 [] n = "schar" -> 12
      [] n = "uchar" -> 13 [] n = "sshort" -> 14 [] n = "ushort" -> 15 [] n = "sint" -> 16
      [] n = "uint" -> 17 [] n = "slong" -> 18 [] n = "ulong" -> 19
      [] n = "longdouble" -> 20 [] n = "pointer" -> 21 [] n = "int" -> 22
      [] n = "long" -> 23 [] n = "short" -> 24 [] n = "char" -> 25 [] n = "size_t" -> 26
      [] n = "unsigned char" -> 27 [] n = "unsigned int" -> 28 [] n = "unsigned long" -> 29
      [] n = "void *" -> 30 [] n = "char *" -> 31 [] n = "string" -> 32
      [] n = "buffer" -> 33

LEMMA LineOfName ==
      LineOf(Name(1)) = 1 /\ LineOf(Name(2)) = 2 /\ LineOf(Name(3)) = 3
   /\ LineOf(Name(4)) = 4 /\ LineOf(Name(5)) = 5 /\ LineOf(Name(6)) = 6
   /\ LineOf(Name(7)) = 7 /\ LineOf(Name(8)) = 8 /\ LineOf(Name(9)) = 9
   /\ LineOf(Name(10)) = 10 /\ LineOf(Name(11)) = 11 /\ LineOf(Name(12)) = 12
   /\ LineOf(Name(13)) = 13 /\ LineOf(Name(14)) = 14 /\ LineOf(Name(15)) = 15
   /\ LineOf(Name(16)) = 16 /\ LineOf(Name(17)) = 17 /\ LineOf(Name(18)) = 18
   /\ LineOf(Name(19)) = 19 /\ LineOf(Name(20)) = 20 /\ LineOf(Name(21)) = 21
   /\ LineOf(Name(22)) = 22 /\ LineOf(Name(23)) = 23 /\ LineOf(Name(24)) = 24
   /\ LineOf(Name(25)) = 25 /\ LineOf(Name(26)) = 26 /\ LineOf(Name(27)) = 27
   /\ LineOf(Name(28)) = 28 /\ LineOf(Name(29)) = 29 /\ LineOf(Name(30)) = 30
   /\ LineOf(Name(31)) = 31 /\ LineOf(Name(32)) = 32 /\ LineOf(Name(33)) = 33
<1>1. /\ Name(1) = "void" /\ Name(2) = "sint8" /\ Name(3) = "sint16"
      /\ Name(4) = "sint32" /\ Name(5) = "sint64"
  BY DEF Name, define_types
<1>2. /\ LineOf(Name(1)) = 1 /\ LineOf(Name(2)) = 2 /\ LineOf(Name(3)) = 3
      /\ LineOf(Name(4)) = 4 /\ LineOf(Name(5)) = 5
  BY <1>1 DEF LineOf
<1>3. /\ Name(6) = "uint8" /\ Name(7) = "uint16" /\ Name(8) = "uint32"
      /\ Name(9) = "uint64" /\ Name(10) = "float"
  BY DEF Name, define_types
<1>4. /\ LineOf(Name(6)) = 6 /\ LineOf(Name(7)) = 7 /\ LineOf(Name(8)) = 8
      /\ LineOf(Name(9)) = 9 /\ LineOf(Name(10)) = 10
  BY <1>3 DEF LineOf
<1>5. /\ Name(11) = "double" /\ Name(12) = "schar" /\ Name(13) = "uchar"
      /\ Name(14) = "sshort" /\ Name(15) = "ushort"
  BY DEF Name, define_types
<1>6. /\ LineOf(Name(11)) = 11 /\ LineOf(Name(12)) = 12 /\ LineOf(Name(13)) = 13
      /\ LineOf(Name(14)) = 14 /\ LineOf(Name(15)) = 15
  BY <1>5 DEF LineOf
<1>7. /\ Name(16) = "sint" /\ Name(17) = "uint" /\ Name(18) = "slong"
      /\ Name(19) = "ulong" /\ Name(20) = "longdouble"
  BY DEF Name, define_types
<1>8. /\ LineOf(Name(16)) = 16 /\ LineOf(Name(17)) = 17 /\ LineOf(Name(18)) = 18
      /\ LineOf(Name(19)) = 19 /\ LineOf(Name(20)) = 20
  BY <1>7 DEF LineOf
<1>9. /\ Name(21) = "pointer" /\ Name(22) = "int" /\ Name(23) = "long"
      /\ Name(24) = "short" /\ Name(25) = "char"
  BY DEF Name, define_types
<1>10. /\ LineOf(Name(21)) = 21 /\ LineOf(Name(22)) = 22 /\ LineOf(Name(23)) = 23
      /\ LineOf(Name(24)) = 24 /\ LineOf(Name(25)) = 25
  BY <1>9 DEF LineOf
<1>11. /\ Name(26) = "size_t" /\ Name(27) = "unsigned char" /\ Name(28) = "unsigned int"
      /\ Name(29) = "unsigned long" /\ Name(30) = "void *"
  BY DEF Name, define_types
<1>12. /\ LineOf(Name(26)) = 26 /\ LineOf(Name(27)) = 27 /\ LineOf(Name(28)) = 28
      /\ LineOf(Name(29)) = 29 /\ LineOf(Name(30)) = 30
  BY <1>11 DEF LineOf
<1>13. /\ Name(31) = "char *" /\ Name(32) = "string" /\ Name(33) = "buffer"
  BY DEF Name, define_types
<1>14. /\ LineOf(Name(31)) = 31 /\ LineOf(Name(32)) = 32 /\ LineOf(Name(33)) = 33
  BY <1>13 DEF LineOf
<1> QED BY <1>2, <1>4, <1>6, <1>8, <1>10, <1>12, <1>14, Zenon

LEMMA NamesDiffer ==
  ASSUME NEW k \in Lines, NEW l \in Lines, Name(k) = Name(l)
  PROVE  k = l
<1>1. \A m \in 1..33 : LineOf(Name(m)) = m
  BY LineOfName
<1> QED BY <1>1, LinesAre

-----------------------------------------------------------------------------
(* The table *)

\* A new head.
LEMMA Consed ==
  ASSUME NEW S, NEW s \in Seq(S), NEW e \in S
  PROVE  LET t == <<e>> \o s
         IN  /\ t \in Seq(S) /\ Len(t) = Len(s) + 1 /\ t[1] = e
             /\ \A i \in DOMAIN s : i + 1 \in DOMAIN t /\ t[i + 1] = s[i]
             /\ \A i \in DOMAIN t : i = 1 \/ (i - 1 \in DOMAIN s /\ t[i] = s[i - 1])
             /\ 1 \in DOMAIN t
OBVIOUS

\* A search that finds nothing and does not crash has seen every node's name.
LEMMA SearchInVain ==
  ASSUME TypeOK, NEW n, ~Known(n), ~WalkCrashes(n)
  PROVE  AllNamed /\ \A i \in Nodes : types[i].name # n
<1>1. \A i \in Nodes : types[i].name # n
  BY DEF Known, Nodes
<1>2. \A i \in Nodes, j \in Int : j \in 1..(i - 1) => j \in Nodes
  BY DEF Nodes, TypeOK
<1>3. Walk(n) = Nodes
  <2>1. \A i \in Nodes : \A j \in 1..(i - 1) : types[j].name # n
    BY <1>1, <1>2
  <2> QED BY <2>1 DEF Walk, Nodes
<1> QED BY <1>1, <1>3 DEF WalkCrashes, AllNamed

\* find_ffi_type returns the type of the line that the name is from.
LEMMA Finds ==
  ASSUME Inv, NEW k \in Lines, Known(Name(k))
  PROVE  find_ffi_type(Name(k)) = Type(k)
<1> DEFINE i == CHOOSE i \in Walk(Name(k)) : types[i].name = Name(k)
<1>1. PICK m \in Nodes : types[m].name = Name(k)
  BY DEF Known, Nodes
<1>2. \A j \in 1..(m - 1) : j \in Nodes /\ j # m
  BY DEF Nodes, Inv, TypeOK
<1>3. m \in Walk(Name(k))
  BY <1>1, <1>2 DEF Walk, Nodes, Inv, TableInv
<1>4. i \in Nodes /\ types[i].name = Name(k)
  BY <1>1, <1>3 DEF Walk, Nodes
<1>5. Name(k) # NULL
  BY TypesAssumption
<1>6. PICK l \in Lines : types[i].name = Name(l) /\ types[i].type = Type(l)
  BY <1>4, <1>5 DEF Inv, TableInv
<1>7. l = k
  BY <1>4, <1>6, NamesDiffer
<1> QED BY <1>6, <1>7 DEF find_ffi_type

-----------------------------------------------------------------------------
(* The steps *)

\* The next line, with a table that has the name of this one.
LEMMA LineDoneStep ==
  ASSUME Inv, AtLine, LineDone, process' = process,
         types' \in Seq(FfiTypeS), TableInv',
         AllNamed' => AllNamed /\ \E i \in Nodes' : types'[i].name = Name(step),
         \A n : Known(n) => Known(n)',
         \/ Len(types') = Len(types)
         \/ Len(types') = Len(types) + 1 /\ inits = 0
  PROVE  Inv'
<1>1. /\ Lines = 1..33 /\ step \in 1..33 /\ inits \in Nat /\ MaxInits \in Nat
      /\ inits < MaxInits /\ Len(types) \in Nat /\ Len(types) <= 33
  <2>1. Lines = 1..33 /\ step \in 1..33
    BY LinesAre DEF AtLine
  <2>2. inits \in Nat /\ MaxInits \in Nat /\ Len(types) \in Nat
    BY TypesAssumption DEF Inv, TypeOK
  <2>3. inits < MaxInits /\ Len(types) <= 33
    BY <2>1 DEF Inv, FillInv
  <2> QED BY <2>1, <2>2, <2>3
<1>2. \/ step < 33 /\ step' = step + 1 /\ inits' = inits
      \/ step = 33 /\ step' = 0 /\ inits' = inits + 1
  BY <1>1 DEF LineDone
<1>3. TypeOK'
  <2>1. inits' \in 0..MaxInits
    BY <1>1, <1>2
  <2>2. step' \in 1..33 \/ step' = 0
    <3>1. step \in 1..33 /\ ((step < 33 /\ step' = step + 1) \/ step' = 0)
      BY <1>1, <1>2
    <3> QED BY ONLY <3>1
  <2>3. step' \in Lines \cup {0}
    BY <1>1, <2>2
  <2> QED BY <2>1, <2>3 DEF Inv, TypeOK
<1>4. Len(types') <= 33 /\ (inits' = 0 => Len(types') <= step' - 1)
  BY <1>1, <1>2 DEF Inv, FillInv
<1>5. (step' # 0 => inits' < MaxInits) /\ (inits' = 0 => step' # 0)
  BY <1>1, <1>2
<1>6. ASSUME AllNamed', NEW k \in Lines, inits' > 0 \/ k < step'
      PROVE  Known(Name(k))'
  <2>1. inits > 0 \/ k <= step
    BY <1>1, <1>2, <1>6
  <2>2. k = step \/ Known(Name(k))
    <3>1. inits > 0 \/ k < step \/ k = step
      BY <1>1, <2>1
    <3> QED BY <1>6, <3>1 DEF Inv, FillInv
  <2>3. CASE k = step
    BY <1>6, <2>3 DEF Known, Nodes, Name
  <2>4. CASE Known(Name(k))
    BY <2>4
  <2> QED BY <2>2, <2>3, <2>4
<1>7. FillInv'
  BY <1>4, <1>5, <1>6 DEF FillInv
<1> QED BY <1>3, <1>7 DEF Inv

LEMMA KnownTypeStep ==
  ASSUME Inv, KnownType
  PROVE  Inv'
<1>1. types' = types /\ process' = process /\ AtLine /\ LineDone /\ Known(Name(step))
  BY DEF KnownType
<1>2. types' \in Seq(FfiTypeS) /\ TableInv' /\ Len(types') = Len(types)
  BY <1>1 DEF Inv, TypeOK, TableInv, Nodes
<1>3. (AllNamed' => AllNamed) /\ \A n : Known(n) => Known(n)'
  BY <1>1 DEF AllNamed, Nodes, Known
<1>4. \E i \in Nodes' : types'[i].name = Name(step)
  BY <1>1 DEF Known, Nodes
<1> QED BY <1>1, <1>2, <1>3, <1>4, LineDoneStep

LEMMA NewTypeStep ==
  ASSUME Inv, NewType
  PROVE  Inv'
<1>1. PICK n \in {Name(step), NULL} : types' = <<[name |-> n, type |-> Type(step)]>> \o types
  BY DEF NewType
<1> DEFINE head == [name |-> n, type |-> Type(step)]
<1>2. process' = process /\ AtLine /\ LineDone /\ step \in Lines
  BY DEF NewType, AtLine
<1>3. AllNamed /\ \A i \in Nodes : types[i].name # Name(step)
  BY SearchInVain DEF NewType, Inv
<1>4. inits = 0
  <2>1. ~(inits > 0)
    BY <1>2, <1>3 DEF NewType, Inv, FillInv
  <2> QED BY <2>1 DEF Inv, TypeOK
<1>5. head \in FfiTypeS /\ types \in Seq(FfiTypeS)
  BY <1>2 DEF FfiTypeS, Inv, TypeOK
<1>6. /\ types' \in Seq(FfiTypeS) /\ Len(types') = Len(types) + 1
      /\ types'[1] = head /\ 1 \in Nodes'
      /\ \A i \in Nodes : i \in Int /\ i + 1 \in Nodes' /\ types'[i + 1] = types[i]
      /\ \A i \in Nodes' : i \in Int /\ (i = 1 \/ (i - 1 \in Nodes /\ types'[i] = types[i - 1]))
  BY <1>1, <1>5, Consed DEF Nodes
<1>7. head.name = n /\ head.type = Type(step)
  OBVIOUS
<1> HIDE DEF head
<1>8. \A i \in Nodes' : i # 1 => types'[i].name \notin {NULL, n}
  BY <1>3, <1>6 DEF AllNamed
<1>9. TableInv'
  <2>1. \A i \in Nodes' : types'[i].name = NULL => i = 1
    BY <1>8
  <2>2. \A i \in Nodes' : types'[i].name # NULL =>
          \E k \in Lines : types'[i].name = Name(k) /\ types'[i].type = Type(k)
    <3>1. \A i \in Nodes : \E k \in Lines : types[i].name = Name(k) /\ types[i].type = Type(k)
      BY <1>3 DEF Inv, TableInv, AllNamed
    <3> QED BY <1>2, <1>6, <1>7, <3>1
  <2>3. ASSUME NEW i \in Nodes', NEW j \in Nodes', types'[i].name = types'[j].name
        PROVE  i = j
    <3>1. CASE i = 1 \/ j = 1
      BY <1>6, <1>7, <1>8, <2>3, <3>1
    <3>2. CASE i # 1 /\ j # 1
      <4>1. i - 1 = j - 1
        BY <1>6, <2>3, <3>2 DEF Inv, TableInv
      <4> QED BY <1>6, <4>1
    <3> QED BY <3>1, <3>2
  <2> QED BY <2>1, <2>2, <2>3 DEF TableInv, Name, Type
<1>10. \A m : Known(m) => Known(m)'
  BY <1>6 DEF Known, Nodes
<1>11. AllNamed' => \E i \in Nodes' : types'[i].name = Name(step)
  BY <1>6, <1>7 DEF AllNamed
<1> QED BY <1>2, <1>3, <1>4, <1>6, <1>9, <1>10, <1>11, LineDoneStep

\* Steps that do not touch the table.
LEMMA TableStays ==
  ASSUME Inv, types' = types, inits' = inits, process' \in {"running", "exited", "crashed"},
         step' = step \/ (step = 0 /\ step' = 1 /\ inits < MaxInits)
  PROVE  Inv'
<1>1. step' \in Lines \cup {0}
  <2>1. 1 \in Lines
    BY LinesAre
  <2> QED BY <2>1 DEF Inv, TypeOK
<1>2. TypeOK' /\ TableInv'
  BY <1>1 DEF Inv, TypeOK, TableInv, Nodes
<1>3. Lines = 1..33 /\ Len(types) \in Nat
  BY LinesAre DEF Inv, TypeOK
<1>4. \A k \in Lines : k < step' => k < step
  BY <1>3 DEF Inv, TypeOK
<1>5. inits' = 0 => Len(types') <= IF step' = 0 THEN 0 ELSE step' - 1
  BY <1>3 DEF Inv, FillInv
<1>6. AllNamed' => \A k \in Lines : inits' > 0 \/ k < step' => Known(Name(k))'
  BY <1>4 DEF Inv, FillInv, AllNamed, Nodes, Known
<1>7. (step' # 0 => inits' < MaxInits) /\ Len(types') <= 33
  BY DEF Inv, FillInv
<1> QED BY <1>2, <1>5, <1>6, <1>7 DEF Inv, FillInv

-----------------------------------------------------------------------------
(* The invariant *)

LEMMA InitInv == Init => Inv
<1> SUFFICES ASSUME Init PROVE Inv
  OBVIOUS
<1>1. types = <<>> /\ Nodes = {} /\ Len(types) = 0
  BY DEF Init, Nodes
<1>2. TypeOK
  BY <1>1, TypesAssumption DEF Init, TypeOK
<1>3. TableInv
  BY <1>1 DEF TableInv
<1>4. FillInv
  BY <1>1, LinesAre DEF Init, FillInv
<1> QED BY <1>2, <1>3, <1>4 DEF Inv

LEMMA NextInv == Inv /\ [Next]_vars => Inv'
<1> SUFFICES ASSUME Inv, [Next]_vars PROVE Inv'
  OBVIOUS
<1>1. CASE UNCHANGED vars \/ Terminated
  BY <1>1, TableStays DEF vars, Terminated, Inv, TypeOK
<1>2. CASE js_init
  BY <1>2, TableStays DEF js_init, Inv, TypeOK
<1>3. CASE NoMemory \/ Crash
  BY <1>3, TableStays DEF NoMemory, Crash
<1>4. CASE KnownType
  BY <1>4, KnownTypeStep
<1>5. CASE NewType
  BY <1>5, NewTypeStep
<1> QED BY <1>1, <1>2, <1>3, <1>4, <1>5 DEF Next

LEMMA SpecInv == Spec => []Inv
BY InitInv, NextInv, PTL DEF Spec

\* The state has its types in every reachable state.
THEOREM TypeCorrect == Spec => []TypeOK
<1>1. Inv => TypeOK
  BY DEF Inv
<1> QED BY <1>1, SpecInv, PTL

\* However many modules are made from ffi.so, a type name has one node, and the
\* table no more nodes than define_types has lines.
THEOREM OneNodeEach == Spec => []NamesOnce
<1>1. Inv => NamesOnce
  BY LinesAre DEF Inv, TableInv, FillInv, NamesOnce, Nodes
<1> QED BY <1>1, SpecInv, PTL

\* After the first js_init, and while it runs again, find_ffi_type knows every
\* name of define_types and returns its type, if memory was never short.
THEOREM TypesStayReady == Spec => []TypesReady
<1>1. Inv => TypesReady
  <2> SUFFICES ASSUME Inv, inits > 0, AllNamed, NEW k \in Lines
               PROVE  find_ffi_type(Name(k)) = Type(k)
    BY DEF TypesReady, AllNamed, Nodes
  <2>1. Known(Name(k))
    BY DEF Inv, FillInv
  <2> QED BY <2>1, Finds
<1> QED BY <1>1, SpecInv, PTL
=============================================================================
