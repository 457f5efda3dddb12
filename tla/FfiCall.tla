------------------------------ MODULE FfiCall ------------------------------
(***************************************************************************)
(* One run of call_function of ffi.so, from the arguments that js_call has *)
(* converted to the double that the script gets.  FfiRegistry has the      *)
(* lookup, the memory and the frames; here are the values.                 *)
(*                                                                         *)
(* Numbers are scaled: a word has Word values, an unsigned int UInt; a     *)
(* double holds all integers up to DoubleRange (2^53), a float up to       *)
(* FloatRange (2^24), a long double any word.  A floating value is written *)
(* twice as large, so that 3 stands for 1.5; an integral value or a        *)
(* pointer is written as itself.                                           *)
(***************************************************************************)
EXTENDS Integers, Sequences, FiniteSets

CONSTANTS
  Word, UInt, DoubleRange, FloatRange,
  Registers,   \* integral parameters that the ABI passes in registers
  Garbage,     \* bound: what may be left in the upper half of a word on the stack
  MaxArity,    \* bound: parameters of the function
  Integrals,   \* bound: integral arguments (JavaScript ints, booleans, pointers)
  Halves,      \* bound: floating arguments, doubled
  Pointers     \* bound: pointers that a function may return

ASSUME CallAssumption ==
  /\ Word \in Nat /\ Word % 2 = 0 /\ UInt \in 1..(Word \div 2)
  /\ DoubleRange \in Nat /\ FloatRange \in Nat
  /\ MaxArity \in Nat
  /\ Registers \in Nat /\ Garbage \subseteq 0..(Word \div UInt - 1)
  /\ Integrals \subseteq -(Word \div 2)..(Word \div 2 - 1) /\ Halves \subseteq Int
  /\ Pointers \subseteq 0..(Word - 1)

VARIABLES
  proto,         \* f->args: the parameter types
  rtype,         \* f->rtype
  args,          \* the typed_arguments of js_call
  pc,
  i, pl,         \* the loop's parameter, pointers packed so far
  arguments,     \* the union cells, one per parameter
  pointer_list,  \* the pointer cells, filled in order of appearance
  ptrs,          \* what ffi_call gets: a reference to a cell per parameter
  received,      \* what the C function has for its parameters
  rc,            \* the result cell
  r              \* the result given to the script

vars == <<proto, rtype, args, pc, i, pl, arguments, pointer_list, ptrs, received, rc, r>>

-----------------------------------------------------------------------------
(* Values *)

\* The ffi_types that call_function tells apart; all others are integral, of which
\* there are those of a word, those with a sign that are narrower, and size_t,
\* which is a word to the C function and an unsigned int to libffi.
Types == {"float", "double", "longdouble", "pointer", "integral", "int", "size_t"}

\* The member of union argument that a type is read from and written to.
Member(t) == CASE t = "float" -> "f" [] t = "double" -> "d" [] t = "longdouble" -> "ld"
               [] t = "pointer" -> "p" [] OTHER -> "ll"

SignedInt(v) == LET u == v % UInt IN IF u < UInt \div 2 THEN u ELSE u - UInt
Signed(p) == IF p < Word \div 2 THEN p ELSE p - Word
Abs(v) == IF v < 0 THEN -v ELSE v

\* v to the nearest multiple of q, ties to the even one.
Nearest(v, q) ==
  LET f == v \div q
      rest == v % q
  IN  q * (IF 2 * rest < q \/ (2 * rest = q /\ f % 2 = 0) THEN f ELSE f + 1)

\* The powers of two, as units of the last place.
Units == {q \in 1..Word : \A d \in 2..q : q % d = 0 => d % 2 = 0}

\* v rounded to a type that holds all integers up to range: to a multiple of the
\* smallest unit with which v is in reach.
Rounded(v, range) ==
  LET unit == CHOOSE q \in Units :
                /\ Abs(v) <= range * q
                /\ \A p \in Units : p < q => Abs(v) > range * p
  IN  Nearest(v, unit)

\* (long long) of a floating value: the fraction goes; out of range, the build
\* gives the smallest or the largest integer.
Truncated(h) ==
  LET v == IF h < 0 THEN -((-h) \div 2) ELSE h \div 2
  IN  IF v \in -(Word \div 2)..(Word \div 2 - 1) THEN {v}
      ELSE {-(Word \div 2), Word \div 2 - 1}

\* The values the switch may store for the argument a of a parameter of type t.
Stored(a, t) ==
  LET h == IF a.type = "INTEGRAL" THEN 2 * a.v ELSE a.v
      ll == IF a.type = "INTEGRAL" THEN {a.v} ELSE Truncated(a.v)
  IN  CASE t = "float" -> {Rounded(h, FloatRange)}
        [] t = "double" -> {Rounded(h, DoubleRange)}
        [] t = "longdouble" -> {h}
        [] t = "pointer" -> {v % Word : v \in ll}
        [] OTHER -> ll

\* Mutants of Result: an integer, or a pointer, is taken for unsigned.
ResultUnsigned(t, c) ==
  IF t = "void" THEN 0
  ELSE Rounded(CASE t \in {"float", "double", "longdouble"} -> c.v
                 [] t = "pointer" -> Rounded(2 * Signed(c.v), DoubleRange)
                 [] OTHER -> 2 * (c.v % Word), DoubleRange)
ResultUnsignedPointer(t, c) ==
  IF t = "void" THEN 0
  ELSE Rounded(IF t \in {"float", "double", "longdouble"} THEN c.v ELSE 2 * c.v, DoubleRange)

\* The double that the script gets for the result c of type t: r is a long
\* double, into which any result fits, then a JavaScript number.
Result(t, c) ==
  IF t = "void" THEN 0
  ELSE Rounded(CASE t \in {"float", "double", "longdouble"} -> c.v
                 [] t = "pointer" -> Rounded(2 * Signed(c.v), DoubleRange)
                 [] OTHER -> 2 * c.v, DoubleRange)

\* The typed_argument that js_call makes of a JavaScript number, given doubled:
\* an int32 is integral.
NumberArgument(h) ==
  IF h % 2 = 0 /\ SignedInt(h \div 2) = h \div 2
  THEN [type |-> "INTEGRAL", v |-> h \div 2]
  ELSE [type |-> "FLOAT", v |-> h]

-----------------------------------------------------------------------------
(* call_function *)

TypedArgument ==
  [type : {"INTEGRAL"}, v : Integrals] \cup [type : {"FLOAT"}, v : Halves]
Cell == [m : {"f", "d", "ld", "p", "ll"}, v : Int]
NullCell == [m |-> "p", v |-> 0]
Arity == Len(proto)

\* The cell that a reference leads to.
Deref(ref) == IF ref[1] = "arguments" THEN arguments[ref[2]] ELSE pointer_list[ref[2]]

\* The three arrays are allocated; the loop that initialises them.
Init ==
  /\ \E n \in 0..MaxArity :
       /\ proto \in [1..n -> Types]
       /\ args \in [1..n -> TypedArgument]
       /\ arguments = [k \in 1..n |-> NullCell]
       /\ pointer_list = [k \in 1..n |-> NullCell]
       /\ ptrs = [k \in 1..n |-> <<"arguments", k>>]
  /\ rtype \in Types \cup {"void"}
  /\ pc = "convert"
  /\ received = <<>>
  /\ i = 1
  /\ pl = 0
  /\ rc = NullCell
  /\ r = 0

\* A parameter that is no pointer goes to its own cell.
ConvertScalar ==
  /\ pc = "convert"
  /\ i <= Arity
  /\ proto[i] # "pointer"
  /\ \E v \in Stored(args[i], proto[i]) :
       arguments' = [arguments EXCEPT ![i] = [m |-> Member(proto[i]), v |-> v]]
  /\ i' = i + 1
  /\ UNCHANGED <<proto, rtype, args, pc, pl, pointer_list, ptrs, received, rc, r>>

\* A mutant of ConvertPointer: pl is not advanced.
ConvertPointerOneCell ==
  /\ pc = "convert" /\ i <= Arity /\ proto[i] = "pointer"
  /\ pl' = 1
  /\ \E v \in Stored(args[i], proto[i]) :
       pointer_list' = [pointer_list EXCEPT ![pl'] = [m |-> "p", v |-> v]]
  /\ ptrs' = [ptrs EXCEPT ![i] = <<"pointer_list", pl'>>]
  /\ i' = i + 1
  /\ UNCHANGED <<proto, rtype, args, pc, arguments, received, rc, r>>

\* A pointer goes to the next cell of pointer_list.
ConvertPointer ==
  /\ pc = "convert"
  /\ i <= Arity
  /\ proto[i] = "pointer"
  /\ pl' = pl + 1
  /\ \E v \in Stored(args[i], proto[i]) :
       pointer_list' = [pointer_list EXCEPT ![pl'] = [m |-> "p", v |-> v]]
  /\ ptrs' = [ptrs EXCEPT ![i] = <<"pointer_list", pl'>>]
  /\ i' = i + 1
  /\ UNCHANGED <<proto, rtype, args, pc, arguments, received, rc, r>>

\* A parameter that is not floating comes in a register while there are some.
InRegister(k) ==
  Cardinality({j \in 1..(k - 1) : Member(proto[j]) \in {"p", "ll"}}) < Registers

\* A mutant of Narrowed: a size is taken for signed.
NarrowedSigned(t, v) == IF t \in {"int", "size_t"} THEN SignedInt(v) ELSE v

\* A value that libffi has read as a type and made a register of.
Narrowed(t, v) ==
  CASE t = "int" -> SignedInt(v) [] t = "size_t" -> v % UInt [] OTHER -> v

\* ffi_call: libffi reads each parameter with the width of its type, and puts a
\* size on the stack into half of its word. The function returns its first
\* parameter, where the types allow it, or any value of its type; a result
\* narrower than a word is widened.
FfiCall ==
  /\ pc = "convert"
  /\ i > Arity
  /\ pc' = "result"
  /\ \E upper \in Garbage :
       received' = [k \in 1..Arity |->
                      Narrowed(proto[k], Deref(ptrs[k]).v)
                        + IF proto[k] = "size_t" /\ ~InRegister(k) THEN UInt * upper ELSE 0]
  /\ rc' \in IF rtype = "void" THEN {NullCell}
             ELSE [m : {Member(rtype)},
                   v : IF Arity > 0 /\ proto[1] = rtype THEN {Narrowed(rtype, received'[1])}
                       ELSE IF rtype = "pointer" THEN Pointers
                       ELSE {Narrowed(rtype, v) : v \in Integrals}]
  /\ UNCHANGED <<proto, rtype, args, i, pl, arguments, pointer_list, ptrs, r>>

ConvertResult ==
  /\ pc = "result"
  /\ pc' = "done"
  /\ r' = Result(rtype, rc)
  /\ UNCHANGED <<proto, rtype, args, i, pl, arguments, pointer_list, ptrs, received, rc>>

Done == pc = "done" /\ UNCHANGED vars

Next == ConvertScalar \/ ConvertPointer \/ FfiCall \/ ConvertResult \/ Done

Spec == Init /\ [][Next]_vars

-----------------------------------------------------------------------------
(* Properties *)

\* The state has its types.
TypeOK ==
  /\ Arity \in Nat
  /\ proto \in [1..Arity -> Types]
  /\ args \in [1..Arity -> TypedArgument]
  /\ rtype \in Types \cup {"void"}
  /\ pc \in {"convert", "result", "done"}
  /\ i \in 1..(Arity + 1) /\ pl \in 0..Arity
  /\ arguments \in [1..Arity -> Cell]
  /\ pointer_list \in [1..Arity -> Cell]
  /\ ptrs \in [1..Arity -> {"arguments", "pointer_list"} \X (1..Arity)]
  /\ received \in Seq(Int)
  /\ rc \in Cell
  /\ r \in Int

\* Each parameter converted so far is, and stays, what libffi will read through
\* ptrs: the right member of a cell that no later parameter has taken, with the
\* value of its own argument. The two indexes i and pl run apart as soon as
\* a prototype mixes pointers with other types.
ParametersPassed ==
  \A k \in 1..(i - 1) :
    /\ Deref(ptrs[k]).m = Member(proto[k])
    /\ Deref(ptrs[k]).v \in Stored(args[k], proto[k])

\* The integers that are values of a type.
Holds(t, v) ==
  CASE t = "int" -> SignedInt(v) = v [] t = "size_t" -> v \in 0..(UInt - 1) [] OTHER -> TRUE

\* An integer that a double and the type of the parameter can hold passes through a
\* function that returns its parameter unchanged, whichever type, except
\* float, the parameter has, and however narrow the part of the result that
\* the function sets: rc.ll is read whole.
EchoExact ==
  pc = "done" /\ Arity > 0 /\ rtype = proto[1] /\ rtype # "float" =>
    LET a == args[1]
    IN  a.type = "INTEGRAL" /\ Abs(a.v) <= DoubleRange /\ Holds(rtype, a.v) => r = 2 * a.v

\* A size that the script gives, and that reaches the C function in a register, is
\* never larger there than what was given, so that the function stays within
\* the buffer; it is the same if it fits in the unsigned int that size_t stands
\* for. On the stack nothing is known of its upper half.
SizeNotLarger ==
  pc # "convert" =>
    \A k \in 1..Arity :
      proto[k] = "size_t" /\ InRegister(k) /\ args[k].v >= 0 =>
        LET given == IF args[k].type = "INTEGRAL" THEN args[k].v ELSE args[k].v \div 2
        IN  received[k] <= given /\ (given < UInt => received[k] = given)

\* A pointer that a function returned, as the double that the script gets, is
\* the same pointer when the script passes it on, as long as it is in the range
\* in which a double holds every integer.
PointerRoundTrip ==
  pc = "done" /\ rtype = "pointer" /\ Abs(Signed(rc.v)) <= DoubleRange =>
    Stored(NumberArgument(r), "pointer") = {rc.v}
=============================================================================
