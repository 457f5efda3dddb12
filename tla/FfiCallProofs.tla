--------------------------- MODULE FfiCallProofs ---------------------------
(***************************************************************************)
(* For every prototype and all arguments, the loop of call_function leaves *)
(* each parameter where libffi reads it.                                   *)
(***************************************************************************)
EXTENDS FfiCall, SequenceTheorems, TLAPS

\* The arrays have one cell per parameter.
Arrays ==
  /\ Arity \in Nat
  /\ arguments = [k \in 1..Arity |-> arguments[k]]
  /\ pointer_list = [k \in 1..Arity |-> pointer_list[k]]
  /\ ptrs = [k \in 1..Arity |-> ptrs[k]]
  /\ i \in 1..(Arity + 1)

\* A parameter still has its own cell, except a converted pointer, which has one
\* of the first pl pointer cells; pointers fill them no faster than i goes.
Slots ==
  /\ pl \in Nat /\ pl <= i - 1
  /\ \A k \in 1..Arity :
       IF k < i /\ proto[k] = "pointer"
       THEN \E s \in 1..pl : ptrs[k] = <<"pointer_list", s>>
       ELSE ptrs[k] = <<"arguments", k>>

IInv == Arrays /\ Slots /\ ParametersPassed

LEMMA InitIInv == Init => IInv
<1> SUFFICES ASSUME Init PROVE IInv
  OBVIOUS
<1>1. PICK n \in 0..MaxArity :
        /\ proto \in [1..n -> Types]
        /\ arguments = [k \in 1..n |-> NullCell]
        /\ pointer_list = [k \in 1..n |-> NullCell]
        /\ ptrs = [k \in 1..n |-> <<"arguments", k>>]
  BY DEF Init
<1>2. n \in Nat /\ proto \in Seq(Types)
  BY <1>1, CallAssumption, SeqDef
<1>3. Arity = n
  BY <1>1, <1>2, LenProperties DEF Arity
<1>4. i = 1 /\ pl = 0
  BY DEF Init
<1> QED BY <1>1, <1>2, <1>3, <1>4 DEF IInv, Arrays, Slots, ParametersPassed

\* A scalar overwrites its own cell only, which no other parameter refers to.
LEMMA ScalarStep ==
  ASSUME IInv, ConvertScalar
  PROVE  IInv'
<1>1. /\ i \in 1..Arity /\ proto[i] # "pointer" /\ i' = i + 1
      /\ Arity \in Nat /\ Arity' = Arity
      /\ UNCHANGED <<proto, args, pl, pointer_list, ptrs>>
  BY DEF ConvertScalar, IInv, Arrays, Arity
<1>2. PICK v \in Stored(args[i], proto[i]) :
        arguments' = [arguments EXCEPT ![i] = [m |-> Member(proto[i]), v |-> v]]
  BY DEF ConvertScalar
<1>3. /\ arguments'[i] = [m |-> Member(proto[i]), v |-> v]
      /\ \A k \in 1..Arity : k # i => arguments'[k] = arguments[k]
      /\ arguments' = [k \in 1..Arity |-> arguments'[k]]
  BY <1>1, <1>2 DEF IInv, Arrays
<1>4. Arrays'
  BY <1>1, <1>3 DEF IInv, Arrays
<1>5. Slots'
  <2>1. pl' \in Nat /\ pl' <= i' - 1
    BY <1>1 DEF IInv, Slots
  <2>2. \A k \in 1..Arity : (k < i' /\ proto[k] = "pointer") <=> (k < i /\ proto[k] = "pointer")
    BY <1>1
  <2> QED BY <1>1, <2>1, <2>2 DEF IInv, Slots
<1>6. ParametersPassed'
  <2> SUFFICES ASSUME NEW k \in 1..i
               PROVE  /\ Deref(ptrs[k])'.m = Member(proto[k])
                      /\ Deref(ptrs[k])'.v \in Stored(args[k], proto[k])
    BY <1>1 DEF ParametersPassed
  <2>1. k \in 1..Arity
    BY <1>1
  <2>2. CASE k = i
    <3>1. ptrs[k] = <<"arguments", k>>
      BY <2>1, <2>2 DEF IInv, Slots
    <3>2. Deref(ptrs[k])' = arguments'[i]
      BY <1>1, <2>2, <3>1 DEF Deref
    <3> QED BY <1>3, <2>2, <3>2
  <2>3. CASE k # i
    <3>1. k \in 1..(i - 1)
      BY <1>1, <2>3
    <3>2. Deref(ptrs[k]).m = Member(proto[k]) /\ Deref(ptrs[k]).v \in Stored(args[k], proto[k])
      BY <3>1 DEF IInv, ParametersPassed
    <3>3. ptrs[k] = <<"arguments", k>> \/ \E s \in 1..pl : ptrs[k] = <<"pointer_list", s>>
      BY <2>1 DEF IInv, Slots
    <3>4. Deref(ptrs[k])' = Deref(ptrs[k])
      BY <1>1, <1>3, <2>1, <2>3, <3>3 DEF Deref
    <3> QED BY <3>2, <3>4
  <2> QED BY <2>2, <2>3
<1> QED BY <1>4, <1>5, <1>6 DEF IInv

\* A pointer takes the first free pointer cell, which no parameter refers to.
LEMMA PointerStep ==
  ASSUME IInv, ConvertPointer
  PROVE  IInv'
<1>1. /\ i \in 1..Arity /\ proto[i] = "pointer" /\ i' = i + 1 /\ pl' = pl + 1
      /\ Arity \in Nat /\ Arity' = Arity
      /\ UNCHANGED <<proto, args, arguments>>
  BY DEF ConvertPointer, IInv, Arrays, Arity
<1>2. PICK v \in Stored(args[i], proto[i]) :
        pointer_list' = [pointer_list EXCEPT ![pl'] = [m |-> "p", v |-> v]]
  BY DEF ConvertPointer
<1>3. pl \in Nat /\ pl <= i - 1 /\ pl' \in 1..Arity
  <2>1. pl \in Nat /\ pl <= i - 1
    BY DEF IInv, Slots
  <2> QED BY <1>1, <2>1
<1>4. /\ pointer_list'[pl'] = [m |-> "p", v |-> v]
      /\ \A s \in 1..pl : pointer_list'[s] = pointer_list[s]
      /\ pointer_list' = [k \in 1..Arity |-> pointer_list'[k]]
  <2>1. pointer_list = [k \in 1..Arity |-> pointer_list[k]]
    BY DEF IInv, Arrays
  <2>2. \A s \in 1..pl : s \in 1..Arity /\ s # pl'
    BY <1>1, <1>3
  <2>3. pointer_list' = [k \in 1..Arity |->
                           IF k = pl' THEN [m |-> "p", v |-> v] ELSE pointer_list[k]]
    BY <1>2, <2>1, Zenon
  <2> QED BY <1>3, <2>2, <2>3
<1>5. /\ ptrs'[i] = <<"pointer_list", pl'>>
      /\ \A k \in 1..Arity : k # i => ptrs'[k] = ptrs[k]
      /\ ptrs' = [k \in 1..Arity |-> ptrs'[k]]
  BY <1>1 DEF ConvertPointer, IInv, Arrays
<1>6. Arrays'
  BY <1>1, <1>4, <1>5 DEF IInv, Arrays
<1>7. Slots'
  <2>1. pl' \in Nat /\ pl' <= i' - 1
    BY <1>1, <1>3
  <2>2. ASSUME NEW k \in 1..Arity
        PROVE  IF k < i' /\ proto[k] = "pointer"
               THEN \E s \in 1..pl' : ptrs'[k] = <<"pointer_list", s>>
               ELSE ptrs'[k] = <<"arguments", k>>
    <3>1. CASE k = i
      BY <1>1, <1>3, <1>5, <3>1
    <3>2. CASE k # i
      <4>1. k < i' <=> k < i
        BY <1>1, <3>2
      <4>2. 1..pl \subseteq 1..pl'
        BY <1>1, <1>3
      <4> QED BY <1>5, <3>2, <4>1, <4>2 DEF IInv, Slots
    <3> QED BY <3>1, <3>2
  <2> QED BY <1>1, <2>1, <2>2 DEF Slots
<1>8. ParametersPassed'
  <2> SUFFICES ASSUME NEW k \in 1..i
               PROVE  /\ Deref(ptrs[k])'.m = Member(proto[k])
                      /\ Deref(ptrs[k])'.v \in Stored(args[k], proto[k])
    BY <1>1 DEF ParametersPassed
  <2>1. k \in 1..Arity
    BY <1>1
  <2>2. CASE k = i
    <3>1. Deref(ptrs[k])' = pointer_list'[pl']
      BY <1>5, <2>2 DEF Deref
    <3> QED BY <1>1, <1>4, <2>2, <3>1 DEF Member
  <2>3. CASE k # i
    <3>1. k \in 1..(i - 1) /\ ptrs'[k] = ptrs[k]
      BY <1>1, <1>5, <2>1, <2>3
    <3>2. Deref(ptrs[k]).m = Member(proto[k]) /\ Deref(ptrs[k]).v \in Stored(args[k], proto[k])
      BY <3>1 DEF IInv, ParametersPassed
    <3>3. ptrs[k] = <<"arguments", k>> \/ \E s \in 1..pl : ptrs[k] = <<"pointer_list", s>>
      BY <2>1 DEF IInv, Slots
    <3>4. Deref(ptrs[k])' = Deref(ptrs[k])
      BY <1>1, <1>4, <3>1, <3>3 DEF Deref
    <3> QED BY <3>2, <3>4
  <2> QED BY <2>2, <2>3
<1> QED BY <1>6, <1>7, <1>8 DEF IInv

\* The other steps do not touch the parameters.
LEMMA OtherSteps ==
  ASSUME IInv, UNCHANGED <<proto, args, i, pl, arguments, pointer_list, ptrs>>
  PROVE  IInv'
BY DEF IInv, Arrays, Slots, ParametersPassed, Arity, Deref

LEMMA SpecIInv == Spec => []IInv
<1>1. IInv /\ [Next]_vars => IInv'
  <2> SUFFICES ASSUME IInv, [Next]_vars PROVE IInv'
    OBVIOUS
  <2>1. CASE ConvertScalar
    BY <2>1, ScalarStep
  <2>2. CASE ConvertPointer
    BY <2>2, PointerStep
  <2>3. CASE FfiCall
    <3>1. UNCHANGED <<proto, args, i, pl, arguments, pointer_list, ptrs>>
      BY <2>3 DEF FfiCall
    <3> QED BY <3>1, OtherSteps
  <2>4. CASE ConvertResult \/ UNCHANGED vars
    <3>1. UNCHANGED <<proto, args, i, pl, arguments, pointer_list, ptrs>>
      BY <2>4 DEF ConvertResult, vars
    <3> QED BY <3>1, OtherSteps
  <2> QED BY <2>1, <2>2, <2>3, <2>4 DEF Next, Done
<1> QED BY <1>1, InitIInv, PTL DEF Spec

\* After the call all parameters were converted; arguments have their types.
Passed ==
  /\ pc # "convert" => i > Arity
  /\ \A k \in 1..Arity : args[k] \in TypedArgument

LEMMA Word2 ==
  /\ Word \in Nat /\ Word % 2 = 0 /\ (Word \div 2) \in Nat /\ Word = 2 * (Word \div 2)
  /\ 1 <= Word \div 2 /\ UInt \in Nat /\ 1 <= UInt
BY CallAssumption

LEMMA ArgumentType ==
  ASSUME NEW a \in TypedArgument
  PROVE  /\ a.v \in Int
         /\ a.type = "INTEGRAL" => a.v \in -(Word \div 2)..(Word \div 2 - 1)
<1>1. \/ a.type = "INTEGRAL" /\ a.v \in Integrals
      \/ a.type = "FLOAT" /\ a.v \in Halves
  BY DEF TypedArgument
<1>2. Integrals \subseteq -(Word \div 2)..(Word \div 2 - 1) /\ Halves \subseteq Int
  BY CallAssumption
<1>3. -(Word \div 2)..(Word \div 2 - 1) \subseteq Int
  OBVIOUS
<1> QED BY <1>1, <1>2, <1>3

\* What is stored of a number that is not negative has, as an unsigned int, at most
\* that number: also where the conversion to a word is out of range.
LEMMA StoredSize ==
  ASSUME NEW a \in TypedArgument, a.v >= 0, NEW v \in Stored(a, "size_t")
  PROVE  LET given == IF a.type = "INTEGRAL" THEN a.v ELSE a.v \div 2
         IN  v \in Int /\ v % UInt <= given /\ (given < UInt => v % UInt = given)
<1>1. /\ Word \in Nat /\ UInt \in Nat /\ 1 <= UInt /\ UInt <= Word \div 2 /\ a.v \in Int
      /\ a.type \in {"INTEGRAL", "FLOAT"}
  <2>2. a.v \in Int /\ a.type \in {"INTEGRAL", "FLOAT"}
    BY ArgumentType DEF TypedArgument
  <2>3. Word \in Nat /\ UInt \in 1..(Word \div 2)
    BY CallAssumption
  <2>4. UInt \in Nat /\ 1 <= UInt /\ UInt <= Word \div 2
    BY <2>3
  <2> QED BY <2>2, <2>3, <2>4
<1>2. v \in IF a.type = "INTEGRAL" THEN {a.v} ELSE Truncated(a.v)
  BY DEF Stored
<1>3. CASE a.type = "INTEGRAL"
  BY <1>1, <1>2, <1>3
<1>4. CASE a.type = "FLOAT"
  <2> DEFINE h == a.v \div 2
             half == Word \div 2
  <2>1. h \in Nat /\ half \in Nat /\ UInt <= half
    BY <1>1
  <2>2. v \in IF h \in -half..(half - 1) THEN {h} ELSE {-half, half - 1}
    BY <1>1, <1>2, <1>4 DEF Truncated
  <2>3. v = h \/ (v \in Int /\ half <= h)
    BY <2>1, <2>2
  <2>4. v \in Int /\ v % UInt \in 0..(UInt - 1)
    BY <1>1, <2>1, <2>3
  <2>5. v % UInt <= h /\ (h < UInt => v % UInt = h)
    BY <1>1, <2>1, <2>3, <2>4
  <2> QED BY <1>4, <2>4, <2>5
<1> QED BY <1>1, <1>3, <1>4

LEMMA CallSize ==
  ASSUME IInv, Passed, FfiCall
  PROVE  SizeNotLarger'
<1>1. PICK upper \in Garbage :
        received' = [k \in 1..Arity |->
                       Narrowed(proto[k], Deref(ptrs[k]).v)
                         + IF proto[k] = "size_t" /\ ~InRegister(k) THEN UInt * upper ELSE 0]
  BY DEF FfiCall
<1>2. UNCHANGED <<proto, args>> /\ Arity' = Arity /\ Arity \in Nat
  BY DEF FfiCall, IInv, Arrays, Arity
<1> SUFFICES ASSUME NEW k \in 1..Arity, proto[k] = "size_t", InRegister(k), args[k].v >= 0
             PROVE  LET given == IF args[k].type = "INTEGRAL" THEN args[k].v ELSE args[k].v \div 2
                    IN  received'[k] <= given /\ (given < UInt => received'[k] = given)
  BY <1>2 DEF SizeNotLarger, InRegister
<1>3. k \in 1..(i - 1)
  BY <1>2 DEF FfiCall, IInv, Arrays
<1>4. Deref(ptrs[k]).v \in Stored(args[k], "size_t")
  BY <1>3 DEF IInv, ParametersPassed
<1>5. args[k] \in TypedArgument
  BY DEF Passed
<1>6. UInt \in Nat /\ UInt >= 1
  BY CallAssumption
<1>7. Deref(ptrs[k]).v \in Int
  BY <1>4, <1>5, StoredSize
<1>8. received'[k] = Deref(ptrs[k]).v % UInt
  BY <1>1, <1>6, <1>7 DEF Narrowed
<1> QED BY <1>4, <1>5, <1>8, StoredSize

\* No size that the script gives is larger where the C function has it in a
\* register, for every width of a word and an int, any prototype and arguments.
THEOREM SizesNotLarger == Spec => []SizeNotLarger
<1>1. Init => Passed /\ SizeNotLarger
  <2> SUFFICES ASSUME Init PROVE Passed /\ SizeNotLarger
    OBVIOUS
  <2>1. PICK n \in 0..MaxArity : proto \in [1..n -> Types] /\ args \in [1..n -> TypedArgument]
    BY DEF Init
  <2>2. n \in Nat /\ proto \in Seq(Types)
    BY <2>1, CallAssumption, SeqDef
  <2>3. Arity = n
    BY <2>1, <2>2, LenProperties DEF Arity
  <2>4. pc = "convert"
    BY DEF Init
  <2> QED BY <2>1, <2>3, <2>4 DEF Passed, SizeNotLarger
<1>2. IInv /\ Passed /\ SizeNotLarger /\ [Next]_vars => (Passed /\ SizeNotLarger)'
  <2> SUFFICES ASSUME IInv, Passed, SizeNotLarger, [Next]_vars
               PROVE  (Passed /\ SizeNotLarger)'
    OBVIOUS
  <2>1. CASE ConvertScalar \/ ConvertPointer
    <3>1. pc = "convert" /\ UNCHANGED <<pc, proto, args>>
      BY <2>1 DEF ConvertScalar, ConvertPointer
    <3> QED BY <3>1 DEF Passed, SizeNotLarger, Arity
  <2>2. CASE FfiCall
    <3>1. i > Arity /\ UNCHANGED <<proto, args, i>>
      BY <2>2 DEF FfiCall
    <3> QED BY <2>2, <3>1, CallSize DEF Passed, Arity
  <2>3. CASE ConvertResult
    <3>1. pc = "result" /\ UNCHANGED <<proto, args, i, received>>
      BY <2>3 DEF ConvertResult
    <3> QED BY <3>1 DEF Passed, SizeNotLarger, Arity, InRegister
  <2>4. CASE UNCHANGED vars
    BY <2>4 DEF vars, Passed, SizeNotLarger, Arity, InRegister
  <2> QED BY <2>1, <2>2, <2>3, <2>4 DEF Next, Done
<1> QED BY <1>1, <1>2, SpecIInv, PTL DEF Spec

\* Whatever the prototype and the arguments, libffi reads each parameter that has
\* been converted from the right member of a cell that is its own.
THEOREM AllParametersPassed == Spec => []ParametersPassed
<1>1. IInv => ParametersPassed
  BY DEF IInv
<1> QED BY <1>1, SpecIInv, PTL

\* The loop stays within the three arrays, which have nargs cells each.
THEOREM PointerCellsSuffice == Spec => [](pl <= Arity)
<1>1. IInv => pl <= Arity
  BY DEF IInv, Arrays, Slots
<1> QED BY <1>1, SpecIInv, PTL

-----------------------------------------------------------------------------
(* Rounding *)

\* The one and the two, of which the doubled value of an integer is a multiple.
LEMMA SmallUnits == 1 \in Units /\ 2 \in Units /\ Units \subseteq Nat \ {0}
<1>1. Word \in Nat /\ 2 <= Word
  BY CallAssumption
<1>2. 1 \in Units
  BY <1>1 DEF Units
<1>3. 2 \in Units
  BY <1>1 DEF Units
<1> QED BY <1>2, <1>3 DEF Units

LEMMA NearestExact ==
  ASSUME NEW v \in Int
  PROVE  Nearest(2 * v, 1) = 2 * v /\ Nearest(2 * v, 2) = 2 * v
<1>1. (2 * v) \div 1 = 2 * v /\ (2 * v) % 1 = 0
  OBVIOUS
<1>2. (2 * v) \div 2 = v /\ (2 * v) % 2 = 0
  OBVIOUS
<1> QED BY <1>1, <1>2 DEF Nearest

\* An integer in the range of the type is not changed by rounding.
LEMMA RoundedExact ==
  ASSUME NEW v \in Int, NEW range \in Nat, Abs(v) <= range
  PROVE  Rounded(2 * v, range) = 2 * v
<1> DEFINE P(q) == /\ Abs(2 * v) <= range * q
                   /\ \A p \in Units : p < q => Abs(2 * v) > range * p
           unit == CHOOSE q \in Units : P(q)
<1>1. Abs(2 * v) \in Nat /\ Abs(2 * v) <= range * 2
  BY DEF Abs
<1>2. \E q \in {1, 2} : P(q)
  <2>1. CASE Abs(2 * v) <= range * 1
    <3>1. \A p \in Units : ~(p < 1)
      BY SmallUnits
    <3> QED BY <2>1, <3>1
  <2>2. CASE ~(Abs(2 * v) <= range * 1)
    <3>1. \A p \in Units : p < 2 => p = 1
      BY SmallUnits
    <3>2. Abs(2 * v) > range * 1
      BY <1>1, <2>2
    <3> QED BY <1>1, <3>1, <3>2
  <2> QED BY <2>1, <2>2
<1>3. unit \in Units /\ P(unit)
  BY <1>2, SmallUnits
<1>4. unit \in {1, 2}
  <2>1. unit \in Nat \ {0}
    BY <1>3, SmallUnits
  <2>2. ~(2 < unit)
    <3>1. 2 < unit => Abs(2 * v) > range * 2
      BY <1>3, SmallUnits
    <3> QED BY <1>1, <3>1
  <2> QED BY <2>1, <2>2
<1>5. Rounded(2 * v, range) = Nearest(2 * v, unit)
  BY DEF Rounded
<1> HIDE DEF unit
<1> QED BY <1>4, <1>5, NearestExact

\* A pointer is the word of its signed value.
LEMMA SignedWord ==
  /\ \A p \in 0..(Word - 1) : /\ Signed(p) \in -(Word \div 2)..(Word \div 2 - 1)
                              /\ Signed(p) % Word = p
  /\ \A v \in -(Word \div 2)..(Word \div 2 - 1) : /\ v % Word \in 0..(Word - 1)
                                                  /\ Signed(v % Word) = v
<1>1. ASSUME NEW p \in 0..(Word - 1)
      PROVE  /\ Signed(p) \in -(Word \div 2)..(Word \div 2 - 1)
             /\ Signed(p) % Word = p
  <2>1. CASE p < Word \div 2
    <3>1. p % Word = p
      BY Word2
    <3> QED BY <2>1, <3>1, Word2 DEF Signed
  <2>2. CASE ~(p < Word \div 2)
    <3>1. (p - Word) % Word = p
      BY Word2
    <3> QED BY <2>2, <3>1, Word2 DEF Signed
  <2> QED BY <2>1, <2>2
<1>2. ASSUME NEW v \in -(Word \div 2)..(Word \div 2 - 1)
      PROVE  v % Word \in 0..(Word - 1) /\ Signed(v % Word) = v
  <2>1. CASE 0 <= v
    <3>1. v % Word = v
      BY <2>1, Word2
    <3> QED BY <2>1, <3>1, Word2 DEF Signed
  <2>2. CASE v < 0
    <3>1. v % Word = v + Word
      BY <2>2, Word2
    <3> QED BY <2>2, <3>1, Word2 DEF Signed
  <2> QED BY <2>1, <2>2
<1> QED BY <1>1, <1>2

LEMMA NarrowSize ==
  ASSUME NEW v \in 0..(UInt - 1), NEW k \in Nat
  PROVE  (v + UInt * k) % UInt = v
<1>1. UInt \in Nat /\ 1 <= UInt
  BY Word2
<1>2. UInt * k \in Int
  BY <1>1
<1> QED BY <1>1, <1>2

-----------------------------------------------------------------------------
(* The way of a value through the call and back *)

\* What the result cell holds of an integer v that is echoed as a type.
EchoValue(t, v) ==
  CASE t \in {"double", "longdouble"} -> 2 * v
    [] t = "pointer" -> v % Word
    [] OTHER -> v

Fits(a, t) == a.type = "INTEGRAL" /\ Abs(a.v) <= DoubleRange /\ Holds(t, a.v)

\* What is in the result cell once the function has returned, and what the script
\* gets of it.
ResultInv ==
  pc # "convert" =>
    /\ rtype = "pointer" => rc.v \in 0..(Word - 1)
    /\ Arity > 0 /\ rtype = proto[1] /\ rtype # "float" /\ Fits(args[1], rtype)
         => rc.v = EchoValue(rtype, args[1].v)
    /\ pc = "done" => r = Result(rtype, rc)

LEMMA StoredEcho ==
  ASSUME NEW t \in Types \ {"float"}, NEW a \in TypedArgument, Fits(a, t), NEW v \in Stored(a, t)
  PROVE  v = EchoValue(t, a.v)
<1>1. a.type = "INTEGRAL" /\ a.v \in Int /\ Abs(a.v) <= DoubleRange /\ DoubleRange \in Nat
  BY ArgumentType, CallAssumption DEF Fits
<1>2. CASE t = "double"
  <2>1. v = Rounded(2 * a.v, DoubleRange)
    BY <1>1, <1>2 DEF Stored
  <2> QED BY <1>1, <1>2, <2>1, RoundedExact DEF EchoValue
<1>3. CASE t = "longdouble"
  BY <1>1, <1>3 DEF Stored, EchoValue
<1>4. CASE t = "pointer"
  BY <1>1, <1>4 DEF Stored, EchoValue
<1>5. CASE t \in {"integral", "int", "size_t"}
  BY <1>1, <1>5 DEF Stored, EchoValue
<1> QED BY <1>2, <1>3, <1>4, <1>5 DEF Types

LEMMA StoredPointer ==
  ASSUME NEW a \in TypedArgument, NEW v \in Stored(a, "pointer")
  PROVE  v \in 0..(Word - 1)
<1>1. PICK ll \in (IF a.type = "INTEGRAL" THEN {a.v} ELSE Truncated(a.v)) : v = ll % Word
  BY DEF Stored
<1>2. ll \in Int
  <2>1. a.v \in Int
    BY ArgumentType
  <2>2. Truncated(a.v) \subseteq Int
    BY <2>1, Word2 DEF Truncated
  <2> QED BY <2>1, <2>2
<1> QED BY <1>1, <1>2, Word2

\* An integer that its type holds is what the function returns of it, whatever libffi
\* leaves in the upper half of a size on the stack.
LEMMA NarrowedEcho ==
  ASSUME NEW t \in Types \ {"float"}, NEW v \in Int, Holds(t, v), NEW upper \in {0} \cup Garbage,
         t # "size_t" => upper = 0
  PROVE  LET e == EchoValue(t, v) IN Narrowed(t, Narrowed(t, e) + UInt * upper) = e
<1> DEFINE e == EchoValue(t, v)
<1>1. e \in Int /\ UInt * 0 = 0 /\ upper \in Nat
  <2>1. Garbage \subseteq Nat
    BY CallAssumption
  <2> QED BY <2>1, Word2 DEF EchoValue
<1>2. CASE t = "size_t"
  <2>1. e = v /\ v \in 0..(UInt - 1)
    BY <1>2 DEF EchoValue, Holds
  <2>2. Narrowed(t, e) = v
    <3>1. v % UInt = v
      BY <2>1, Word2
    <3> QED BY <1>2, <2>1, <3>1 DEF Narrowed
  <2>3. (v + UInt * upper) % UInt = v
    BY <1>1, <2>1, NarrowSize
  <2> QED BY <1>2, <2>1, <2>2, <2>3 DEF Narrowed
<1>3. CASE t = "int"
  <2>1. e = v /\ SignedInt(v) = v
    BY <1>3 DEF EchoValue, Holds
  <2>2. upper = 0
    BY <1>3
  <2> HIDE DEF e
  <2>3. Narrowed(t, e) + UInt * upper = v
    <3>1. Narrowed(t, e) = v
      BY <1>3, <2>1 DEF Narrowed
    <3>2. UInt * upper = 0
      BY <1>1, <2>2
    <3> QED BY <3>1, <3>2
  <2>4. Narrowed(t, Narrowed(t, e) + UInt * upper) = e
    BY <1>3, <2>1, <2>3 DEF Narrowed
  <2> QED BY <2>4 DEF e
<1>4. CASE t \notin {"size_t", "int"}
  <2> HIDE DEF e
  <2>1. Narrowed(t, e) + UInt * upper = e
    BY <1>1, <1>4 DEF Narrowed
  <2> QED BY <1>4, <2>1 DEF Narrowed, e
<1> QED BY <1>2, <1>3, <1>4

LEMMA CallResult ==
  ASSUME IInv, Passed, rtype \in Types \cup {"void"}, proto \in [1..Arity -> Types], FfiCall
  PROVE  ResultInv'
<1>1. PICK upper \in Garbage :
        received' = [k \in 1..Arity |->
                       Narrowed(proto[k], Deref(ptrs[k]).v)
                         + IF proto[k] = "size_t" /\ ~InRegister(k) THEN UInt * upper ELSE 0]
  BY DEF FfiCall
<1>2. /\ UNCHANGED <<proto, args, rtype>> /\ Arity' = Arity /\ Arity \in Nat /\ i > Arity
      /\ i \in 1..(Arity + 1) /\ pc' = "result"
  BY DEF FfiCall, IInv, Arrays, Arity
<1>3. ASSUME rtype # "void"
      PROVE  rc'.v \in IF Arity > 0 /\ proto[1] = rtype THEN {Narrowed(rtype, received'[1])}
                       ELSE IF rtype = "pointer" THEN Pointers
                       ELSE {Narrowed(rtype, v) : v \in Integrals}
  BY <1>3 DEF FfiCall
<1>4. ASSUME Arity > 0
      PROVE  /\ 1 \in 1..Arity /\ args[1] \in TypedArgument /\ proto[1] \in Types
             /\ Deref(ptrs[1]).v \in Stored(args[1], proto[1])
  <2>1. 1 \in 1..(i - 1) /\ 1 \in 1..Arity
    BY <1>2, <1>4
  <2> QED BY <2>1 DEF IInv, ParametersPassed, Passed
<1>5. ASSUME rtype = "pointer"
      PROVE  rc'.v \in 0..(Word - 1)
  <2>1. CASE Arity > 0 /\ proto[1] = rtype
    <3>1. Deref(ptrs[1]).v \in 0..(Word - 1)
      BY <1>4, <1>5, <2>1, StoredPointer
    <3>2. received'[1] = Deref(ptrs[1]).v + 0
      BY <1>1, <1>4, <1>5, <2>1 DEF Narrowed
    <3>3. rc'.v = received'[1]
      BY <1>3, <1>5, <2>1 DEF Narrowed
    <3> QED BY <3>1, <3>2, <3>3, Word2
  <2>2. CASE ~(Arity > 0 /\ proto[1] = rtype)
    BY <1>3, <1>5, <2>2, CallAssumption
  <2> QED BY <2>1, <2>2
<1>6. ASSUME Arity > 0, rtype = proto[1], rtype # "float", Fits(args[1], rtype)
      PROVE  rc'.v = EchoValue(rtype, args[1].v)
  <2> DEFINE e == EchoValue(rtype, args[1].v)
             half == IF rtype = "size_t" /\ ~InRegister(1) THEN upper ELSE 0
  <2>1. rtype \in Types \ {"float"} /\ rtype # "void"
    BY <1>4, <1>6 DEF Types
  <2>2. Deref(ptrs[1]).v = e
    BY <1>4, <1>6, <2>1, StoredEcho
  <2>3. received'[1] = Narrowed(rtype, e) + UInt * half
    <3>1. UInt * 0 = 0
      BY Word2
    <3> QED BY <1>1, <1>4, <1>6, <2>2, <3>1
  <2>4. half \in {0} \cup Garbage /\ (rtype # "size_t" => half = 0)
    OBVIOUS
  <2>5. Holds(rtype, args[1].v) /\ args[1].v \in Int
    BY <1>4, <1>6, ArgumentType DEF Fits
  <2> HIDE DEF half
  <2>6. Narrowed(rtype, Narrowed(rtype, e) + UInt * half) = e
    BY <2>1, <2>4, <2>5, NarrowedEcho
  <2> QED BY <1>3, <1>6, <2>1, <2>3, <2>6
<1> QED BY <1>2, <1>5, <1>6 DEF ResultInv

\* An integer that a double and its type hold comes back unchanged from a function
\* that returns its parameter, for every prototype that begins with that type.
LEMMA EchoResult ==
  ASSUME NEW t \in Types \ {"float"}, NEW v \in -(Word \div 2)..(Word \div 2 - 1),
         Abs(v) <= DoubleRange, NEW c, c.v = EchoValue(t, v)
  PROVE  Result(t, c) = 2 * v
<1>1. DoubleRange \in Nat /\ v \in Int
  BY CallAssumption, Word2
<1>2. Rounded(2 * v, DoubleRange) = 2 * v
  BY <1>1, RoundedExact
<1>3. CASE t \in {"double", "longdouble"}
  BY <1>2, <1>3 DEF Result, EchoValue
<1>4. CASE t = "pointer"
  <2>1. Signed(c.v) = v
    BY <1>4, SignedWord DEF EchoValue
  <2> QED BY <1>2, <1>4, <2>1 DEF Result
<1>5. CASE t \in {"integral", "int", "size_t"}
  BY <1>2, <1>5 DEF Result, EchoValue
<1> QED BY <1>3, <1>4, <1>5 DEF Types

LEMMA PointerReturns ==
  ASSUME NEW c, c.v \in 0..(Word - 1), Abs(Signed(c.v)) <= DoubleRange
  PROVE  Stored(NumberArgument(Result("pointer", c)), "pointer") = {c.v}
<1> DEFINE s == Signed(c.v)
<1>1. s \in -(Word \div 2)..(Word \div 2 - 1) /\ s % Word = c.v
  BY SignedWord
<1> HIDE DEF s
<1>2. s \in Int /\ DoubleRange \in Nat
  BY <1>1, CallAssumption, Word2
<1>3. Result("pointer", c) = 2 * s
  <2>1. Rounded(2 * s, DoubleRange) = 2 * s
    BY <1>2, RoundedExact DEF s
  <2> QED BY <2>1 DEF Result, s
<1>4. (2 * s) \div 2 = s /\ (2 * s) % 2 = 0
  BY <1>2
<1>5. CASE SignedInt(s) = s
  BY <1>1, <1>3, <1>4, <1>5 DEF NumberArgument, Stored
<1>6. CASE SignedInt(s) # s
  <2>1. NumberArgument(2 * s) = [type |-> "FLOAT", v |-> 2 * s]
    BY <1>4, <1>6 DEF NumberArgument
  <2>2. Truncated(2 * s) = {s}
    <3>1. (IF 2 * s < 0 THEN -((-(2 * s)) \div 2) ELSE (2 * s) \div 2) = s
      BY <1>2
    <3> QED BY <1>1, <3>1 DEF Truncated
  <2> QED BY <1>1, <1>3, <2>1, <2>2 DEF Stored
<1> QED BY <1>5, <1>6

LEMMA ResultEnough ==
  ASSUME IInv, Passed, ResultInv, proto \in [1..Arity -> Types]
  PROVE  EchoExact /\ PointerRoundTrip
<1>1. EchoExact
  <2> SUFFICES ASSUME pc = "done", Arity > 0, rtype = proto[1], rtype # "float",
                      args[1].type = "INTEGRAL", Abs(args[1].v) <= DoubleRange,
                      Holds(rtype, args[1].v)
               PROVE  r = 2 * args[1].v
    BY DEF EchoExact
  <2>1. 1 \in 1..Arity
    BY DEF IInv, Arrays
  <2>2. rtype \in Types \ {"float"} /\ args[1] \in TypedArgument
    BY <2>1 DEF Passed
  <2>3. args[1].v \in -(Word \div 2)..(Word \div 2 - 1)
    BY <2>2, ArgumentType
  <2>4. rc.v = EchoValue(rtype, args[1].v) /\ r = Result(rtype, rc)
    BY DEF ResultInv, Fits
  <2> QED BY <2>2, <2>3, <2>4, EchoResult
<1>2. PointerRoundTrip
  BY PointerReturns DEF ResultInv, PointerRoundTrip
<1> QED BY <1>1, <1>2

\* The types of the function do not change.
Prototype == proto \in [1..Arity -> Types] /\ rtype \in Types \cup {"void"}

LEMMA SpecResultInv == Spec => [](IInv /\ Passed /\ Prototype /\ ResultInv)
<1>1. Init => Passed /\ Prototype /\ ResultInv
  <2> SUFFICES ASSUME Init PROVE Passed /\ Prototype /\ ResultInv
    OBVIOUS
  <2>1. PICK n \in 0..MaxArity : proto \in [1..n -> Types] /\ args \in [1..n -> TypedArgument]
    BY DEF Init
  <2>2. n \in Nat /\ proto \in Seq(Types)
    BY <2>1, CallAssumption, SeqDef
  <2>3. Arity = n
    BY <2>1, <2>2, LenProperties DEF Arity
  <2>4. pc = "convert" /\ rtype \in Types \cup {"void"}
    BY DEF Init
  <2> QED BY <2>1, <2>3, <2>4 DEF Passed, Prototype, ResultInv
<1>2. IInv /\ Passed /\ Prototype /\ ResultInv /\ [Next]_vars
        => (Passed /\ Prototype /\ ResultInv)'
  <2> SUFFICES ASSUME IInv, Passed, Prototype, ResultInv, [Next]_vars
               PROVE  (Passed /\ Prototype /\ ResultInv)'
    OBVIOUS
  <2>1. CASE ConvertScalar \/ ConvertPointer
    <3>1. pc = "convert" /\ UNCHANGED <<pc, proto, args, rtype>>
      BY <2>1 DEF ConvertScalar, ConvertPointer
    <3> QED BY <3>1 DEF Passed, Prototype, ResultInv, Arity
  <2>2. CASE FfiCall
    <3>1. i > Arity /\ UNCHANGED <<proto, args, i, rtype>>
      BY <2>2 DEF FfiCall
    <3>2. ResultInv'
      BY <2>2, CallResult DEF Prototype
    <3> QED BY <3>1, <3>2 DEF Passed, Prototype, Arity
  <2>3. CASE ConvertResult
    <3>1. /\ pc = "result" /\ pc' = "done" /\ r' = Result(rtype, rc)
          /\ UNCHANGED <<proto, args, i, rtype, rc>>
      BY <2>3 DEF ConvertResult
    <3> QED BY <3>1 DEF Passed, Prototype, ResultInv, Arity
  <2>4. CASE UNCHANGED vars
    BY <2>4 DEF vars, Passed, Prototype, ResultInv, Arity
  <2> QED BY <2>1, <2>2, <2>3, <2>4 DEF Next, Done
<1> QED BY <1>1, <1>2, SpecIInv, PTL DEF Spec

\* An integer in the range of a double and of its type survives the call: converted,
\* passed, returned and converted back, for every width of a word and an int.
THEOREM EchoesExact == Spec => []EchoExact
<1>1. IInv /\ Passed /\ Prototype /\ ResultInv => EchoExact
  BY ResultEnough DEF Prototype
<1> QED BY <1>1, SpecResultInv, PTL

\* A pointer that the script got from a call, and passes on, is the same pointer.
THEOREM PointersReturn == Spec => []PointerRoundTrip
<1>1. IInv /\ Passed /\ Prototype /\ ResultInv => PointerRoundTrip
  BY ResultEnough DEF Prototype
<1> QED BY <1>1, SpecResultInv, PTL
=============================================================================
