------------------------- MODULE FfiRegistryProofs -------------------------
(***************************************************************************)
(* Proofs of the safety properties of FfiRegistry, for all values of the   *)
(* constants.                                                              *)
(***************************************************************************)
EXTENDS FfiRegistry, FiniteSetTheorems, SequenceTheorems, TLAPS

\* What the conversions keep true of a frame: a js_call that still converts its
\* name holds no string; only a js_call enters a native function; the types
\* converted fit params[]; a js_define past its first argument has its name.
FrameOK(f) ==
  /\ f.op = "call" /\ f.pc # "native" => f.pc = "argv0" /\ f.name = NULL /\ f.fl = 0
  /\ f.pc = "native" => f.op = "call" /\ f.node \in Addr
  /\ Len(f.params) <= MAX_PARAMETERS
  /\ f.op = "define" /\ f.pc # "argv0" => f.name # NULL

FramesOK == \A d \in 1..Depth : FrameOK(stack[d])

-----------------------------------------------------------------------------
(* Ownership, sequences and lookups *)

\* What is in Owned(F), and in Own(n, H).
LEMMA OwnedElement ==
  ASSUME NEW F, NEW y
  PROVE  y \in Owned(F) <=> \E x \in DOMAIN F : \E k \in F[x] : y = <<x, k>>
BY DEF Owned, Own

\* A new last owner that has nothing.
LEMMA OwnedPush ==
  ASSUME NEW n \in Nat, NEW F, NEW G, DOMAIN F = 1..n, DOMAIN G = 1..(n + 1),
         \A d \in 1..n : G[d] = F[d], G[n + 1] = {}
  PROVE  Owned(G) = Owned(F)
<1>1. 1..(n + 1) = 1..n \cup {n + 1}
  OBVIOUS
<1>2. \A y : y \in Owned(G) <=> y \in Owned(F)
  BY <1>1, OwnedElement
<1> QED BY <1>2

\* The last owner gets H.
LEMMA OwnedGets ==
  ASSUME NEW n \in Nat \ {0}, NEW F, NEW G, NEW H, DOMAIN F = 1..n, DOMAIN G = 1..n,
         \A d \in 1..(n - 1) : G[d] = F[d], G[n] = F[n] \cup H
  PROVE  Owned(G) = Owned(F) \cup Own(n, H)
<1>1. 1..n = 1..(n - 1) \cup {n}
  OBVIOUS
<1>2. \A y : y \in Own(n, H) <=> \E k \in H : y = <<n, k>>
  BY DEF Own
<1>3. \A y : y \in Owned(G) <=> y \in Owned(F) \/ y \in Own(n, H)
  BY <1>1, <1>2, OwnedElement
<1> QED BY <1>3

\* The last owner goes, and loses R, which is all it has.
LEMMA OwnedPop ==
  ASSUME NEW n \in Nat \ {0}, NEW F, NEW G, NEW R,
         DOMAIN F = 1..n, DOMAIN G = 1..(n - 1),
         \A d \in 1..(n - 1) : G[d] = F[d], F[n] \subseteq R
  PROVE  \A y : y \in Owned(G) <=> y \in Owned(F) /\ y \notin Own(n, R)
<1>1. 1..n = 1..(n - 1) \cup {n} /\ n \notin 1..(n - 1)
  OBVIOUS
<1>2. \A y : y \in Own(n, R) <=> \E k \in R : y = <<n, k>>
  BY DEF Own
<1>3. \A y : y \in Owned(G) <=> \E d \in 1..(n - 1) : \E k \in F[d] : y = <<d, k>>
  BY OwnedElement
<1>4. \A y : y \in Owned(F) <=>
        \/ \E d \in 1..(n - 1) : \E k \in F[d] : y = <<d, k>>
        \/ \E k \in F[n] : y = <<n, k>>
  BY <1>1, OwnedElement
<1>5. \A y : (\E d \in 1..(n - 1) : \E k \in F[d] : y = <<d, k>>) => y \notin Own(n, R)
  BY <1>1, <1>2
<1>6. \A y : (\E k \in F[n] : y = <<n, k>>) => y \in Own(n, R)
  BY <1>2
<1> QED BY <1>3, <1>4, <1>5, <1>6

\* The stack after a handler starts.
LEMMA Pushed ==
  ASSUME NEW S, NEW s \in Seq(S), NEW f \in S
  PROVE  /\ Append(s, f) \in Seq(S)
         /\ Len(Append(s, f)) = Len(s) + 1
         /\ Append(s, f)[Len(s) + 1] = f
         /\ \A d \in 1..Len(s) : Append(s, f)[d] = s[d]
OBVIOUS

\* The stack after the running handler has gone on.
LEMMA Replaced ==
  ASSUME NEW S, NEW s \in Seq(S), s # <<>>, NEW f \in S
  PROVE  /\ [s EXCEPT ![Len(s)] = f] \in Seq(S)
         /\ Len([s EXCEPT ![Len(s)] = f]) = Len(s)
         /\ [s EXCEPT ![Len(s)] = f][Len(s)] = f
         /\ \A d \in 1..(Len(s) - 1) : [s EXCEPT ![Len(s)] = f][d] = s[d]
BY ExceptSeq, EmptySeq, LenProperties

\* The stack after the running handler has returned.
LEMMA Popped ==
  ASSUME NEW S, NEW s \in Seq(S), s # <<>>
  PROVE  /\ SubSeq(s, 1, Len(s) - 1) \in Seq(S)
         /\ Len(SubSeq(s, 1, Len(s) - 1)) = Len(s) - 1
         /\ \A d \in 1..(Len(s) - 1) : SubSeq(s, 1, Len(s) - 1)[d] = s[d]
<1>1. Len(s) \in Nat \ {0} /\ \A i \in 1..Len(s) : s[i] \in S
  BY EmptySeq, LenProperties
<1>2. \A i \in 1..(Len(s) - 1) : s[i] \in S
  BY <1>1
<1>3. \A i \in 1..(Len(s) - 1) : 1 + i - 1 = i
  BY <1>1
<1> DEFINE m == Len(s) - 1
           u == SubSeq(s, 1, m)
<1>4. m \in Nat /\ m - 1 + 1 = m /\ (m >= 1 \/ m = 0)
  BY <1>1, SMTT(30)
<1>5. /\ u \in Seq(S)
      /\ Len(u) = IF 1 <= m THEN m - 1 + 1 ELSE 0
      /\ \A i \in 1..(m - 1 + 1) : u[i] = s[1 + i - 1]
  BY <1>2, <1>4, SubSeqProperties
<1> HIDE DEF m, u
<1>6. Len(u) = m
  BY <1>4, <1>5
<1>7. \A i \in 1..m : u[i] = s[i]
  BY <1>3, <1>4, <1>5 DEF m
<1> QED BY <1>5, <1>6, <1>7 DEF m, u

\* A name that is found is that of a linked node; one that is not has none.
LEMMA Found ==
  ASSUME list \in Seq(Addr), UniqueNames, NULL \notin Addr, NEW n
  PROVE  /\ find_function(n) # NULL =>
              /\ find_function(n) \in Linked
              /\ nodes[find_function(n)].name = n
         /\ find_function(n) = NULL => \A a \in Linked : nodes[a].name # n
         /\ \A a \in Linked : nodes[a].name = n => find_function(n) = a
<1> DEFINE hits == {i \in DOMAIN list : nodes[list[i]].name = n}
<1>1. DOMAIN list \subseteq Nat /\ \A i \in DOMAIN list : list[i] \in Addr
  BY LenProperties
<1>2. \A i \in hits : \A j \in hits : i = j /\ i <= j
  BY <1>1 DEF UniqueNames
<1>3. CASE hits = {}
  BY <1>3 DEF find_function, Linked
<1>4. ASSUME NEW i \in hits PROVE find_function(n) = list[i]
  <2>1. i = CHOOSE k \in hits : \A j \in hits : k <= j
    BY <1>2, <1>4
  <2> QED BY <2>1, <1>4 DEF find_function
<1>5. CASE hits # {}
  <2>1. PICK i \in hits : TRUE
    BY <1>5
  <2>2. find_function(n) = list[i] /\ list[i] \in Addr
    BY <1>1, <1>4, <2>1
  <2> QED BY <2>1, <2>2, <1>2 DEF Linked
<1> QED BY <1>3, <1>5

\* The number of parameters is at most that of the types given.
LEMMA NargsBound ==
  ASSUME NEW S, NEW p \in Seq(S)
  PROVE  Nargs(p) \in Nat /\ Nargs(p) <= Len(p)
<1>1. Len(p) \in Nat
  BY LenProperties
<1>2. IsFiniteSet(1..Len(p)) /\ Cardinality(1..Len(p)) = Len(p)
  BY <1>1, FS_Interval, SMTT(30)
<1> QED BY <1>2, FS_Subset, FS_CardinalityType DEF Nargs

\* A complete prototype makes a binding that js_call's array is long enough for.
LEMMA BindingType ==
  ASSUME NEW f \in Frame, KnownPrototype(f)
  PROVE  /\ NewBinding(f) \in Binding
         /\ Len(NewBinding(f).args) = Nargs(f.params)
<1>1. Nargs(f.params) \in Nat
  BY NargsBound DEF Frame
<1>2. \A t : find_ffi_type(t) # NULL => find_ffi_type(t) \in FfiTypes
  BY DEF find_ffi_type, FfiTypes
<1>3. ParamTypes(f) \in [1..Nargs(f.params) -> FfiTypes]
  BY <1>2 DEF ParamTypes, KnownPrototype
<1>4. ParamTypes(f) \in Seq(FfiTypes) /\ Len(ParamTypes(f)) = Nargs(f.params)
  BY <1>1, <1>3, SeqDef, LenProperties
<1>5. find_abi(f.abi) \in AbiNames \cup {DefaultAbi}
  BY RegistryAssumption DEF find_abi
<1>6. (IF f.fp = NULL THEN Dummy ELSE f.fp) \in Fps \cup {Dummy}
  BY DEF Frame
<1>7. find_ffi_type(f.rtype) \in FfiTypes
  BY <1>2 DEF KnownPrototype
<1> QED BY <1>4, <1>5, <1>6, <1>7 DEF NewBinding, Binding

-----------------------------------------------------------------------------
(* The invariant in two halves: the table, and the handlers in progress *)

TableInv ==
  /\ list \in Seq(Addr)
  /\ DOMAIN nodes \subseteq Addr
  /\ \A a \in DOMAIN nodes : nodes[a] \in Node
  /\ blocks \subseteq Addr \X {"function_s", "name", "args"}
  /\ UniqueNames
  /\ Ledger
  /\ ArgsInBounds

StackInv ==
  /\ stack \in Seq(Frame)
  /\ cstrs \subseteq Nat \X Nat
  /\ temps \subseteq Nat \X Arrays
  /\ FramesOK
  /\ NativeNodeLive
  /\ CStringsExact
  /\ TempsExact

\* The table only grows.
Grows == Linked \subseteq Linked' /\ \A a \in Linked : nodes'[a] = nodes[a]

\* The same invariants with functions: what each handler in progress owns.
StringsOf(st) == [d \in 1..Len(st) |-> Slots(st[d])]
ArraysOf(st, nd) ==
  [d \in 1..Len(st) |->
     IF st[d].pc = "native" /\ nd[st[d].node].b.args # <<>> THEN Arrays ELSE {}]

LEMMA Owners ==
  /\ CStringsExact <=> cstrs = Owned(StringsOf(stack))
  /\ TempsExact <=> temps = Owned(ArraysOf(stack, nodes))
  /\ CStringsExact' <=> cstrs' = Owned(StringsOf(stack'))
  /\ TempsExact' <=> temps' = Owned(ArraysOf(stack', nodes'))
<1>1. \A d : FrameArrays(stack[d]) =
               IF stack[d].pc = "native" /\ nodes[stack[d].node].b.args # <<>>
               THEN Arrays ELSE {}
  BY DEF FrameArrays, Needed
<1>2. \A d : FrameArrays(stack[d])' =
               IF stack'[d].pc = "native" /\ nodes'[stack'[d].node].b.args # <<>>
               THEN Arrays ELSE {}
  BY DEF FrameArrays, Needed
<1>3. [d \in 1..Depth |-> FrameArrays(stack[d])] = ArraysOf(stack, nodes)
  BY <1>1 DEF ArraysOf, Depth
<1>4. [d \in 1..Depth |-> FrameArrays(stack[d])]' = ArraysOf(stack', nodes')
  BY <1>2 DEF ArraysOf, Depth
<1> QED BY <1>3, <1>4 DEF CStringsExact, TempsExact, StringsOf, Depth

LEMMA StringsAt ==
  ASSUME NEW st, Len(st) \in Nat
  PROVE  /\ DOMAIN StringsOf(st) = 1..Len(st)
         /\ \A d \in 1..Len(st) : StringsOf(st)[d] = Slots(st[d])
BY DEF StringsOf

LEMMA ArraysAt ==
  ASSUME NEW st, NEW nd, Len(st) \in Nat
  PROVE  /\ DOMAIN ArraysOf(st, nd) = 1..Len(st)
         /\ \A d \in 1..Len(st) :
              ArraysOf(st, nd)[d] =
                IF st[d].pc = "native" /\ nd[st[d].node].b.args # <<>> THEN Arrays ELSE {}
BY DEF ArraysOf

\* A frame that is left owns what it owned, after the table has grown.
LEMMA SameOwners ==
  ASSUME StackInv, Grows, Len(stack') \in Nat, NEW d \in 1..Depth,
         d <= Len(stack'), stack'[d] = stack[d]
  PROVE  /\ StringsOf(stack')[d] = StringsOf(stack)[d]
         /\ ArraysOf(stack', nodes')[d] = ArraysOf(stack, nodes)[d]
         /\ stack[d].pc = "native" =>
              stack[d].node \in Linked' /\ nodes'[stack[d].node].name = stack[d].name
<1>1. Len(stack) \in Nat /\ d \in 1..Len(stack) /\ d \in 1..Len(stack')
  BY LenProperties DEF StackInv, Depth
<1>2. stack[d].pc = "native" =>
        /\ stack[d].node \in Linked
        /\ nodes[stack[d].node].name = stack[d].name
  BY DEF StackInv, NativeNodeLive, Natives
<1>3. stack[d].pc = "native" => nodes'[stack[d].node] = nodes[stack[d].node]
  BY <1>2 DEF Grows
<1>4. StringsOf(stack')[d] = Slots(stack[d]) /\ StringsOf(stack)[d] = Slots(stack[d])
  BY <1>1, StringsAt, ArraysAt
<1>5. ArraysOf(stack', nodes')[d] = ArraysOf(stack, nodes)[d]
  <2>1. ArraysOf(stack', nodes')[d] =
          IF stack[d].pc = "native" /\ nodes'[stack[d].node].b.args # <<>>
          THEN Arrays ELSE {}
    BY <1>1, ArraysAt
  <2>2. ArraysOf(stack, nodes)[d] =
          IF stack[d].pc = "native" /\ nodes[stack[d].node].b.args # <<>>
          THEN Arrays ELSE {}
    BY <1>1, ArraysAt
  <2> QED BY <1>3, <2>1, <2>2
<1>6. stack[d].pc = "native" =>
        stack[d].node \in Linked' /\ nodes'[stack[d].node].name = stack[d].name
  BY <1>2, <1>3 DEF Grows
<1> QED BY <1>4, <1>5, <1>6

\* A handler starts, with the frame f.
Starts(f) ==
  /\ f \in Frame /\ FrameOK(f) /\ f.pc # "native" /\ Slots(f) = {}
  /\ stack' = Append(stack, f) /\ cstrs' = cstrs /\ temps' = temps

LEMMA StartKeeps ==
  ASSUME StackInv, Grows, NEW f, Starts(f)
  PROVE  StackInv'
<1>1. /\ stack' \in Seq(Frame) /\ Depth' = Depth + 1 /\ Depth \in Nat
      /\ Len(stack) = Depth /\ Len(stack') = Depth + 1
      /\ stack'[Depth + 1] = f /\ \A d \in 1..Depth : stack'[d] = stack[d]
  BY Pushed, LenProperties DEF StackInv, Depth, Starts
<1>2. \A d \in 1..Depth' : d \in 1..Depth \/ d = Depth + 1
  BY <1>1
<1>3. FrameOK(f) /\ f.pc # "native" /\ Slots(f) = {} /\ cstrs' = cstrs /\ temps' = temps
  BY DEF Starts
<1>4. FramesOK'
  <2>1. \A d \in 1..Depth' : FrameOK(stack'[d])
    BY <1>1, <1>2, <1>3 DEF StackInv, FramesOK
  <2> QED BY <2>1 DEF FramesOK
<1>5. /\ DOMAIN StringsOf(stack) = 1..Depth /\ DOMAIN StringsOf(stack') = 1..(Depth + 1)
      /\ DOMAIN ArraysOf(stack, nodes) = 1..Depth
      /\ DOMAIN ArraysOf(stack', nodes') = 1..(Depth + 1)
      /\ StringsOf(stack')[Depth + 1] = {}
      /\ ArraysOf(stack', nodes')[Depth + 1] = {}
  BY <1>1, <1>3, StringsAt, ArraysAt
<1>6. \A d \in 1..Depth :
        /\ StringsOf(stack')[d] = StringsOf(stack)[d]
        /\ ArraysOf(stack', nodes')[d] = ArraysOf(stack, nodes)[d]
        /\ stack[d].pc = "native" =>
             stack[d].node \in Linked' /\ nodes'[stack[d].node].name = stack[d].name
  BY <1>1, SameOwners
<1>7. NativeNodeLive'
  <2>1. \A d \in 1..Depth' : stack'[d].pc = "native" =>
          stack'[d].node \in Linked' /\ nodes'[stack'[d].node].name = stack'[d].name
    BY <1>1, <1>2, <1>3, <1>6
  <2> QED BY <2>1 DEF NativeNodeLive, Natives
<1>8. CStringsExact'
  <2>1. Owned(StringsOf(stack')) = Owned(StringsOf(stack))
    BY <1>1, <1>5, <1>6, OwnedPush
  <2> QED BY <1>3, <2>1, Owners DEF StackInv
<1>9. TempsExact'
  <2>1. Owned(ArraysOf(stack', nodes')) = Owned(ArraysOf(stack, nodes))
    BY <1>1, <1>5, <1>6, OwnedPush
  <2> QED BY <1>3, <2>1, Owners DEF StackInv
<1> QED BY <1>1, <1>3, <1>4, <1>7, <1>8, <1>9 DEF StackInv

\* The running handler goes on with the frame f, and gets the C strings H and,
\* if it enters a native function, the arrays T.
GoesOn(f, H, T) ==
  /\ stack # <<>> /\ f \in Frame /\ FrameOK(f) /\ Top.pc # "native"
  /\ H \in SUBSET Nat /\ Slots(f) = Slots(Top) \cup H
  /\ f.pc = "native" => f.node \in Linked' /\ nodes'[f.node].name = f.name
  /\ T = IF f.pc = "native" /\ nodes'[f.node].b.args # <<>> THEN Arrays ELSE {}
  /\ stack' = [stack EXCEPT ![Depth] = f]
  /\ cstrs' = cstrs \cup Own(Depth, H)
  /\ temps' = temps \cup Own(Depth, T)

LEMMA GoesOnKeeps ==
  ASSUME StackInv, Grows, NEW f, NEW H, NEW T, GoesOn(f, H, T)
  PROVE  StackInv'
<1>1. /\ stack' \in Seq(Frame) /\ Depth' = Depth /\ Depth \in Nat \ {0}
      /\ Len(stack) = Depth /\ Len(stack') = Depth /\ stack[Depth] = Top
      /\ stack'[Depth] = f /\ \A d \in 1..(Depth - 1) : stack'[d] = stack[d]
  BY Replaced, EmptySeq DEF StackInv, Depth, Top, GoesOn
<1>2. \A d \in 1..Depth' : d \in 1..(Depth - 1) \/ d = Depth
  BY <1>1
<1>3. /\ FrameOK(f) /\ Top.pc # "native" /\ H \in SUBSET Nat /\ Slots(f) = Slots(Top) \cup H
      /\ f.pc = "native" => f.node \in Linked' /\ nodes'[f.node].name = f.name
      /\ T = IF f.pc = "native" /\ nodes'[f.node].b.args # <<>> THEN Arrays ELSE {}
      /\ cstrs' = cstrs \cup Own(Depth, H) /\ temps' = temps \cup Own(Depth, T)
  BY DEF GoesOn
<1>4. FramesOK'
  <2>1. \A d \in 1..Depth' : FrameOK(stack'[d])
    BY <1>1, <1>2, <1>3 DEF StackInv, FramesOK
  <2> QED BY <2>1 DEF FramesOK
<1>5. /\ DOMAIN StringsOf(stack) = 1..Depth /\ DOMAIN StringsOf(stack') = 1..Depth
      /\ DOMAIN ArraysOf(stack, nodes) = 1..Depth
      /\ DOMAIN ArraysOf(stack', nodes') = 1..Depth
      /\ StringsOf(stack')[Depth] = StringsOf(stack)[Depth] \cup H
      /\ ArraysOf(stack', nodes')[Depth] = ArraysOf(stack, nodes)[Depth] \cup T
  <2>1. Depth \in 1..Depth /\ Len(stack) \in Nat /\ Len(stack') \in Nat
    BY <1>1
  <2>2. ArraysOf(stack, nodes)[Depth] = {} /\ ArraysOf(stack', nodes')[Depth] = T
    BY <1>1, <1>3, <2>1, StringsAt, ArraysAt
  <2> QED BY <1>1, <1>3, <2>1, <2>2, StringsAt, ArraysAt
<1>6. \A d \in 1..(Depth - 1) :
        /\ StringsOf(stack')[d] = StringsOf(stack)[d]
        /\ ArraysOf(stack', nodes')[d] = ArraysOf(stack, nodes)[d]
        /\ stack[d].pc = "native" =>
             stack[d].node \in Linked' /\ nodes'[stack[d].node].name = stack[d].name
  BY <1>1, SameOwners
<1>7. NativeNodeLive'
  <2>1. \A d \in 1..Depth' : stack'[d].pc = "native" =>
          stack'[d].node \in Linked' /\ nodes'[stack'[d].node].name = stack'[d].name
    BY <1>1, <1>2, <1>3, <1>6
  <2> QED BY <2>1 DEF NativeNodeLive, Natives
<1>8. CStringsExact'
  <2>1. Owned(StringsOf(stack')) = Owned(StringsOf(stack)) \cup Own(Depth, H)
    BY <1>1, <1>5, <1>6, OwnedGets
  <2> QED BY <1>3, <2>1, Owners DEF StackInv
<1>9. TempsExact'
  <2>1. Owned(ArraysOf(stack', nodes')) = Owned(ArraysOf(stack, nodes)) \cup Own(Depth, T)
    BY <1>1, <1>5, <1>6, OwnedGets
  <2> QED BY <1>3, <2>1, Owners DEF StackInv
<1>10. cstrs' \subseteq Nat \X Nat /\ temps' \subseteq Nat \X Arrays
  BY <1>1, <1>3 DEF StackInv, Own
<1> QED BY <1>1, <1>4, <1>7, <1>8, <1>9, <1>10 DEF StackInv

\* The running handler returns: it frees the C strings R, which are all it had,
\* those (H) it took in its last step included, and the arrays A, all it had.
Returns(H, R, A) ==
  /\ stack # <<>> /\ H \in SUBSET Nat /\ Slots(Top) \cup H \subseteq R
  /\ Top.pc = "native" => A = Arrays
  /\ stack' = Pop
  /\ cstrs' = (cstrs \cup Own(Depth, H)) \ Own(Depth, R)
  /\ temps' = temps \ Own(Depth, A)

LEMMA ReturnKeeps ==
  ASSUME StackInv, Grows, NEW H, NEW R, NEW A, Returns(H, R, A)
  PROVE  StackInv'
<1>1. /\ stack' \in Seq(Frame) /\ Depth' = Depth - 1 /\ Depth \in Nat \ {0}
      /\ Len(stack) = Depth /\ Len(stack') = Depth - 1 /\ stack[Depth] = Top
      /\ \A d \in 1..(Depth - 1) : stack'[d] = stack[d]
  BY Popped, EmptySeq DEF StackInv, Depth, Top, Pop, Returns
<1>2. \A d \in 1..Depth' : d \in 1..(Depth - 1) /\ d \in 1..Depth
  BY <1>1
<1>3. /\ H \in SUBSET Nat /\ Slots(Top) \cup H \subseteq R
      /\ Top.pc = "native" => A = Arrays
      /\ cstrs' = (cstrs \cup Own(Depth, H)) \ Own(Depth, R)
      /\ temps' = temps \ Own(Depth, A)
  BY DEF Returns
<1>4. FramesOK'
  <2>1. \A d \in 1..Depth' : FrameOK(stack'[d])
    BY <1>1, <1>2 DEF StackInv, FramesOK
  <2> QED BY <2>1 DEF FramesOK
<1>5. /\ DOMAIN StringsOf(stack) = 1..Depth /\ DOMAIN StringsOf(stack') = 1..(Depth - 1)
      /\ DOMAIN ArraysOf(stack, nodes) = 1..Depth
      /\ DOMAIN ArraysOf(stack', nodes') = 1..(Depth - 1)
      /\ StringsOf(stack)[Depth] \subseteq R /\ H \subseteq R
      /\ ArraysOf(stack, nodes)[Depth] \subseteq A
  <2>1. Depth \in 1..Depth /\ Len(stack) \in Nat /\ Len(stack') \in Nat
    BY <1>1
  <2> QED BY <1>1, <1>3, <2>1, StringsAt, ArraysAt
<1>6. \A d \in 1..(Depth - 1) :
        /\ StringsOf(stack')[d] = StringsOf(stack)[d]
        /\ ArraysOf(stack', nodes')[d] = ArraysOf(stack, nodes)[d]
        /\ stack[d].pc = "native" =>
             stack[d].node \in Linked' /\ nodes'[stack[d].node].name = stack[d].name
  BY <1>1, SameOwners
<1>7. NativeNodeLive'
  <2>1. \A d \in 1..Depth' : stack'[d].pc = "native" =>
          stack'[d].node \in Linked' /\ nodes'[stack'[d].node].name = stack'[d].name
    BY <1>1, <1>2, <1>6
  <2> QED BY <2>1 DEF NativeNodeLive, Natives
<1>8. CStringsExact'
  <2>1. \A y : y \in Owned(StringsOf(stack')) <=>
                 y \in Owned(StringsOf(stack)) /\ y \notin Own(Depth, R)
    BY <1>1, <1>5, <1>6, OwnedPop, ZenonT(40)
  <2>2. Own(Depth, H) \subseteq Own(Depth, R)
    BY <1>5 DEF Own
  <2> QED BY <1>3, <2>1, <2>2, Owners DEF StackInv
<1>9. TempsExact'
  <2>1. \A y : y \in Owned(ArraysOf(stack', nodes')) <=>
                 y \in Owned(ArraysOf(stack, nodes)) /\ y \notin Own(Depth, A)
    <3> DEFINE F == ArraysOf(stack, nodes)
               G == ArraysOf(stack', nodes')
    <3>1. /\ Depth \in Nat \ {0} /\ DOMAIN F = 1..Depth /\ DOMAIN G = 1..(Depth - 1)
          /\ (\A d \in 1..(Depth - 1) : G[d] = F[d])
          /\ F[Depth] \subseteq A
      BY <1>1, <1>5, <1>6
    <3> HIDE DEF F, G
    <3>2. \A y : y \in Owned(G) <=> y \in Owned(F) /\ y \notin Own(Depth, A)
      BY <3>1, OwnedPop
    <3> QED BY <3>2 DEF F, G
  <2> QED BY <1>3, <2>1, Owners DEF StackInv
<1>10. cstrs' \subseteq Nat \X Nat /\ temps' \subseteq Nat \X Arrays
  BY <1>1, <1>3 DEF StackInv, Own
<1> QED BY <1>1, <1>4, <1>7, <1>8, <1>9, <1>10 DEF StackInv

-----------------------------------------------------------------------------
(* The table *)

LEMMA FoundInTable ==
  TableInv =>
    \A n : /\ find_function(n) # NULL =>
                /\ find_function(n) \in Linked
                /\ nodes[find_function(n)].name = n
           /\ find_function(n) = NULL => \A a \in Linked : nodes[a].name # n
           /\ \A a \in Linked : nodes[a].name = n => find_function(n) = a
BY Found, RegistryAssumption DEF TableInv

LEMMA TableStays ==
  ASSUME TableInv, UNCHANGED <<list, nodes, blocks>>
  PROVE  TableInv' /\ Grows
<1>1. UniqueNames' /\ Ledger' /\ ArgsInBounds'
  BY DEF TableInv, UniqueNames, Ledger, ArgsInBounds, Linked
<1> QED BY <1>1 DEF TableInv, Grows, Linked

\* The addresses of the live blocks are those of the linked nodes.
LEMMA BlockAddresses ==
  ASSUME TableInv
  PROVE  /\ \A y : y \in blocks <=>
              \E a \in Linked : \E k \in NodeBlocks(Len(nodes[a].b.args)) : y = <<a, k>>
         /\ \A a \in FreeAddr : a \in Addr /\ a \notin Linked
         /\ Linked \subseteq Addr
<1>1. \A y : y \in blocks <=>
        \E a \in Linked : \E k \in NodeBlocks(Len(nodes[a].b.args)) : y = <<a, k>>
  BY OwnedElement DEF TableInv, Ledger
<1>2. \A a \in Linked : <<a, "name">> \in blocks
  BY <1>1 DEF NodeBlocks
<1>3. Linked \subseteq Addr
  BY DEF TableInv, Ledger
<1> QED BY <1>1, <1>2, <1>3 DEF FreeAddr

\* A rejected define_function leaves the heap as it was.
LEMMA RejectFreesAll ==
  ASSUME TableInv, NEW a \in FreeAddr, NEW n
  PROVE  (blocks \cup Own(a, NodeBlocks(n))) \ Own(a, ErrorFrees) = blocks
<1>1. Own(a, NodeBlocks(n)) \subseteq Own(a, ErrorFrees)
  BY DEF Own, NodeBlocks, ErrorFrees
<1>2. \A y \in blocks : y \notin Own(a, ErrorFrees)
  BY DEF FreeAddr, Own
<1> QED BY <1>1, <1>2

\* A new head keeps the table's invariant when its name is new.
Adds(a, node) ==
  /\ a \in FreeAddr /\ node \in Node
  /\ \A x \in Linked : nodes[x].name # node.name
  /\ Len(node.b.args) \in Nat /\ Len(node.b.args) <= MAX_PARAMETERS
  /\ blocks' = blocks \cup Own(a, NodeBlocks(Len(node.b.args)))
  /\ nodes' = [x \in DOMAIN nodes \cup {a} |-> IF x = a THEN node ELSE nodes[x]]
  /\ list' = <<a>> \o list

LEMMA AddKeeps ==
  ASSUME TableInv, NEW a, NEW node, Adds(a, node)
  PROVE  TableInv' /\ Grows /\ Linked' = Linked \cup {a} /\ nodes'[a] = node
<1>1. /\ a \in Addr /\ a \notin Linked /\ DOMAIN nodes = Linked
      /\ node \in Node /\ \A x \in Linked : nodes[x].name # node.name
      /\ Len(node.b.args) \in Nat /\ Len(node.b.args) <= MAX_PARAMETERS
      /\ blocks' = blocks \cup Own(a, NodeBlocks(Len(node.b.args)))
  BY BlockAddresses DEF TableInv, Ledger, Adds
<1>2. /\ list' \in Seq(Addr) /\ Len(list) \in Nat /\ Len(list') = Len(list) + 1
      /\ DOMAIN list = 1..Len(list) /\ DOMAIN list' = 1..(Len(list) + 1)
      /\ list'[1] = a /\ \A i \in 2..(Len(list) + 1) : list'[i] = list[i - 1]
  <2>1. <<a>> \in Seq(Addr) /\ Len(<<a>>) = 1 /\ <<a>>[1] = a
    BY <1>1
  <2>2. list \in Seq(Addr) /\ Len(list) \in Nat
    BY LenProperties DEF TableInv
  <2>3. /\ list' \in Seq(Addr) /\ Len(list') = 1 + Len(list)
        /\ \A i \in 1..(1 + Len(list)) : list'[i] = IF i <= 1 THEN <<a>>[i] ELSE list[i - 1]
    BY <2>1, <2>2, ConcatProperties DEF Adds
  <2> QED BY <2>1, <2>2, <2>3, LenProperties
<1>3. /\ DOMAIN nodes' = DOMAIN nodes \cup {a} /\ nodes'[a] = node
      /\ \A x \in DOMAIN nodes : nodes'[x] = nodes[x]
  BY <1>1 DEF Adds
<1>4. Linked' = Linked \cup {a}
  <2>1. \A x \in Linked' : x \in Linked \cup {a}
    <3> SUFFICES ASSUME NEW i \in 1..(Len(list) + 1) PROVE list'[i] \in Linked \cup {a}
      BY <1>2 DEF Linked
    <3>1. CASE i = 1
      BY <3>1, <1>2
    <3>2. CASE i \in 2..(Len(list) + 1)
      <4>1. i - 1 \in DOMAIN list /\ list'[i] = list[i - 1]
        BY <3>2, <1>2
      <4> QED BY <4>1 DEF Linked
    <3> QED BY <3>1, <3>2, <1>2
  <2>2. \A x \in Linked : x \in Linked'
    <3> SUFFICES ASSUME NEW i \in 1..Len(list) PROVE list[i] \in Linked'
      BY <1>2 DEF Linked
    <3>1. i + 1 \in DOMAIN list' /\ list'[i + 1] = list[i]
      BY <1>2
    <3> QED BY <3>1 DEF Linked
  <2>3. a \in Linked'
    <3>1. 1 \in DOMAIN list' /\ list'[1] = a
      BY <1>2
    <3> QED BY <3>1 DEF Linked
  <2> QED BY <2>1, <2>2, <2>3
<1>5. Grows
  BY <1>1, <1>3, <1>4 DEF Grows
<1>6. UniqueNames'
  <2> SUFFICES ASSUME NEW i \in 1..(Len(list) + 1), NEW j \in 1..(Len(list) + 1),
                      nodes'[list'[i]].name = nodes'[list'[j]].name
               PROVE  i = j
    BY <1>2 DEF UniqueNames
  <2>1. \A k \in 2..(Len(list) + 1) :
          /\ k - 1 \in DOMAIN list /\ list'[k] = list[k - 1]
          /\ list[k - 1] \in Linked /\ nodes'[list'[k]] = nodes[list[k - 1]]
    <3> SUFFICES ASSUME NEW k \in 2..(Len(list) + 1)
                 PROVE  /\ k - 1 \in DOMAIN list /\ list'[k] = list[k - 1]
                        /\ list[k - 1] \in Linked /\ nodes'[list'[k]] = nodes[list[k - 1]]
      OBVIOUS
    <3>1. k - 1 \in DOMAIN list /\ list'[k] = list[k - 1]
      BY <1>2
    <3>2. list[k - 1] \in Linked
      BY <3>1 DEF Linked
    <3> QED BY <1>1, <1>3, <3>1, <3>2
  <2>2. \A k \in 2..(Len(list) + 1) : nodes'[list'[k]].name # nodes'[list'[1]].name
    BY <1>1, <1>2, <1>3, <2>1
  <2>3. CASE i = 1 \/ j = 1
    <3>1. (i = 1 \/ i \in 2..(Len(list) + 1)) /\ (j = 1 \/ j \in 2..(Len(list) + 1))
      BY <1>2
    <3> QED BY <2>2, <2>3, <3>1
  <2>4. CASE i # 1 /\ j # 1
    <3>1. i \in 2..(Len(list) + 1) /\ j \in 2..(Len(list) + 1)
      BY <2>4, <1>2
    <3>2. nodes[list[i - 1]].name = nodes[list[j - 1]].name
      BY <2>1, <3>1
    <3>3. i - 1 = j - 1
      BY <2>1, <3>1, <3>2 DEF TableInv, UniqueNames
    <3> QED BY <3>3, <1>2
  <2> QED BY <2>3, <2>4
<1>7. Ledger'
  <2> DEFINE F == [x \in Linked |-> NodeBlocks(Len(nodes[x].b.args))]
             G == [x \in Linked' |-> NodeBlocks(Len(nodes'[x].b.args))]
  <2>1. \A x \in Linked : G[x] = F[x]
    BY <1>1, <1>3, <1>4
  <2>2. G[a] = NodeBlocks(Len(node.b.args)) /\ DOMAIN G = Linked \cup {a} /\ DOMAIN F = Linked
    BY <1>3, <1>4
  <2>3. blocks = Owned(F)
    BY DEF TableInv, Ledger
  <2> HIDE DEF F, G
  <2>4. \A y : y \in Own(a, NodeBlocks(Len(node.b.args))) <=>
               \E k \in NodeBlocks(Len(node.b.args)) : y = <<a, k>>
    BY DEF Own
  <2>5. \A y : y \in Owned(F) <=> \E x \in Linked : \E k \in F[x] : y = <<x, k>>
    BY <2>2, OwnedElement
  <2>6. \A y : y \in Owned(G) <=>
          \/ \E x \in Linked : \E k \in F[x] : y = <<x, k>>
          \/ \E k \in NodeBlocks(Len(node.b.args)) : y = <<a, k>>
    BY <2>1, <2>2, OwnedElement
  <2>7. blocks' = Owned(G)
    BY <1>1, <2>3, <2>4, <2>5, <2>6
  <2> QED BY <2>7, <1>1, <1>3, <1>4 DEF Ledger, G
<1>8. ArgsInBounds'
  BY <1>1, <1>3, <1>4 DEF TableInv, ArgsInBounds
<1>9. blocks' \subseteq Addr \X {"function_s", "name", "args"}
  BY <1>1 DEF TableInv, Own, NodeBlocks
<1>10. DOMAIN nodes' \subseteq Addr /\ \A x \in DOMAIN nodes' : nodes'[x] \in Node
  BY <1>1, <1>3 DEF TableInv
<1> QED BY <1>2, <1>3, <1>4, <1>5, <1>6, <1>7, <1>8, <1>9, <1>10 DEF TableInv

-----------------------------------------------------------------------------
(* The steps *)

LEMMA TopFrame ==
  ASSUME StackInv, stack # <<>>
  PROVE  Top \in Frame /\ FrameOK(Top) /\ Depth \in Nat \ {0}
<1>1. Depth \in Nat \ {0} /\ Depth \in 1..Depth /\ Depth = Len(stack)
  BY EmptySeq DEF StackInv, Depth
<1>2. stack[Depth] \in Frame
  BY <1>1, ElementOfSeq DEF StackInv
<1> QED BY <1>1, <1>2 DEF StackInv, FramesOK, Top

\* js_define goes on.
LEMMA ConvertedKeeps ==
  ASSUME StackInv, Grows, stack # <<>>, Top.op = "define",
         NEW f \in Frame, FrameOK(f), f.op = "define",
         NEW H \in SUBSET Nat, DefineSlots(f) = DefineSlots(Top) \cup H,
         Converted(f, H), temps' = temps
  PROVE  StackInv'
<1>1. FrameOK(Top)
  BY TopFrame
<1>2. f.pc # "native" /\ Top.pc # "native"
  BY <1>1 DEF FrameOK
<1>3. Own(Depth, {}) = {}
  BY DEF Own
<1>4. GoesOn(f, H, {})
  BY <1>2, <1>3 DEF GoesOn, Converted, Slots
<1> QED BY <1>4, GoesOnKeeps

\* js_define returns.
LEMMA DefineReturnKeeps ==
  ASSUME StackInv, Grows, stack # <<>>, Top.op = "define", NEW r,
         DefineReturn(r), temps' = temps
  PROVE  StackInv'
<1>1. Top.pc # "native"
  BY TopFrame DEF FrameOK
<1>2. Own(Depth, {}) = {}
  BY DEF Own
<1>3. Returns({}, DefineSlots(Top), {})
  BY <1>1, <1>2 DEF Returns, DefineReturn, Slots
<1> QED BY <1>3, ReturnKeeps

\* js_call returns before it enters the function.
LEMMA CallReturnKeeps ==
  ASSUME StackInv, Grows, At("call", "argv0"), NEW f, f.fl \in Nat, NEW r,
         CallReturn(f, r), temps' = temps
  PROVE  StackInv'
<1>1. /\ stack # <<>> /\ Top \in Frame /\ Top.op = "call" /\ Top.pc = "argv0"
      /\ Top.name = NULL /\ Top.fl = 0
  BY TopFrame DEF At, FrameOK
<1>2. Slots(Top) = {}
  BY <1>1 DEF Slots, CallSlots
<1>4. CallSlots(f) \subseteq Nat /\ CallSlots(f) \subseteq CallFrees(f)
  BY DEF CallSlots, CallFrees
<1>5. Own(Depth, {}) = {}
  BY DEF Own
<1>6. Returns(CallSlots(f), CallFrees(f), {})
  BY <1>1, <1>2, <1>4, <1>5 DEF Returns, CallReturn
<1> QED BY <1>6, ReturnKeeps

LEMMA BeginStep ==
  ASSUME TableInv, StackInv, NEW op \in {"define", "call"}, NEW given \in 0..MaxArgs,
         Begin(op, given)
  PROVE  TableInv' /\ Grows /\ StackInv'
<1>1. TableInv' /\ Grows
  BY TableStays DEF Begin
<1>2. NewFrame(op, given) \in Frame
  BY RegistryAssumption DEF NewFrame, Frame
<1>3. FrameOK(NewFrame(op, given))
  BY RegistryAssumption DEF NewFrame, FrameOK
<1>4. Slots(NewFrame(op, given)) = {}
  BY DEF NewFrame, Slots, DefineSlots, CallSlots
<1>5. Starts(NewFrame(op, given))
  BY <1>2, <1>3, <1>4 DEF Starts, Begin, NewFrame
<1> QED BY <1>1, <1>5, StartKeeps

\* js_define goes on with the frame g, and gets the C strings K.
ConvertsTo(g, K) ==
  /\ g \in Frame /\ FrameOK(g) /\ g.op = "define" /\ K \in SUBSET Nat
  /\ DefineSlots(g) = DefineSlots(Top) \cup K
  /\ Converted(g, K)

LEMMA ArgumentConverts ==
  ASSUME StackInv, DefineArgument
  PROVE  \E g, K : ConvertsTo(g, K)
<1>2. stack # <<>> /\ Top.op = "define" /\ Top \in Frame /\ FrameOK(Top) /\ temps' = temps
  BY TopFrame DEF DefineArgument, At
<1>3. ASSUME At("define", "argv0"), NEW n \in Names,
             Converted([Top EXCEPT !.name = n, !.pc = "argv1"], {0})
      PROVE  \E g, K : ConvertsTo(g, K)
  <2> DEFINE f == [Top EXCEPT !.name = n, !.pc = "argv1"]
  <2>1. f \in Frame /\ f.op = "define" /\ n # NULL
    BY <1>2, RegistryAssumption DEF Frame
  <2>2. FrameOK(f)
    BY <1>2, <2>1 DEF Frame, FrameOK
  <2>3. DefineSlots(f) = DefineSlots(Top) \cup {0}
    BY <1>2, <2>1 DEF Frame, DefineSlots
  <2> HIDE DEF f
  <2>4. Converted(f, {0})
    BY <1>3 DEF f
  <2>5. ConvertsTo(f, {0})
    BY <2>1, <2>2, <2>3, <2>4 DEF ConvertsTo
  <2> QED BY <2>5
<1>4. ASSUME At("define", "argv1"), NEW p \in Fps \cup {NULL},
             Converted([Top EXCEPT !.fp = p, !.pc = "argv2"], {})
      PROVE  \E g, K : ConvertsTo(g, K)
  <2> DEFINE f == [Top EXCEPT !.fp = p, !.pc = "argv2"]
  <2>1. f \in Frame /\ f.op = "define"
    BY <1>2 DEF Frame
  <2>2. FrameOK(f)
    BY <1>2, <1>4, <2>1 DEF Frame, FrameOK, At
  <2>3. DefineSlots(f) = DefineSlots(Top) \cup {}
    BY <1>2 DEF Frame, DefineSlots
  <2> HIDE DEF f
  <2>4. Converted(f, {})
    BY <1>4 DEF f
  <2>5. ConvertsTo(f, {})
    BY <2>1, <2>2, <2>3, <2>4 DEF ConvertsTo
  <2> QED BY <2>5
<1>5. ASSUME At("define", "argv2"), Converted([Top EXCEPT !.pc = "argv3"], {})
      PROVE  \E g, K : ConvertsTo(g, K)
  <2> DEFINE f == [Top EXCEPT !.pc = "argv3"]
  <2>1. f \in Frame /\ f.op = "define"
    BY <1>2 DEF Frame
  <2>2. FrameOK(f)
    BY <1>2, <1>5, <2>1 DEF Frame, FrameOK, At
  <2>3. DefineSlots(f) = DefineSlots(Top) \cup {}
    BY <1>2 DEF Frame, DefineSlots
  <2> HIDE DEF f
  <2>4. Converted(f, {})
    BY <1>5 DEF f
  <2>5. ConvertsTo(f, {})
    BY <2>1, <2>2, <2>3, <2>4 DEF ConvertsTo
  <2> QED BY <2>5
<1>6. ASSUME At("define", "argv2"), NEW a \in AbiNames,
             Converted([Top EXCEPT !.abi = a, !.pc = "argv3"], {2})
      PROVE  \E g, K : ConvertsTo(g, K)
  <2> DEFINE f == [Top EXCEPT !.abi = a, !.pc = "argv3"]
  <2>1. f \in Frame /\ f.op = "define" /\ a # NULL
    BY <1>2, RegistryAssumption DEF Frame
  <2>2. FrameOK(f)
    BY <1>2, <1>6, <2>1 DEF Frame, FrameOK, At
  <2>3. DefineSlots(f) = DefineSlots(Top) \cup {2}
    BY <1>2, <2>1 DEF Frame, DefineSlots
  <2> HIDE DEF f
  <2>4. Converted(f, {2})
    BY <1>6 DEF f
  <2>5. ConvertsTo(f, {2})
    BY <2>1, <2>2, <2>3, <2>4 DEF ConvertsTo
  <2> QED BY <2>5
<1>7. ASSUME At("define", "argv3"), NEW t \in TypeNames,
             Converted([Top EXCEPT !.rtype = t, !.pc = "argv4"], {3})
      PROVE  \E g, K : ConvertsTo(g, K)
  <2> DEFINE f == [Top EXCEPT !.rtype = t, !.pc = "argv4"]
  <2>1. f \in Frame /\ f.op = "define" /\ t # NULL
    BY <1>2, RegistryAssumption DEF Frame
  <2>2. FrameOK(f)
    BY <1>2, <1>7, <2>1 DEF Frame, FrameOK, At
  <2>3. DefineSlots(f) = DefineSlots(Top) \cup {3}
    BY <1>2, <2>1 DEF Frame, DefineSlots
  <2> HIDE DEF f
  <2>4. Converted(f, {3})
    BY <1>7 DEF f
  <2>5. ConvertsTo(f, {3})
    BY <2>1, <2>2, <2>3, <2>4 DEF ConvertsTo
  <2> QED BY <2>5
<1>8. ASSUME At("define", "argv4"), MoreTypes(Top), NEW t \in TypeNames \cup {NULL},
             Converted([Top EXCEPT !.params = Append(@, t)],
                       IF t = NULL THEN {} ELSE {4 + Len(Top.params)})
      PROVE  \E g, K : ConvertsTo(g, K)
  <2> DEFINE q == Append(Top.params, t)
             f == [Top EXCEPT !.params = q]
             H == IF t = NULL THEN {} ELSE {4 + Len(Top.params)}
  <2>1. Top.params \in Seq(TypeNames \cup {NULL})
    BY <1>2 DEF Frame
  <2>2. /\ q \in Seq(TypeNames \cup {NULL}) /\ Len(Top.params) \in Nat
        /\ Len(q) = Len(Top.params) + 1 /\ q[Len(Top.params) + 1] = t
        /\ \A d \in 1..Len(Top.params) : q[d] = Top.params[d]
    BY <2>1, Pushed, LenProperties
  <2>3. DOMAIN q = 1..(Len(Top.params) + 1) /\ DOMAIN Top.params = 1..Len(Top.params)
    BY <2>1, <2>2, LenProperties
  <2> HIDE DEF q
  <2>4. f \in Frame /\ f.op = "define" /\ f.params = q
    BY <1>2, <2>2 DEF Frame
  <2>5. Len(q) <= MAX_PARAMETERS
    BY <1>8, <2>2, RegistryAssumption DEF MoreTypes
  <2>6. FrameOK(f)
    BY <1>2, <1>8, <2>4, <2>5 DEF Frame, FrameOK, At
  <2>7. H \in SUBSET Nat
    BY <2>2
  <2>8. {3 + k : k \in {i \in DOMAIN q : q[i] # NULL}} =
          {3 + k : k \in {i \in DOMAIN Top.params : Top.params[i] # NULL}} \cup H
    BY <2>2, <2>3
  <2>9. f.name = Top.name /\ f.abi = Top.abi /\ f.rtype = Top.rtype
    BY <1>2 DEF Frame
  <2> HIDE DEF f, H
  <2>10. DefineSlots(f) = DefineSlots(Top) \cup H
    BY <2>4, <2>8, <2>9 DEF DefineSlots
  <2>11. Converted(f, H)
    BY <1>8 DEF f, H, q
  <2>12. ConvertsTo(f, H)
    BY <2>4, <2>6, <2>7, <2>10, <2>11 DEF ConvertsTo
  <2> QED BY <2>12
<1> QED BY <1>3, <1>4, <1>5, <1>6, <1>7, <1>8 DEF DefineArgument

LEMMA DefineArgumentStep ==
  ASSUME TableInv, StackInv, DefineArgument
  PROVE  TableInv' /\ Grows /\ StackInv'
<1>1. TableInv' /\ Grows
  BY TableStays DEF DefineArgument
<1>2. PICK g, K : ConvertsTo(g, K)
  BY ArgumentConverts
<1>3. stack # <<>> /\ Top.op = "define" /\ temps' = temps
  BY DEF DefineArgument, At
<1> QED BY <1>1, <1>2, <1>3, ConvertedKeeps DEF ConvertsTo

LEMMA DefineArgumentFailsStep ==
  ASSUME TableInv, StackInv, DefineArgumentFails
  PROVE  TableInv' /\ Grows /\ StackInv'
<1>1. TableInv' /\ Grows
  BY TableStays DEF DefineArgumentFails
<1> QED BY <1>1, DefineReturnKeeps DEF DefineArgumentFails, At

LEMMA AlreadyDefinedStep ==
  ASSUME TableInv, StackInv, AlreadyDefined
  PROVE  TableInv' /\ Grows /\ StackInv'
<1>1. TableInv' /\ Grows
  BY TableStays DEF AlreadyDefined
<1> QED BY <1>1, DefineReturnKeeps DEF AlreadyDefined, AtDefineFunction, At

LEMMA NoMemoryStep ==
  ASSUME TableInv, StackInv, NoMemory
  PROVE  TableInv' /\ Grows /\ StackInv'
<1>1. TableInv' /\ Grows
  BY TableStays DEF NoMemory
<1>2. FramesOK' /\ NativeNodeLive' /\ CStringsExact' /\ TempsExact'
  BY DEF NoMemory, StackInv, FramesOK, NativeNodeLive, Natives, Depth, Linked,
         CStringsExact, TempsExact, FrameArrays, Needed
<1> QED BY <1>1, <1>2 DEF NoMemory, StackInv

\* What DefineAdded adds: a node whose name is new, with a bounded prototype.
LEMMA AddedNode ==
  ASSUME TableInv, StackInv, DefineAdded
  PROVE  \E a, node : Adds(a, node)
<1>1. PICK a \in FreeAddr :
        /\ blocks' = blocks \cup Own(a, NodeBlocks(Nargs(Top.params)))
        /\ nodes' = [x \in DOMAIN nodes \cup {a} |->
                       IF x = a THEN [name |-> Top.name, b |-> NewBinding(Top)] ELSE nodes[x]]
        /\ list' = <<a>> \o list
  BY DEF DefineAdded
<1> DEFINE node == [name |-> Top.name, b |-> NewBinding(Top)]
<1>2. /\ Top \in Frame /\ FrameOK(Top) /\ Top.op = "define" /\ Top.pc = "argv4"
      /\ find_function(Top.name) = NULL /\ KnownPrototype(Top)
  BY TopFrame DEF DefineAdded, AtDefineFunction, At
<1>3. Top.name \in Names
  BY <1>2 DEF FrameOK, Frame
<1>4. /\ NewBinding(Top) \in Binding
      /\ Len(NewBinding(Top).args) = Nargs(Top.params)
  BY <1>2, BindingType
<1>5. Nargs(Top.params) \in Nat /\ Nargs(Top.params) <= MAX_PARAMETERS
  <2>1. Top.params \in Seq(TypeNames \cup {NULL}) /\ Len(Top.params) <= MAX_PARAMETERS
    BY <1>2 DEF Frame, FrameOK
  <2>2. Len(Top.params) \in Nat /\ Nargs(Top.params) \in Nat
        /\ Nargs(Top.params) <= Len(Top.params)
    BY <2>1, NargsBound, LenProperties
  <2> QED BY <2>1, <2>2, RegistryAssumption
<1>6. node \in Node /\ node.name = Top.name /\ node.b = NewBinding(Top)
  BY <1>3, <1>4 DEF Node
<1>7. \A x \in Linked : nodes[x].name # Top.name
  BY <1>2, FoundInTable
<1> HIDE DEF node
<1>8. nodes' = [x \in DOMAIN nodes \cup {a} |-> IF x = a THEN node ELSE nodes[x]]
  BY <1>1 DEF node
<1>9. Adds(a, node)
  BY <1>1, <1>4, <1>5, <1>6, <1>7, <1>8 DEF Adds
<1> QED BY <1>9

LEMMA DefineAddedStep ==
  ASSUME TableInv, StackInv, DefineAdded
  PROVE  TableInv' /\ Grows /\ StackInv'
<1>1. TableInv' /\ Grows
  BY AddedNode, AddKeeps
<1> QED BY <1>1, DefineReturnKeeps DEF DefineAdded, AtDefineFunction, At

LEMMA DefineRejectedStep ==
  ASSUME TableInv, StackInv, DefineRejected
  PROVE  TableInv' /\ Grows /\ StackInv'
<1>1. blocks' = blocks
  BY RejectFreesAll DEF DefineRejected
<1>2. TableInv' /\ Grows
  BY <1>1, TableStays DEF DefineRejected
<1> QED BY <1>2, DefineReturnKeeps DEF DefineRejected, AtDefineFunction, At

LEMMA CallFailsStep ==
  ASSUME TableInv, StackInv, CallFails
  PROVE  TableInv' /\ Grows /\ StackInv'
<1>1. TableInv' /\ Grows
  BY TableStays DEF CallFails
<1>2. /\ At("call", "argv0") /\ temps' = temps
      /\ Top \in Frame
  BY TopFrame DEF CallFails, At
<1>3. CASE CallReturn(Top, "exception")
  <2>1. Top.fl \in Nat
    BY <1>2 DEF Frame
  <2> QED BY <1>1, <1>2, <1>3, <2>1, CallReturnKeeps
<1>4. CASE \E n \in Names, k \in 0..Reached(Top) : CallReturn(CallLocals(n, k), "exception")
  <2>1. PICK n \in Names, k \in 0..Reached(Top) : CallReturn(CallLocals(n, k), "exception")
    BY <1>4
  <2>2. CallLocals(n, k).fl \in Nat
    BY <1>2 DEF CallLocals, Frame
  <2> QED BY <1>1, <1>2, <2>1, <2>2, CallReturnKeeps
<1> QED BY <1>1, <1>3, <1>4 DEF CallFails

LEMMA CallNativeStep ==
  ASSUME TableInv, StackInv, CallNative
  PROVE  TableInv' /\ Grows /\ StackInv'
<1>1. TableInv' /\ Grows /\ UNCHANGED <<list, nodes>>
  BY TableStays DEF CallNative
<1>2. /\ stack # <<>> /\ Top \in Frame /\ Top.op = "call" /\ Top.pc = "argv0"
      /\ Top.name = NULL /\ Top.fl = 0 /\ FrameOK(Top)
  BY TopFrame DEF CallNative, At, FrameOK
<1>3. PICK n \in Names, k \in 0..Reached(Top) :
        /\ find_function(n) # NULL
        /\ stack' = [stack EXCEPT ![Depth] =
                       [CallLocals(n, k) EXCEPT !.node = find_function(n), !.pc = "native"]]
        /\ cstrs' = cstrs \cup Own(Depth, CallSlots(CallLocals(n, k)))
        /\ temps' = temps \cup Own(Depth, Needed(find_function(n)))
  BY DEF CallNative
<1>4. find_function(n) \in Linked /\ nodes[find_function(n)].name = n /\ Linked \subseteq Addr
  BY <1>3, RegistryAssumption, FoundInTable, BlockAddresses
<1> DEFINE g == CallLocals(n, k)
           f == [g EXCEPT !.node = find_function(n), !.pc = "native"]
           H == CallSlots(g)
           T == Needed(find_function(n))
<1>5. g \in Frame /\ g.op = "call" /\ g.name = n /\ g.fl = k /\ g.params = Top.params
  <2>1. k \in Nat
    OBVIOUS
  <2>2. g = [Top EXCEPT !.name = n, !.fl = k]
    BY DEF CallLocals
  <2> QED BY <1>2, <2>1, <2>2 DEF Frame
<1>6. /\ f \in Frame /\ f.op = "call" /\ f.pc = "native" /\ f.node = find_function(n)
      /\ f.name = n /\ f.fl = k /\ f.params = Top.params
  BY <1>4, <1>5 DEF Frame
<1>7. stack' = [stack EXCEPT ![Depth] = f]
  BY <1>3
<1> HIDE DEF f, g
<1>8. FrameOK(f)
  BY <1>2, <1>4, <1>6 DEF FrameOK
<1>9. H \in SUBSET Nat
  BY <1>5 DEF CallSlots
<1>10. Slots(f) = Slots(Top) \cup H
  BY <1>2, <1>5, <1>6 DEF Slots, CallSlots
<1>11. T = IF f.pc = "native" /\ nodes'[f.node].b.args # <<>> THEN Arrays ELSE {}
  BY <1>1, <1>6 DEF Needed
<1>12. f.node \in Linked' /\ nodes'[f.node].name = f.name
  BY <1>1, <1>4, <1>6 DEF Linked
<1>13. cstrs' = cstrs \cup Own(Depth, H) /\ temps' = temps \cup Own(Depth, T)
  BY <1>3 DEF g
<1> HIDE DEF H, T
<1>14. GoesOn(f, H, T)
  BY <1>2, <1>6, <1>7, <1>8, <1>9, <1>10, <1>11, <1>12, <1>13 DEF GoesOn
<1> QED BY <1>1, <1>14, GoesOnKeeps

LEMMA CallFunctionReturnsStep ==
  ASSUME TableInv, StackInv, CallFunctionReturns
  PROVE  TableInv' /\ Grows /\ StackInv'
<1>1. TableInv' /\ Grows
  BY TableStays DEF CallFunctionReturns
<1>2. /\ stack # <<>> /\ Top.op = "call" /\ Top.pc = "native" /\ Top \in Frame
      /\ CallReturn(Top, "value") /\ temps' = temps \ Own(Depth, Arrays)
  BY TopFrame DEF CallFunctionReturns, At
<1>3. Top.fl \in Nat
  BY <1>2 DEF Frame
<1>4. /\ CallSlots(Top) \subseteq Nat /\ CallSlots(Top) \subseteq CallFrees(Top)
      /\ Slots(Top) = CallSlots(Top)
  BY <1>2, <1>3 DEF CallSlots, CallFrees, Slots
<1>5. Returns(CallSlots(Top), CallFrees(Top), Arrays)
  BY <1>2, <1>4 DEF Returns, CallReturn
<1> QED BY <1>1, <1>5, ReturnKeeps

-----------------------------------------------------------------------------
(* The theorems *)

LEMMA InitInv == Init => TableInv /\ StackInv
<1> SUFFICES ASSUME Init PROVE TableInv /\ StackInv
  OBVIOUS
<1>1. list = <<>> /\ DOMAIN nodes = {} /\ blocks = {} /\ stack = <<>> /\ cstrs = {} /\ temps = {}
  BY DEF Init
<1>2. Linked = {} /\ Depth = 0 /\ 1..Depth = {}
  BY <1>1 DEF Linked, Depth
<1>3. Ledger /\ CStringsExact /\ TempsExact
  BY <1>1, <1>2 DEF Ledger, CStringsExact, TempsExact, Owned
<1>4. TableInv
  BY <1>1, <1>2, <1>3 DEF TableInv, UniqueNames, ArgsInBounds
<1>5. StackInv
  BY <1>1, <1>2, <1>3 DEF StackInv, FramesOK, NativeNodeLive, Natives
<1> QED BY <1>4, <1>5

LEMMA NextInv ==
  ASSUME TableInv, StackInv, [Next]_vars
  PROVE  TableInv' /\ Grows /\ StackInv'
<1>1. CASE UNCHANGED vars
  <2>1. TableInv' /\ Grows
    BY <1>1, TableStays DEF vars
  <2>2. FramesOK' /\ NativeNodeLive' /\ CStringsExact' /\ TempsExact'
    BY <1>1 DEF vars, StackInv, FramesOK, NativeNodeLive, Natives, Depth, Linked,
                CStringsExact, TempsExact, FrameArrays, Needed
  <2> QED BY <1>1, <2>1, <2>2 DEF vars, StackInv
<1>2. CASE \E op \in {"define", "call"}, given \in 0..MaxArgs : Begin(op, given)
  BY <1>2, BeginStep
<1>3. CASE Define
  BY <1>3, DefineArgumentStep, DefineArgumentFailsStep, AlreadyDefinedStep,
     NoMemoryStep, DefineAddedStep, DefineRejectedStep DEF Define, DefineNoMemory
<1>4. CASE Call
  BY <1>4, CallFailsStep, NoMemoryStep, CallNativeStep, CallFunctionReturnsStep
     DEF Call, CallNoMemory
<1> QED BY <1>1, <1>2, <1>3, <1>4 DEF Next, Terminated

\* The inductive invariant.
Inv == TableInv /\ StackInv /\ ret \in {"none", "true", "false", "exception", "value"}
         /\ exited \in BOOLEAN

LEMMA SpecInv == Spec => []Inv
<1>1. Init => Inv
  BY InitInv DEF Init, Inv
<1>2. Inv /\ [Next]_vars => Inv'
  <2> SUFFICES ASSUME Inv, [Next]_vars PROVE Inv'
    OBVIOUS
  <2>1. TableInv' /\ StackInv'
    BY NextInv DEF Inv
  <2>2. ret' \in {"none", "true", "false", "exception", "value"} /\ exited' \in BOOLEAN
    BY DEF Inv, Next, vars, Terminated, Define, Call, Begin, DefineArgument, Converted,
           DefineArgumentFails, DefineReturn, AlreadyDefined, DefineNoMemory, NoMemory,
           DefineAdded, DefineRejected, CallFails, CallNoMemory, CallNative, CallReturn,
           CallFunctionReturns
  <2> QED BY <2>1, <2>2 DEF Inv
<1> QED BY <1>1, <1>2, PTL DEF Spec

\* The state has its types in every reachable state.
THEOREM TypeCorrect == Spec => []TypeOK
<1>1. Inv => TypeOK
  BY DEF Inv, TableInv, StackInv, TypeOK
<1> QED BY <1>1, SpecInv, PTL

\* No two nodes of function_list have one name.
THEOREM NamesUnique == Spec => []UniqueNames
<1>1. Inv => UniqueNames
  BY DEF Inv, TableInv
<1> QED BY <1>1, SpecInv, PTL

\* The heap holds exactly the blocks of the linked nodes: define() gives back
\* what it took on every path.
THEOREM HeapExact == Spec => []Ledger
<1>1. Inv => Ledger
  BY DEF Inv, TableInv
<1> QED BY <1>1, SpecInv, PTL

\* No prototype is longer than js_call's array of arguments.
THEOREM ArgumentsFit == Spec => []ArgsInBounds
<1>1. Inv => ArgsInBounds
  BY DEF Inv, TableInv
<1> QED BY <1>1, SpecInv, PTL

\* While a native function runs, its node stays linked under its name, whatever
\* the callbacks do to the table.
THEOREM NativeNodesStay == Spec => []NativeNodeLive
<1>1. Inv => NativeNodeLive
  BY DEF Inv, StackInv
<1> QED BY <1>1, SpecInv, PTL

\* The C strings of JavaScript values are those of the handlers in progress, to
\* any depth, and each is freed on every path.
THEOREM StringsFreed == Spec => []CStringsExact
<1>1. Inv => CStringsExact
  BY DEF Inv, StackInv
<1> QED BY <1>1, SpecInv, PTL

\* The arrays of call_function are those of the native calls in progress: they are
\* freed when the function returns.
THEOREM ArraysFreed == Spec => []TempsExact
<1>1. Inv => TempsExact
  BY DEF Inv, StackInv
<1> QED BY <1>1, SpecInv, PTL

\* A linked node is the one that its name finds.
FindsLinked ==
  /\ \A n \in Names : \A x \in Linked : nodes[x].name = n => find_function(n) = x
  /\ \A n \in Names : find_function(n) # NULL =>
       \E x \in Linked : nodes[x].name = n /\ find_function(n) = x

LEMMA TableFindsLinked == TableInv => FindsLinked
BY FoundInTable DEF FindsLinked

\* A name that is found stays bound to the same node and binding.
LEMMA BindingStays ==
  ASSUME Inv, [Next]_vars, NEW n \in Names, find_function(n) # NULL
  PROVE  find_function(n)' = find_function(n) /\ Bound(n)' = Bound(n)
<1>1. TableInv /\ TableInv' /\ Grows
  BY NextInv DEF Inv
<1> DEFINE a == find_function(n)
<1>2. a \in Linked /\ nodes[a].name = n
  BY <1>1, FoundInTable
<1>3. a \in Linked' /\ nodes'[a] = nodes[a]
  BY <1>1, <1>2 DEF Grows
<1>4. FindsLinked'
  <2>1. TableInv' => FindsLinked'
    BY TableFindsLinked, PTL
  <2> QED BY <1>1, <2>1
<1>5. find_function(n)' = a
  BY <1>2, <1>3, <1>4 DEF FindsLinked
<1> QED BY <1>2, <1>3, <1>5, RegistryAssumption DEF Bound

\* The binding of a name never changes, whatever define() calls follow.
THEOREM BindingsStay == Spec => FirstDefinitionWins
<1>1. Inv /\ [Next]_vars =>
        [\A n \in Names : find_function(n) # NULL => Bound(n)' = Bound(n)]_vars
  BY BindingStays
<1> QED BY <1>1, SpecInv, PTL DEF Spec, FirstDefinitionWins

\* A define() that returns true leaves its name in the table: it was there, or it
\* is that of the new head.
LEMMA TrueIsFound ==
  ASSUME Inv, [Next]_vars, vars' # vars, ret' = "true", NEW n \in Names, n = Top.name
  PROVE  find_function(n)' # NULL
<1>1. AlreadyDefined \/ DefineAdded
  <2>1. \/ \E op \in {"define", "call"}, given \in 0..MaxArgs : Begin(op, given)
        \/ Define \/ Call
    BY DEF Next, Terminated
  <2>2. ~\E op \in {"define", "call"}, given \in 0..MaxArgs : Begin(op, given)
    BY DEF Begin
  <2>3. ~(DefineArgument \/ DefineArgumentFails \/ DefineNoMemory \/ DefineRejected)
    BY DEF DefineArgument, Converted, DefineArgumentFails, DefineReturn, DefineNoMemory, NoMemory,
       DefineRejected
  <2>4. ~Call
    BY DEF Call, CallFails, CallReturn, CallNoMemory, NoMemory, CallNative, CallFunctionReturns
  <2> QED BY <2>1, <2>2, <2>3, <2>4 DEF Define
<1>2. CASE AlreadyDefined
  <2>1. find_function(n) # NULL
    BY <1>2 DEF AlreadyDefined
  <2> QED BY <2>1, BindingStays
<1>3. CASE DefineAdded
  <2>1. PICK a \in Addr : /\ nodes' = [x \in DOMAIN nodes \cup {a} |->
                                IF x = a THEN [name |-> Top.name, b |-> NewBinding(Top)]
                                ELSE nodes[x]]
                          /\ list' = <<a>> \o list
    BY <1>3 DEF DefineAdded, FreeAddr
  <2>2. nodes'[a].name = n
    BY <2>1
  <2>3. a \in Linked'
    <3>1. list \in Seq(Addr)
      BY DEF Inv, TableInv
    <3>2. 1 \in DOMAIN list' /\ list'[1] = a
      BY <2>1, <3>1
    <3> QED BY <3>2 DEF Linked
  <2>4. FindsLinked'
    <3>1. TableInv' => FindsLinked'
      BY TableFindsLinked, PTL
    <3> QED BY <3>1, NextInv DEF Inv
  <2>5. find_function(n)' = a
    BY <2>2, <2>3, <2>4 DEF FindsLinked
  <2> QED BY <2>5, RegistryAssumption
<1> QED BY <1>1, <1>2, <1>3

\* What define() answers is true: after true, the name can be called.
THEOREM TrueIsCallable == Spec => TrueMeansCallable
<1>1. Inv /\ [Next]_vars =>
        [ret' = "true" => \A n \in Names : n = Top.name => find_function(n)' # NULL]_vars
  BY TrueIsFound
<1> QED BY <1>1, SpecInv, PTL DEF Spec, TrueMeansCallable

-----------------------------------------------------------------------------
(* FfiRegistry implements Bindings *)

DepthBounded == Depth <= MaxDepth

Active == {<<d, nodes[stack[d].node].b>> : d \in Natives}
BoundTable == [n \in Names |-> Bound(n)]

\* Frames that are native before and after a step, or not in both, keep the calls
\* in progress as they are.
LEMMA ActiveSame ==
  ASSUME StackInv, Grows, Natives' = Natives,
         \A d \in Natives : stack'[d] = stack[d]
  PROVE  Active' = Active
<1>1. \A d \in Natives : nodes'[stack'[d].node].b = nodes[stack[d].node].b
  BY DEF StackInv, NativeNodeLive, Grows
<1> QED BY <1>1 DEF Active

LEMMA ActivePush ==
  ASSUME StackInv, Grows, NEW f \in Frame, f.pc # "native", stack' = Append(stack, f)
  PROVE  Active' = Active
<1>1. /\ Depth' = Depth + 1 /\ Depth \in Nat
      /\ stack'[Depth + 1] = f /\ \A d \in 1..Depth : stack'[d] = stack[d]
  BY Pushed, LenProperties DEF StackInv, Depth
<1>2. \A d \in 1..Depth' : d \in 1..Depth \/ d = Depth + 1
  BY <1>1
<1>3. 1..Depth \subseteq 1..Depth'
  BY <1>1
<1>4. \A d : d \in Natives' <=> d \in Natives
  BY <1>1, <1>2, <1>3 DEF Natives
<1> QED BY <1>1, <1>4, ActiveSame DEF Natives

LEMMA ActiveSet ==
  ASSUME StackInv, Grows, stack # <<>>, NEW f \in Frame, f.pc # "native",
         Top.pc # "native", stack' = [stack EXCEPT ![Depth] = f]
  PROVE  Active' = Active
<1>1. /\ Depth' = Depth /\ Depth \in Nat \ {0} /\ stack[Depth] = Top
      /\ stack'[Depth] = f /\ \A d \in 1..(Depth - 1) : stack'[d] = stack[d]
  BY Replaced, EmptySeq DEF StackInv, Depth, Top
<1>2. \A d \in 1..Depth : d \in 1..(Depth - 1) \/ d = Depth
  BY <1>1
<1>3. \A d : d \in Natives' <=> d \in Natives
  BY <1>1, <1>2 DEF Natives
<1>4. \A d \in Natives : stack'[d] = stack[d]
  BY <1>1, <1>2 DEF Natives
<1> QED BY <1>3, <1>4, ActiveSame

LEMMA ActivePop ==
  ASSUME StackInv, Grows, stack # <<>>, Top.pc # "native", stack' = Pop
  PROVE  Active' = Active
<1>1. /\ Depth' = Depth - 1 /\ Depth \in Nat \ {0} /\ stack[Depth] = Top
      /\ \A d \in 1..(Depth - 1) : stack'[d] = stack[d]
  BY Popped, EmptySeq DEF StackInv, Depth, Top, Pop
<1>2. \A d \in 1..Depth : d \in 1..(Depth - 1) \/ d = Depth
  BY <1>1
<1>3. \A d : d \in Natives' <=> d \in Natives
  BY <1>1, <1>2 DEF Natives
<1>4. \A d \in Natives : stack'[d] = stack[d]
  BY <1>1, <1>2 DEF Natives
<1> QED BY <1>3, <1>4, ActiveSame

\* The depth of the stack is bounded.
LEMMA DepthInv == Spec => []DepthBounded
<1>1. Init => DepthBounded
  BY RegistryAssumption DEF Init, DepthBounded, Depth
<1>2. Inv /\ DepthBounded /\ [Next]_vars => DepthBounded'
  <2> SUFFICES ASSUME Inv, DepthBounded, [Next]_vars PROVE DepthBounded'
    OBVIOUS
  <2>1. stack \in Seq(Frame) /\ Depth \in Nat
    BY LenProperties DEF Inv, StackInv, Depth
  <2>2. CASE \E op \in {"define", "call"}, given \in 0..MaxArgs : Begin(op, given)
    <3>1. PICK op \in {"define", "call"}, given \in 0..MaxArgs : Begin(op, given)
      BY <2>2
    <3>2. NewFrame(op, given) \in Frame
      BY RegistryAssumption DEF NewFrame, Frame
    <3>3. Depth' = Depth + 1
      BY <2>1, <3>1, <3>2, Pushed DEF Begin, Depth
    <3> QED BY <2>1, <3>1, <3>3, RegistryAssumption DEF Begin, DepthBounded
  <2>3. CASE stack # <<>> /\ stack' = Pop
    <3>1. Depth' = Depth - 1
      BY <2>1, <2>3, Popped DEF Depth, Pop
    <3> QED BY <2>1, <3>1, RegistryAssumption DEF DepthBounded
  <2>4. CASE \E f : stack' = [stack EXCEPT ![Depth] = f]
    <3>1. Depth' = Depth
      BY <2>1, <2>4, LenProperties DEF Depth
    <3> QED BY <3>1 DEF DepthBounded
  <2>5. CASE stack' = stack
    BY <2>5 DEF DepthBounded, Depth
  <2>6. CASE Define \/ Call
    <3>1. \/ stack # <<>> /\ stack' = Pop
          \/ \E f : stack' = [stack EXCEPT ![Depth] = f]
          \/ stack' = stack
      BY <2>6 DEF Define, Call, At, AtDefineFunction, DefineArgument, Converted,
           DefineArgumentFails, DefineReturn, AlreadyDefined, DefineNoMemory, NoMemory,
           DefineAdded, DefineRejected, CallFails, CallNoMemory, CallNative, CallReturn,
           CallFunctionReturns
    <3> QED BY <3>1, <2>3, <2>4, <2>5
  <2> QED BY <2>2, <2>5, <2>6 DEF Next, vars, Terminated
<1> QED BY <1>1, <1>2, SpecInv, PTL DEF Spec

\* A step that leaves list and nodes alone leaves the bindings alone.
LEMMA BoundSame ==
  ASSUME UNCHANGED <<list, nodes>>
  PROVE  BoundTable' = BoundTable
BY DEF BoundTable, Bound, find_function

\* A step that Bindings does not see.
Stutters == BoundTable' = BoundTable /\ Active' = Active /\ exited' = exited

LEMMA BeginStutters ==
  ASSUME Inv, NEW op \in {"define", "call"}, NEW given \in 0..MaxArgs, Begin(op, given)
  PROVE  Stutters
<1>1. StackInv /\ Grows
  BY BeginStep DEF Inv
<1>2. NewFrame(op, given) \in Frame /\ NewFrame(op, given).pc # "native"
  BY RegistryAssumption DEF NewFrame, Frame
<1>3. Active' = Active
  BY <1>1, <1>2, ActivePush DEF Begin
<1>4. BoundTable' = BoundTable
  BY BoundSame DEF Begin
<1> QED BY <1>3, <1>4 DEF Stutters, Begin

LEMMA DefineStutters ==
  ASSUME Inv, DefineArgument \/ DefineArgumentFails \/ AlreadyDefined \/ DefineRejected
  PROVE  Stutters
<1>1. StackInv /\ Grows
  BY DefineArgumentStep, DefineArgumentFailsStep, AlreadyDefinedStep, DefineRejectedStep
     DEF Inv
<1>2. BoundTable' = BoundTable /\ exited' = exited
  BY BoundSame DEF DefineArgument, DefineArgumentFails, AlreadyDefined, DefineRejected
<1>3. stack # <<>> /\ Top.op = "define"
  BY DEF DefineArgument, DefineArgumentFails, AlreadyDefined, DefineRejected,
         AtDefineFunction, At
<1>4. Top \in Frame /\ Top.pc # "native"
  BY <1>1, <1>3, TopFrame DEF FrameOK
<1>5. CASE stack' = Pop
  BY <1>1, <1>2, <1>3, <1>4, <1>5, ActivePop DEF Stutters
<1>6. CASE DefineArgument
  <2>1. PICK g, K : ConvertsTo(g, K)
    BY <1>1, <1>6, ArgumentConverts
  <2>2. g \in Frame /\ g.pc # "native" /\ stack' = [stack EXCEPT ![Depth] = g]
    BY <2>1 DEF ConvertsTo, FrameOK, Converted
  <2>3. Active' = Active
    BY <1>1, <1>3, <1>4, <2>2, ActiveSet
  <2> QED BY <1>2, <2>3 DEF Stutters
<1> QED BY <1>5, <1>6 DEF DefineArgumentFails, AlreadyDefined, DefineRejected, DefineReturn

LEMMA CallFailsStutters ==
  ASSUME Inv, CallFails
  PROVE  Stutters
<1>1. StackInv /\ Grows
  BY CallFailsStep DEF Inv
<1>2. BoundTable' = BoundTable /\ exited' = exited
  BY BoundSame DEF CallFails
<1>3. stack # <<>> /\ Top.pc # "native" /\ stack' = Pop
  BY DEF CallFails, At, CallReturn
<1> QED BY <1>1, <1>2, <1>3, ActivePop DEF Stutters

LEMMA NoMemoryExits ==
  ASSUME NoMemory, ~exited
  PROVE  Table!Exit
BY DEF NoMemory, Table!Exit, Bound, find_function, Natives, Depth

\* A binding is a record, and NULL is none of those.
LEMMA BindingNotNull == \A b \in Binding : b # NULL
BY NullAssumption

\* DefineAdded binds a name without a binding.
LEMMA AddedBinds ==
  ASSUME Inv, [Next]_vars, DefineAdded
  PROVE  \E n \in Names, b \in Callable : Table!Bind(n, b)
<1>1. PICK a, node : Adds(a, node)
  BY AddedNode DEF Inv
<1>2. /\ TableInv /\ StackInv /\ TableInv' /\ Grows
      /\ Linked' = Linked \cup {a} /\ nodes'[a] = node
  BY <1>1, AddKeeps DEF Inv
<1>3. FindsLinked /\ FindsLinked'
  <2>1. TableInv' => FindsLinked'
    BY TableFindsLinked, PTL
  <2> QED BY <1>2, <2>1, TableFindsLinked
<1>4. /\ node.name \in Names /\ node.b \in Binding
      /\ Len(node.b.args) \in Nat /\ Len(node.b.args) <= MAX_PARAMETERS
      /\ \A x \in Linked : nodes[x].name # node.name
  BY <1>1 DEF Adds, Node
<1>5. node.b \in Callable
  <2>1. node.b.args \in [1..Len(node.b.args) -> FfiTypes] /\ Len(node.b.args) \in 0..MAX_PARAMETERS
    BY <1>4, LenProperties, RegistryAssumption DEF Binding
  <2>2. node.b.args \in UNION {[1..k -> FfiTypes] : k \in 0..MAX_PARAMETERS}
    BY <2>1
  <2> QED BY <1>4, <2>2 DEF Binding, Callable
<1>6. find_function(node.name) = NULL
  BY <1>3, <1>4 DEF FindsLinked
<1> DEFINE n == node.name
<1>7. Bound(n) = NULL
  BY <1>6 DEF Bound
<1>8. \A m \in Names : Bound(m)' = IF m = n THEN node.b ELSE Bound(m)
  <2> SUFFICES ASSUME NEW m \in Names
               PROVE  Bound(m)' = IF m = n THEN node.b ELSE Bound(m)
    OBVIOUS
  <2>1. CASE m = n
    <3>1. find_function(m)' = a
      BY <1>2, <1>3, <2>1 DEF FindsLinked
    <3>2. a # NULL
      BY <1>1, RegistryAssumption DEF Adds, FreeAddr
    <3> QED BY <1>2, <2>1, <3>1, <3>2 DEF Bound
  <2>2. CASE m # n /\ find_function(m) # NULL
    BY <2>2, BindingStays
  <2>3. CASE m # n /\ find_function(m) = NULL
    <3>1. \A x \in Linked : nodes[x].name # m
      BY <1>2, <2>3, FoundInTable
    <3>2. \A x \in Linked' : nodes'[x].name # m
      BY <1>2, <2>3, <3>1 DEF Grows
    <3>3. find_function(m)' = NULL
      BY <1>3, <3>2 DEF FindsLinked
    <3> QED BY <2>3, <3>3 DEF Bound
  <2> QED BY <2>1, <2>2, <2>3
<1>9. BoundTable' = [BoundTable EXCEPT ![n] = node.b] /\ BoundTable[n] = NULL
  BY <1>4, <1>7, <1>8 DEF BoundTable
<1>10. Active' = Active /\ ~exited /\ exited' = exited
  <2>1. stack # <<>> /\ Top.op = "define" /\ stack' = Pop /\ ~exited /\ exited' = exited
    BY DEF DefineAdded, AtDefineFunction, At, DefineReturn
  <2>2. Top.pc # "native"
    BY <1>2, <2>1, TopFrame DEF FrameOK
  <2> QED BY <1>2, <2>1, <2>2, ActivePop
<1>11. Table!Bind(n, node.b)
  BY <1>9, <1>10 DEF Table!Bind, BoundTable, Active
<1> QED BY <1>4, <1>5, <1>11

LEMMA NativeInvokes ==
  ASSUME Inv, DepthBounded, CallNative
  PROVE  \E c \in 1..MaxDepth, n \in Names : Table!Invoke(c, n)
<1>1. /\ stack # <<>> /\ Top.pc = "argv0" /\ ~exited /\ exited' = exited
      /\ UNCHANGED <<list, nodes>> /\ Top \in Frame
  BY TopFrame DEF CallNative, At, Inv
<1>2. PICK n \in Names, k \in 0..Reached(Top) :
        /\ find_function(n) # NULL
        /\ stack' = [stack EXCEPT ![Depth] =
                       [CallLocals(n, k) EXCEPT !.node = find_function(n), !.pc = "native"]]
  BY DEF CallNative
<1> DEFINE f == [CallLocals(n, k) EXCEPT !.node = find_function(n), !.pc = "native"]
<1>3. find_function(n) \in Addr
  BY <1>2, FoundInTable, BlockAddresses DEF Inv
<1>4. f \in Frame /\ f.pc = "native" /\ f.node = find_function(n)
  <2>1. CallLocals(n, k) \in Frame
    <3>1. k \in Nat /\ CallLocals(n, k) = [Top EXCEPT !.name = n, !.fl = k]
      BY DEF CallLocals
    <3> QED BY <1>1, <3>1 DEF Frame
  <2> QED BY <1>3, <2>1 DEF Frame
<1>5. stack' = [stack EXCEPT ![Depth] = f]
  BY <1>2
<1> HIDE DEF f
<1>6. /\ Depth' = Depth /\ Depth \in Nat \ {0} /\ stack[Depth] = Top
      /\ stack'[Depth] = f /\ \A d \in 1..(Depth - 1) : stack'[d] = stack[d]
  BY <1>1, <1>4, <1>5, Replaced, EmptySeq DEF Inv, StackInv, Depth, Top
<1>7. Depth \in 1..Depth /\ \A d \in 1..Depth : d \in 1..(Depth - 1) \/ d = Depth
  BY <1>6
<1>8. \A d : d \in Natives' <=> d \in Natives \/ d = Depth
  BY <1>1, <1>4, <1>6, <1>7 DEF Natives
<1>9. Depth \notin Natives /\ \A d \in Natives : stack'[d] = stack[d]
  BY <1>1, <1>6, <1>7 DEF Natives
<1>10. Bound(n) # NULL /\ nodes'[stack'[Depth].node].b = Bound(n) /\ BoundTable[n] = Bound(n)
  <2>1. Bound(n) = nodes[find_function(n)].b
    BY <1>2 DEF Bound
  <2>2. find_function(n) \in DOMAIN nodes
    BY <1>2, FoundInTable DEF Inv, TableInv, Ledger
  <2>3. nodes[find_function(n)].b # NULL
    BY <2>2, BindingNotNull DEF Inv, TableInv, Node
  <2> QED BY <1>1, <1>4, <1>6, <2>1, <2>3 DEF BoundTable
<1>11. Active' = Active \cup {<<Depth, BoundTable[n]>>}
  <2>1. \A d \in Natives : nodes'[stack'[d].node].b = nodes[stack[d].node].b
    BY <1>1, <1>9
  <2>2. Active' = {<<d, nodes'[stack'[d].node].b>> : d \in Natives'}
    BY DEF Active
  <2> QED BY <1>8, <1>10, <2>1, <2>2 DEF Active
<1>12. \A x \in Active : x[1] # Depth
  BY <1>9 DEF Active
<1>13. Depth \in 1..MaxDepth
  BY <1>6, RegistryAssumption DEF DepthBounded
<1>14. BoundTable' = BoundTable
  BY <1>1, BoundSame
<1>15. Table!Invoke(Depth, n)
  BY <1>1, <1>10, <1>11, <1>12, <1>14 DEF Table!Invoke, BoundTable, Active
<1> QED BY <1>13, <1>15

LEMMA FunctionReturns ==
  ASSUME Inv, DepthBounded, CallFunctionReturns
  PROVE  \E c \in 1..MaxDepth : Table!Return(c)
<1>1. /\ stack # <<>> /\ Top.pc = "native" /\ ~exited /\ exited' = exited
      /\ UNCHANGED <<list, nodes>> /\ stack' = Pop
  BY DEF CallFunctionReturns, At, CallReturn
<1>2. /\ Depth' = Depth - 1 /\ Depth \in Nat \ {0} /\ stack[Depth] = Top
      /\ \A d \in 1..(Depth - 1) : stack'[d] = stack[d]
  BY <1>1, Popped, EmptySeq DEF Inv, StackInv, Depth, Top, Pop
<1>3. Depth \in 1..Depth /\ Depth \notin 1..(Depth - 1)
      /\ \A d \in 1..Depth : d \in 1..(Depth - 1) \/ d = Depth
  BY <1>2
<1>4. \A d : d \in Natives' <=> d \in Natives /\ d # Depth
  BY <1>2, <1>3 DEF Natives
<1>5. Depth \in Natives
  BY <1>1, <1>2, <1>3 DEF Natives
<1>6. \A d \in Natives' : nodes'[stack'[d].node].b = nodes[stack[d].node].b
  BY <1>1, <1>2, <1>3, <1>4 DEF Natives
<1> DEFINE x == <<Depth, nodes[stack[Depth].node].b>>
<1>7. x \in Active
  BY <1>5 DEF Active
<1>8. Active' = Active \ {x}
  <2>1. Active' = {<<d, nodes'[stack'[d].node].b>> : d \in Natives'}
    BY DEF Active
  <2> QED BY <1>4, <1>6, <2>1 DEF Active
<1>9. Depth \in 1..MaxDepth
  BY <1>2, RegistryAssumption DEF DepthBounded
<1>10. BoundTable' = BoundTable
  BY <1>1, BoundSame
<1>11. x[1] = Depth
  OBVIOUS
<1> HIDE DEF x
<1>12. Table!Return(Depth)
  BY <1>1, <1>7, <1>8, <1>10, <1>11 DEF Table!Return, BoundTable, Active
<1> QED BY <1>9, <1>12 DEF Table!Return

\* FfiRegistry implements Bindings: define() makes the entry of its name once and
\* for all, a native call keeps the binding it was looked up with.
THEOREM ImplementsBindings == Spec => TableSpec
<1>1. Init => Table!Init
  BY DEF Init, Table!Init, Bound, find_function, Natives, Depth
<1>2. ASSUME Inv, DepthBounded, [Next]_vars
      PROVE  [Table!Next]_Table!vars
  <2>1. CASE Stutters
    BY <2>1 DEF Stutters, Table!vars, BoundTable, Active
  <2>2. CASE UNCHANGED vars
    <3>1. Stutters
      BY <2>2, BoundSame DEF vars, Stutters, Active, Natives, Depth
    <3> QED BY <2>1, <3>1
  <2>3. CASE \E op \in {"define", "call"}, given \in 0..MaxArgs : Begin(op, given)
    BY <1>2, <2>1, <2>3, BeginStutters
  <2>4. CASE Define
    <3>1. CASE DefineNoMemory
      BY <3>1, NoMemoryExits DEF DefineNoMemory, AtDefineFunction, At, Table!Next
    <3>2. CASE DefineAdded
      BY <1>2, <3>2, AddedBinds DEF Table!Next
    <3> QED BY <1>2, <2>1, <2>4, <3>1, <3>2, DefineStutters DEF Define
  <2>5. CASE Call
    <3>1. CASE CallNoMemory
      BY <3>1, NoMemoryExits DEF CallNoMemory, At, Table!Next
    <3>2. CASE CallNative
      BY <1>2, <3>2, NativeInvokes DEF Table!Next
    <3>3. CASE CallFunctionReturns
      BY <1>2, <3>3, FunctionReturns DEF Table!Next
    <3> QED BY <1>2, <2>1, <2>5, <3>1, <3>2, <3>3, CallFailsStutters DEF Call
  <2> QED BY <1>2, <2>2, <2>3, <2>4, <2>5 DEF Next, Terminated
<1> QED BY <1>1, <1>2, SpecInv, DepthInv, PTL DEF Spec, TableSpec, Table!Spec
=============================================================================
