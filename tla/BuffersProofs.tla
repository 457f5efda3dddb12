--------------------------- MODULE BuffersProofs ---------------------------
(***************************************************************************)
(* The buffers say what is meant: what the kernel finds in an fd_set of    *)
(* any size and in each struct, how many descriptors select() watches, and *)
(* where toPointer() points to, for words and buffers of any size.         *)
(***************************************************************************)
EXTENDS Buffers, FiniteSetTheorems, WellFoundedInduction, TLAPS

\* Every set of natural numbers has a least element, by the library's theorem on
\* well-founded relations.
LEMMA Least ==
  ASSUME NEW T \in SUBSET Nat, T # {}
  PROVE  \E x \in T : \A y \in T : x <= y
<1>1. PICK x \in T : \A y \in T : ~ (<<y, x>> \in OpToRel(<, Nat))
  BY NatLessThanWellFounded, WFMin
<1>2. \A y \in T : ~(y < x)
  BY <1>1 DEF OpToRel
<1> QED BY <1>2

\* Max is what it says of sets of descriptors.
LEMMA Highest ==
  ASSUME NEW n \in Nat, NEW T \in SUBSET (0..n), T # {}
  PROVE  Max(T) \in T /\ \A x \in T : x <= Max(T)
<1> DEFINE U == {u \in Nat : \A x \in T : x <= u}
<1>1. n \in U
  OBVIOUS
<1>2. PICK u \in U : \A v \in U : u <= v
  BY <1>1, Least
<1>3. u \in T
  <2> SUFFICES ASSUME u \notin T PROVE FALSE
    OBVIOUS
  <2>1. \A x \in T : x <= u - 1 /\ x \in Nat
    BY <1>2
  <2>2. PICK x \in T : TRUE
    OBVIOUS
  <2>3. u \in Nat /\ u - 1 \in Nat
    BY <1>2, <2>1, <2>2
  <2>4. u - 1 \in U
    BY <2>1, <2>3
  <2> QED BY <1>2, <2>3, <2>4
<1>4. \E x \in T : \A y \in T : x >= y
  BY <1>2, <1>3
<1>5. Max(T) \in T /\ \A y \in T : Max(T) >= y
  BY <1>4, Zenon DEF Max
<1> QED BY <1>5

-----------------------------------------------------------------------------
(* toPointer *)

Offsets == (-HalfWord)..(HalfWord - 1)

\* The word of a number that one word more or less brings into range.
LEMMA Modulo ==
  ASSUME NEW m \in Nat \ {0}, NEW n \in Int
  PROVE  /\ n \in 0..(m - 1) => n % m = n
         /\ n \in (-m)..(-1) => n % m = n + m
         /\ n \in m..(2 * m - 1) => n % m = n - m
OBVIOUS

\* The arithmetic of toPointer() comes to the place that is meant.
LEMMA PlaceExact ==
  ASSUME NEW size \in 0..(HalfWord - 1), NEW off \in Offsets
  PROVE  Place(size, off) =
           LET at == IF off < 0 THEN size + off ELSE off
           IN  IF at \in 0..size THEN at ELSE NaN
<1>1. HalfWord \in Nat \ {0} /\ Word \in Nat \ {0} /\ Word = 2 * HalfWord
  BY BuffersAssumption DEF Word
<1>2. size \in Int /\ off \in Int /\ size >= 0 /\ size < HalfWord
      /\ off >= -HalfWord /\ off < HalfWord
  BY <1>1 DEF Offsets
<1>3. CASE off >= 0
  <2>1. AsUnsigned(off) = off
    BY <1>1, <1>2, <1>3, Modulo DEF AsUnsigned
  <2> QED BY <1>2, <1>3, <2>1 DEF Place
<1>4. CASE off < 0
  <2>1. AsUnsigned(off) = off + Word
    <3>1. off \in (-Word)..(-1)
      BY <1>1, <1>2, <1>4
    <3> QED BY <1>1, <1>2, <3>1, Modulo DEF AsUnsigned
  <2>2. AsSigned(off + Word + size) = off + size
    <3> SUFFICES ASSUME NEW n \in Int, n = off + Word + size PROVE AsSigned(n) = off + size
      BY <1>1, <1>2
    <3>1. n >= HalfWord /\ n < Word + HalfWord
      BY <1>1, <1>2, <1>4
    <3>2. CASE n < Word
      <4>1. n % Word = n
        <5>1. n \in 0..(Word - 1)
          BY <1>1, <3>1, <3>2
        <5> QED BY <1>1, <5>1, Modulo
      <4> QED BY <1>1, <1>2, <3>1, <4>1 DEF AsSigned
    <3>3. CASE n >= Word
      <4>1. n % Word = n - Word
        BY <1>1, <3>1, <3>3, Modulo
      <4>2. n - Word = off + size /\ n - Word < HalfWord
        BY <1>1, <1>2, <1>4
      <4>3. AsSigned(n) = n - Word
        <5>1. n % Word = n - Word /\ n - Word < HalfWord
          BY <4>1, <4>2
        <5> QED BY <1>1, <5>1 DEF AsSigned
      <4> QED BY <4>2, <4>3
    <3> QED BY <1>1, <3>2, <3>3
  <2>3. CASE off + size >= 0
    <3>1. off + size \in 0..(Word - 1)
      BY <1>1, <1>2, <1>4, <2>3
    <3>2. AsUnsigned(off + size) = off + size
      BY <1>1, <3>1, Modulo DEF AsUnsigned
    <3> QED BY <1>2, <1>4, <2>1, <2>2, <2>3, <3>2 DEF Place
  <2>4. CASE off + size < 0
    BY <1>2, <1>4, <2>1, <2>2, <2>4 DEF Place
  <2> QED BY <1>2, <2>3, <2>4
<1> QED BY <1>2, <1>3, <1>4

\* A buffer given to toPointer() stays as it is, and its size is that of an object.
PointerInv ==
  kind = "toPointer" => Len(bufs[1]) \in 0..(HalfWord - 1) /\ meant[1] \in Offsets

\* It holds at first, and in every step.
LEMMA InitInv == Init => PointerInv
<1> SUFFICES ASSUME Init, kind = "toPointer" PROVE PointerInv
  BY DEF PointerInv
<1>1. PICK size \in Sizes, off \in Offsets : bufs = <<Zeros(size)>> /\ meant = <<off>>
  BY DEF Init, Structs, byteLength, Offsets
<1>2. size \in 0..(HalfWord - 1) /\ size \in Nat
  BY BuffersAssumption
<1>3. Len(Zeros(size)) = size
  BY <1>2 DEF Zeros
<1> QED BY <1>1, <1>2, <1>3 DEF PointerInv

LEMMA NextInv == PointerInv /\ [Next]_vars => PointerInv'
<1> SUFFICES ASSUME PointerInv, [Next]_vars PROVE PointerInv'
  OBVIOUS
<1>1. kind' = kind
  BY DEF Next, vars, SetBit, ClearBit, Zero, SetField, SetAddress, SetChars
<1>2. kind = "toPointer" => bufs' = bufs /\ meant' = meant
  BY DEF Next, vars, SetBit, ClearBit, Zero, SetField, SetAddress, SetChars, Structs, byteLength,
         c_cc
<1> QED BY <1>1, <1>2 DEF PointerInv

\* toPointer() points into its buffer or just behind it, whatever the width of a
\* word, the size of the buffer and the offset, or throws.
THEOREM PointersInside == Spec => []PointerInside
<1>1. PointerInv => PointerInside
  BY PlaceExact DEF PointerInv, PointerInside
<1> QED BY InitInv, NextInv, <1>1, PTL DEF Spec

-----------------------------------------------------------------------------
(* fd_set *)

Powers == {1, 2, 4, 8, 16, 32, 64, 128}

\* The bits of a byte and their powers of two.
PowerTable == {<<0, 1>>, <<1, 2>>, <<2, 4>>, <<3, 8>>, <<4, 16>>, <<5, 32>>, <<6, 64>>, <<7, 128>>}

\* The bits of a byte and their values.
LEMMA PowerOf == \A j \in 0..7 : <<j, 2^j>> \in PowerTable
<1> TAKE j \in 0..7
<1>1. /\ 2^0 = 1 /\ 2^1 = 2 /\ 2^2 = 4 /\ 2^3 = 8
      /\ 2^4 = 16 /\ 2^5 = 32 /\ 2^6 = 64 /\ 2^7 = 128
  BY SMT
<1>2. j = 0 \/ j = 1 \/ j = 2 \/ j = 3 \/ j = 4 \/ j = 5 \/ j = 6 \/ j = 7
  BY SMT
<1>3. /\ <<0, 2^0>> \in PowerTable /\ <<1, 2^1>> \in PowerTable
      /\ <<2, 2^2>> \in PowerTable /\ <<3, 2^3>> \in PowerTable
      /\ <<4, 2^4>> \in PowerTable /\ <<5, 2^5>> \in PowerTable
      /\ <<6, 2^6>> \in PowerTable /\ <<7, 2^7>> \in PowerTable
  BY <1>1, Zenon DEF PowerTable
<1> QED BY <1>2, <1>3, Zenon

\* Different bits have different values.
LEMMA PowersDiffer ==
  ASSUME NEW j \in 0..7, NEW k \in 0..7
  PROVE  2^j \in Powers /\ (2^j = 2^k <=> j = k)
<1>1. ASSUME NEW m, NEW n, <<j, m>> \in PowerTable, <<k, n>> \in PowerTable
      PROVE  m \in Powers /\ (m = n <=> j = k)
  BY <1>1 DEF Powers, PowerTable
<1> QED BY <1>1, PowerOf, Zenon

\* Taking away the power of a bit that is set, or adding that of one that is not,
\* changes this bit alone.
LEMMA BitTaken ==
  ASSUME NEW b \in 0..255, NEW n \in Powers
  PROVE  \A m \in Powers : (b \div m) % 2 = 1 =>
           b - m \in 0..255 /\ (((b - m) \div n) % 2 = 1 <=> n # m /\ (b \div n) % 2 = 1)
<1> DEFINE Byte(p) == (b \div p) % 2 = 1 => b - p \in 0..255
           Fits(p) == (b \div p) % 2 = 1 => (((b - p) \div n) % 2 = 1 <=> n # p /\ (b \div n) % 2 = 1)
<1>0. Byte(1) /\ Byte(2) /\ Byte(4) /\ Byte(8) /\ Byte(16) /\ Byte(32) /\ Byte(64) /\ Byte(128)
  OBVIOUS
<1>1. Fits(1)
  BY SMTT(60) DEF Powers
<1>2. Fits(2)
  BY SMTT(60) DEF Powers
<1>3. Fits(4)
  BY SMTT(60) DEF Powers
<1>4. Fits(8)
  BY SMTT(60) DEF Powers
<1>5. Fits(16)
  BY SMTT(60) DEF Powers
<1>6. Fits(32)
  BY SMTT(60) DEF Powers
<1>7. Fits(64)
  BY SMTT(60) DEF Powers
<1>8. Fits(128)
  BY SMTT(60) DEF Powers
<1> HIDE DEF Byte, Fits
<1>9. \A p \in Powers : Byte(p) /\ Fits(p)
  BY <1>0, <1>1, <1>2, <1>3, <1>4, <1>5, <1>6, <1>7, <1>8 DEF Powers
<1> QED BY <1>9, Zenon DEF Byte, Fits

\* A bit that is added is there, and the others are as before.
LEMMA BitAdded ==
  ASSUME NEW b \in 0..255, NEW n \in Powers
  PROVE  \A m \in Powers : (b \div m) % 2 # 1 =>
           b + m \in 0..255 /\ (((b + m) \div n) % 2 = 1 <=> n = m \/ (b \div n) % 2 = 1)
<1> DEFINE Byte(p) == (b \div p) % 2 # 1 => b + p \in 0..255
           Fits(p) == (b \div p) % 2 # 1 => (((b + p) \div n) % 2 = 1 <=> n = p \/ (b \div n) % 2 = 1)
<1>0. Byte(1) /\ Byte(2) /\ Byte(4) /\ Byte(8) /\ Byte(16) /\ Byte(32) /\ Byte(64) /\ Byte(128)
  OBVIOUS
<1>1. Fits(1)
  BY SMTT(60) DEF Powers
<1>2. Fits(2)
  BY SMTT(60) DEF Powers
<1>3. Fits(4)
  BY SMTT(60) DEF Powers
<1>4. Fits(8)
  BY SMTT(60) DEF Powers
<1>5. Fits(16)
  BY SMTT(60) DEF Powers
<1>6. Fits(32)
  BY SMTT(60) DEF Powers
<1>7. Fits(64)
  BY SMTT(60) DEF Powers
<1>8. Fits(128)
  BY SMTT(60) DEF Powers
<1> HIDE DEF Byte, Fits
<1>9. \A p \in Powers : Byte(p) /\ Fits(p)
  BY <1>0, <1>1, <1>2, <1>3, <1>4, <1>5, <1>6, <1>7, <1>8 DEF Powers
<1> QED BY <1>9, Zenon DEF Byte, Fits

\* The same of the bits of a byte in a set.
LEMMA BitsApart ==
  ASSUME NEW b \in 0..255, NEW j \in 0..7, NEW k \in 0..7
  PROVE  /\ HasBit(b, j) =>
              b - 2^j \in 0..255 /\ (HasBit(b - 2^j, k) <=> k # j /\ HasBit(b, k))
         /\ ~HasBit(b, j) =>
              b + 2^j \in 0..255 /\ (HasBit(b + 2^j, k) <=> k = j \/ HasBit(b, k))
<1>1. 2^j \in Powers /\ 2^k \in Powers /\ (2^k = 2^j <=> k = j)
  BY PowersDiffer
<1>2. (b \div 2^j) % 2 = 1 =>
        b - 2^j \in 0..255 /\ (((b - 2^j) \div 2^k) % 2 = 1 <=> 2^k # 2^j /\ (b \div 2^k) % 2 = 1)
  BY <1>1, BitTaken, ZenonT(40)
<1>3. (b \div 2^j) % 2 # 1 =>
        b + 2^j \in 0..255 /\ (((b + 2^j) \div 2^k) % 2 = 1 <=> 2^k = 2^j \/ (b \div 2^k) % 2 = 1)
  BY <1>1, BitAdded, Zenon
<1> QED BY <1>1, <1>2, <1>3, Zenon DEF HasBit

\* A set has a whole number of bytes.
Bytes == FD_SETSIZE \div 8
Sets == [1..Bytes -> 0..255]

\* An fd_set is made of whole bytes.
LEMMA WholeBytes == Bytes \in Nat \ {0} /\ FD_SETSIZE = 8 * Bytes
BY BuffersAssumption DEF Bytes

\* The place of a descriptor, and the descriptor of a place.
LEMMA Places ==
  ASSUME NEW n \in 0..(FD_SETSIZE - 1)
  PROVE  n \div 8 + 1 \in 1..Bytes /\ n % 8 \in 0..7 /\ n = 8 * ((n \div 8 + 1) - 1) + (n % 8)
<1>1. Bytes \in Nat /\ n \in Int /\ 0 <= n /\ n < 8 * Bytes
  BY WholeBytes
<1>2. n \div 8 \in Int /\ n % 8 \in 0..7 /\ n = 8 * (n \div 8) + (n % 8)
  BY <1>1
<1> QED BY <1>1, <1>2

\* Each bit of a buffer is the place of one descriptor.
LEMMA Descriptor ==
  ASSUME NEW p \in 1..Bytes, NEW j \in 0..7
  PROVE  /\ 8 * (p - 1) + j \in 0..(FD_SETSIZE - 1)
         /\ (8 * (p - 1) + j) \div 8 + 1 = p /\ (8 * (p - 1) + j) % 8 = j
BY WholeBytes

\* What the getter array finds in a set.
LEMMA Members ==
  ASSUME NEW s \in Sets
  PROVE  array(s) = {n \in 0..(FD_SETSIZE - 1) : HasBit(s[n \div 8 + 1], n % 8)}
<1>1. ASSUME NEW n \in array(s)
      PROVE  n \in 0..(FD_SETSIZE - 1) /\ HasBit(s[n \div 8 + 1], n % 8)
  <2>1. PICK y \in (1..Bytes) \X (0..7) : HasBit(s[y[1]], y[2]) /\ n = 8 * (y[1] - 1) + y[2]
    BY <1>1 DEF array, Sets
  <2>2. y[1] \in 1..Bytes /\ y[2] \in 0..7
    BY <2>1
  <2>3. n \in 0..(FD_SETSIZE - 1) /\ n \div 8 + 1 = y[1] /\ n % 8 = y[2]
    BY <2>1, <2>2, Descriptor
  <2> QED BY <2>1, <2>3
<1>2. ASSUME NEW n \in 0..(FD_SETSIZE - 1), HasBit(s[n \div 8 + 1], n % 8)
      PROVE  n \in array(s)
  <2> DEFINE y == <<n \div 8 + 1, n % 8>>
  <2>1. y \in (1..Bytes) \X (0..7) /\ n = 8 * (y[1] - 1) + y[2]
    BY Places
  <2>2. HasBit(s[y[1]], y[2])
    BY <1>2
  <2>3. y \in {z \in (DOMAIN s) \X (0..7) : HasBit(s[z[1]], z[2])}
    BY <2>1, <2>2 DEF Sets
  <2> QED BY <2>1, <2>3 DEF array
<1> QED BY <1>1, <1>2

\* A set of which one byte is replaced, by one that differs in one bit.
Replaced(s, e, c) == [s EXCEPT ![e \div 8 + 1] = c]
Differs(s, e, c, on) ==
  \A k \in 0..7 : HasBit(c, k) <=> IF k = e % 8 THEN on ELSE HasBit(s[e \div 8 + 1], k)

LEMMA ByteReplaced ==
  ASSUME NEW s \in Sets, NEW e \in 0..(FD_SETSIZE - 1), NEW c \in 0..255, NEW on \in BOOLEAN,
         Differs(s, e, c, on)
  PROVE  /\ Replaced(s, e, c) \in Sets
         /\ on => array(Replaced(s, e, c)) = array(s) \cup {e}
         /\ ~on => array(Replaced(s, e, c)) = array(s) \ {e}
<1> DEFINE t == [s EXCEPT ![e \div 8 + 1] = c]
<1>1. e \div 8 + 1 \in 1..Bytes
  BY Places
<1>2. t \in Sets
  BY <1>1 DEF Sets
<1>3. ASSUME NEW n \in 0..(FD_SETSIZE - 1)
      PROVE  n \in array(t) <=> IF n = e THEN on ELSE n \in array(s)
  <2>1. /\ n \in array(s) <=> HasBit(s[n \div 8 + 1], n % 8)
        /\ n \in array(t) <=> HasBit(t[n \div 8 + 1], n % 8)
    BY <1>2, Members
  <2>2. n \div 8 + 1 \in 1..Bytes /\ n % 8 \in 0..7
    BY Places
  <2>3. CASE n \div 8 = e \div 8
    <3>1. t[n \div 8 + 1] = c
      BY <1>1, <2>3 DEF Sets
    <3>2. n = e <=> n % 8 = e % 8
      BY <2>3
    <3> QED BY <2>1, <2>2, <2>3, <3>1, <3>2 DEF Differs
  <2>4. CASE n \div 8 # e \div 8
    <3>1. n \div 8 + 1 # e \div 8 + 1 /\ n # e
      BY <2>4
    <3>2. t[n \div 8 + 1] = s[n \div 8 + 1]
      BY <1>1, <2>2, <3>1 DEF Sets
    <3> QED BY <2>1, <3>1, <3>2
  <2> QED BY <2>3, <2>4
<1>4. array(t) \subseteq 0..(FD_SETSIZE - 1) /\ array(s) \subseteq 0..(FD_SETSIZE - 1)
  BY <1>2, Members
<1> HIDE DEF t
<1>5. (on => array(t) = array(s) \cup {e}) /\ (~on => array(t) = array(s) \ {e})
  BY <1>3, <1>4
<1> QED BY <1>2, <1>5 DEF t, Replaced

\* FD_SET and FD_CLR do to the bytes what is meant by them.
LEMMA SettingOne ==
  ASSUME NEW s \in Sets, NEW d \in Int, InSet(d)
  PROVE  Setting(d, s) \in Sets /\ array(Setting(d, s)) = FD_SET(d, array(s))
<1> DEFINE e == Bit(d)
           b == s[e \div 8 + 1]
           j == e % 8
           c == b + 2^j
<1>1. e \in 0..(FD_SETSIZE - 1)
  BY WholeBytes DEF InSet, Bit, NaN
<1>2. e \div 8 + 1 \in 1..Bytes /\ j \in 0..7 /\ b \in 0..255
  BY <1>1, Places DEF Sets
<1>3. Setting(d, s) = IF HasBit(b, j) THEN s ELSE [s EXCEPT ![e \div 8 + 1] = c]
  BY DEF Setting, Position
<1>4. ~HasBit(b, j) => c \in 0..255 /\ \A k \in 0..7 : HasBit(c, k) <=> k = j \/ HasBit(b, k)
  <2> HIDE DEF b, j
  <2> QED BY <1>2, BitsApart, ZenonT(40)
<1> HIDE DEF c
<1>5. CASE HasBit(b, j)
  <2>1. e \in array(s)
    BY <1>1, <1>5, Members
  <2> QED BY <1>3, <1>5, <2>1 DEF FD_SET
<1>6. CASE ~HasBit(b, j)
  <2>1. Differs(s, e, c, TRUE)
    BY <1>4, <1>6 DEF Differs
  <2>2. c \in 0..255
    BY <1>4, <1>6
  <2>3. Replaced(s, e, c) \in Sets /\ array(Replaced(s, e, c)) = array(s) \cup {e}
    <3> HIDE DEF e
    <3> QED BY <1>1, <2>1, <2>2, ByteReplaced, Zenon
  <2> QED BY <1>3, <1>6, <2>3 DEF FD_SET, Replaced
<1> QED BY <1>5, <1>6

\* FD_CLR takes one member away.
LEMMA ClearingOne ==
  ASSUME NEW s \in Sets, NEW d \in Int, InSet(d)
  PROVE  Clearing(d, s) \in Sets /\ array(Clearing(d, s)) = FD_CLR(d, array(s))
<1> DEFINE e == Bit(d)
           b == s[e \div 8 + 1]
           j == e % 8
           c == b - 2^j
<1>1. e \in 0..(FD_SETSIZE - 1)
  BY WholeBytes DEF InSet, Bit, NaN
<1>2. e \div 8 + 1 \in 1..Bytes /\ j \in 0..7 /\ b \in 0..255
  BY <1>1, Places DEF Sets
<1>3. Clearing(d, s) = IF HasBit(b, j) THEN [s EXCEPT ![e \div 8 + 1] = c] ELSE s
  BY DEF Clearing, Position
<1>4. HasBit(b, j) => c \in 0..255 /\ \A k \in 0..7 : HasBit(c, k) <=> k # j /\ HasBit(b, k)
  <2> HIDE DEF b, j
  <2> QED BY <1>2, BitsApart, ZenonT(40)
<1> HIDE DEF c
<1>5. CASE ~HasBit(b, j)
  <2>1. e \notin array(s)
    BY <1>1, <1>5, Members
  <2> QED BY <1>3, <1>5, <2>1 DEF FD_CLR
<1>6. CASE HasBit(b, j)
  <2>1. Differs(s, e, c, FALSE)
    BY <1>4, <1>6 DEF Differs
  <2>2. c \in 0..255
    BY <1>4, <1>6
  <2>3. Replaced(s, e, c) \in Sets /\ array(Replaced(s, e, c)) = array(s) \ {e}
    <3> HIDE DEF e
    <3> QED BY <1>1, <2>1, <2>2, ByteReplaced, Zenon
  <2> QED BY <1>3, <1>6, <2>3 DEF FD_CLR, Replaced
<1> QED BY <1>5, <1>6

\* Both buffers are sets whose members are the descriptors meant.
SetsInv ==
  kind = "fd_set" =>
    /\ bufs \in [{1, 2} -> Sets] /\ DOMAIN meant = {1, 2}
    /\ \A i \in {1, 2} : array(bufs[i]) = meant[i]

\* A buffer of zeros has no member.
LEMMA NoMembers == Zeros(Bytes) \in Sets /\ array(Zeros(Bytes)) = {}
<1>1. Zeros(Bytes) \in Sets
  BY DEF Zeros, Sets
<1>2. ASSUME NEW j \in 0..7 PROVE ~HasBit(0, j)
  <2>1. ASSUME NEW m \in Powers PROVE (0 \div m) % 2 # 1
    BY DEF Powers
  <2>2. 2^j \in Powers
    BY PowersDiffer
  <2> QED BY <2>1, <2>2, Zenon DEF HasBit
<1>3. \A n \in 0..(FD_SETSIZE - 1) : Zeros(Bytes)[n \div 8 + 1] = 0 /\ n % 8 \in 0..7
  BY Places DEF Zeros
<1> QED BY <1>1, <1>2, <1>3, Members

LEMMA SetsInit == Init => SetsInv
<1> SUFFICES ASSUME Init, kind = "fd_set" PROVE SetsInv
  BY DEF SetsInv
<1>1. bufs = <<Zeros(Bytes), Zeros(Bytes)>> /\ meant = <<{}, {}>>
  BY DEF Init, Structs, byteLength, Bytes
<1> QED BY <1>1, NoMembers DEF SetsInv

LEMMA SetsNext == SetsInv /\ [Next]_vars => SetsInv'
<1> SUFFICES ASSUME SetsInv, [Next]_vars, kind' = "fd_set" PROVE SetsInv'
  BY DEF SetsInv
<1>0. kind = "fd_set"
  BY DEF Next, vars, SetBit, ClearBit, Zero, SetField, SetAddress, SetChars
<1> USE <1>0
<1>1. ASSUME NEW i \in {1, 2}, NEW d \in Descriptors, SetBit(i, d)
      PROVE  SetsInv'
  <2>1. d \in Int /\ InSet(d) /\ bufs[i] \in Sets
    BY <1>1, BuffersAssumption DEF SetBit, SetsInv
  <2>2. Setting(d, bufs[i]) \in Sets /\ array(Setting(d, bufs[i])) = FD_SET(d, array(bufs[i]))
    BY <2>1, SettingOne
  <2>3. bufs' = [bufs EXCEPT ![i] = Setting(d, bufs[i])] /\ meant' = [meant EXCEPT ![i] = FD_SET(d, meant[i])]
    BY <1>1 DEF SetBit
  <2> QED BY <2>2, <2>3 DEF SetsInv
<1>2. ASSUME NEW i \in {1, 2}, NEW d \in Descriptors, ClearBit(i, d)
      PROVE  SetsInv'
  <2>1. d \in Int /\ InSet(d) /\ bufs[i] \in Sets
    BY <1>2, BuffersAssumption DEF ClearBit, SetsInv
  <2>2. Clearing(d, bufs[i]) \in Sets /\ array(Clearing(d, bufs[i])) = FD_CLR(d, array(bufs[i]))
    BY <2>1, ClearingOne
  <2>3. bufs' = [bufs EXCEPT ![i] = Clearing(d, bufs[i])] /\ meant' = [meant EXCEPT ![i] = FD_CLR(d, meant[i])]
    BY <1>2 DEF ClearBit
  <2> QED BY <2>2, <2>3 DEF SetsInv
<1>3. ASSUME NEW i \in {1, 2}, Zero(i)
      PROVE  SetsInv'
  <2>1. Len(bufs[i]) = Bytes
    BY WholeBytes DEF SetsInv, Sets
  <2>2. bufs' = [bufs EXCEPT ![i] = Zeros(Bytes)] /\ meant' = [meant EXCEPT ![i] = {}]
    BY <1>3, <2>1 DEF Zero
  <2> QED BY <2>2, NoMembers DEF SetsInv
<1>4. CASE UNCHANGED vars
  BY <1>4 DEF vars, SetsInv
<1>5. kind \notin Structs /\ kind \notin DOMAIN c_cc /\ kind # "sockaddr_in"
  BY DEF Structs, byteLength, c_cc
<1> QED BY <1>1, <1>2, <1>3, <1>4, <1>5 DEF Next, SetField, SetAddress, SetChars

\* select() without nfds watches all members of its sets, of which there may be
\* any, and none when one of the sets is empty.
THEOREM NfdsIsEnough == Spec => []NfdsCovers
<1>1. SetsInv => NfdsCovers
  <2> SUFFICES ASSUME SetsInv, kind = "fd_set" PROVE NfdsCovers
    BY DEF NfdsCovers
  <2>1. \A i \in {1, 2} : bufs[i] \in Sets /\ array(bufs[i]) = meant[i]
    BY DEF SetsInv
  <2>2. \A i \in {1, 2} : meant[i] \subseteq 0..(FD_SETSIZE - 1)
    BY <2>1, Members
  <2>3. FD_SETSIZE - 1 \in Nat
    BY BuffersAssumption
  <2>4. ASSUME NEW i \in {1, 2}
        PROVE  /\ meant[i] = {} => maxfd(bufs[i]) = NaN
               /\ meant[i] # {} => /\ maxfd(bufs[i]) \in Nat
                                  /\ \A d \in meant[i] : d <= maxfd(bufs[i])
    <3>1. CASE meant[i] = {}
      BY <2>1, <3>1 DEF maxfd
    <3>2. CASE meant[i] # {}
      <4>1. Max(meant[i]) \in meant[i] /\ \A d \in meant[i] : d <= Max(meant[i])
        BY <2>2, <2>3, <3>2, Highest
      <4>2. Max(meant[i]) \in Nat
        BY <2>2, <2>3, <4>1
      <4> QED BY <2>1, <3>2, <4>1, <4>2 DEF maxfd
    <3> QED BY <3>1, <3>2
  <2> DEFINE n == nfds({bufs[1], bufs[2]})
             highest == {maxfd(s) : s \in {bufs[1], bufs[2]}}
  <2>5. CASE {} \in {meant[1], meant[2]}
    <3>1. n = 0
      BY <2>4, <2>5 DEF nfds
    <3> QED BY <2>5, <3>1 DEF NfdsCovers
  <2>6. CASE {} \notin {meant[1], meant[2]}
    <3>1. maxfd(bufs[1]) \in Nat /\ maxfd(bufs[2]) \in Nat
      BY <2>4, <2>6
    <3>2. highest = {maxfd(bufs[1]), maxfd(bufs[2])}
      OBVIOUS
    <3>3. n = Max(highest) + 1
      BY <3>1, <3>2 DEF nfds, NaN
    <3>4. Max(highest) \in Nat /\ maxfd(bufs[1]) <= Max(highest) /\ maxfd(bufs[2]) <= Max(highest)
      <4>1. \E x \in highest : \A y \in highest : x >= y
        BY <3>1, <3>2
      <4>2. Max(highest) \in highest /\ \A y \in highest : Max(highest) >= y
        <5> HIDE DEF highest
        <5> QED BY <4>1, Zenon DEF Max
      <4> QED BY <3>1, <3>2, <4>2
    <3> HIDE DEF highest, n
    <3>5. \A d \in meant[1] \cup meant[2] : d < n
      <4> SUFFICES ASSUME NEW i \in {1, 2}, NEW d \in meant[i] PROVE d < n
        OBVIOUS
      <4>1. d \in Nat /\ d <= maxfd(bufs[i])
        BY <2>2, <2>3, <2>4
      <4> QED BY <3>1, <3>3, <3>4, <4>1
    <3> QED BY <2>6, <3>5 DEF NfdsCovers, n
  <2> QED BY <2>5, <2>6
<1> QED BY SetsInit, SetsNext, <1>1, PTL DEF Spec

-----------------------------------------------------------------------------
(* Structs *)

Name(k, i) == declared[k][i][1]
Size(k, i) == declared[k][i][2] * declared[k][i][3]

\* Struct k has n members with different names, which are not empty.
Declares(k, n) ==
  /\ n \in 1..8 /\ Len(declared[k]) = n /\ DOMAIN declared[k] = 1..n
  /\ \A i \in 1..n : Size(k, i) \in Nat \ {0}
  /\ \A i, j \in 1..n : i < j => Name(k, i) # Name(k, j)

\* Its members are at the places at, one behind the other within the buffer.
Fills(k, n, at) ==
  /\ byteLength[k] \in Nat
  /\ \A i \in 1..n : at[i] \in Nat /\ at[i] + Size(k, i) <= byteLength[k]
  /\ \A i, j \in 1..n : i < j => at[i] + Size(k, i) <= at[j]

\* These are the places of the setters, ...
Agrees(k, n, at) ==
  /\ DOMAIN setters[k] \subseteq {Name(k, i) : i \in 1..n}
  /\ \A i \in 1..n : Name(k, i) \in DOMAIN setters[k] =>
       LET s == setters[k][Name(k, i)]
       IN  s.off = at[i] /\ s.width = Size(k, i) /\ (s.network <=> Name(k, i) \in NetworkOrder)

\* and of the ABI.
Follows(k, n, at) ==
  at = [i \in 1..n |->
          UpTo(IF i = 1 THEN 0 ELSE at[i - 1] + declared[k][i - 1][2] * declared[k][i - 1][3],
               declared[k][i][2])]
Ends(k, n, at, align) ==
  /\ \A i \in 1..n : declared[k][i][2] \in 1..align
  /\ \E i \in 1..n : declared[k][i][2] = align
  /\ UpTo(at[n] + declared[k][n][2] * declared[k][n][3], align) = byteLength[k]
Laid(k, n, at, align) ==
  Declares(k, n) /\ Fills(k, n, at) /\ Agrees(k, n, at) /\ Follows(k, n, at) /\ Ends(k, n, at, align)

LEMMA Laid_sockaddr_in == Laid("sockaddr_in", 4, <<0, 2, 4, 8>>, 4)
<1>1. Declares("sockaddr_in", 4)
  BY DEF Declares, Name, Size, declared
<1>2. Fills("sockaddr_in", 4, <<0, 2, 4, 8>>)
  BY DEF Fills, Size, declared, byteLength
<1>3. Agrees("sockaddr_in", 4, <<0, 2, 4, 8>>)
  BY DEF Agrees, Name, Size, declared, setters, host, net, NetworkOrder
<1>4. Follows("sockaddr_in", 4, <<0, 2, 4, 8>>)
  BY DEF Follows, declared, UpTo
<1>5. Ends("sockaddr_in", 4, <<0, 2, 4, 8>>, 4)
  BY DEF Ends, declared, UpTo, byteLength
<1> QED BY <1>1, <1>2, <1>3, <1>4, <1>5 DEF Laid

LEMMA Laid_socklen_t == Laid("socklen_t", 1, <<0>>, 4)
<1>1. Declares("socklen_t", 1)
  BY DEF Declares, Name, Size, declared
<1>2. Fills("socklen_t", 1, <<0>>)
  BY DEF Fills, Size, declared, byteLength
<1>3. Agrees("socklen_t", 1, <<0>>)
  BY DEF Agrees, Name, Size, declared, setters, host, net, NetworkOrder
<1>4. Follows("socklen_t", 1, <<0>>)
  BY DEF Follows, declared, UpTo
<1>5. Ends("socklen_t", 1, <<0>>, 4)
  BY DEF Ends, declared, UpTo, byteLength
<1> QED BY <1>1, <1>2, <1>3, <1>4, <1>5 DEF Laid

LEMMA Laid_timeval == Laid("timeval", 2, <<0, 8>>, 8)
<1>1. Declares("timeval", 2)
  BY DEF Declares, Name, Size, declared
<1>2. Fills("timeval", 2, <<0, 8>>)
  BY DEF Fills, Size, declared, byteLength
<1>3. Agrees("timeval", 2, <<0, 8>>)
  BY DEF Agrees, Name, Size, declared, setters, host, net, NetworkOrder
<1>4. Follows("timeval", 2, <<0, 8>>)
  BY DEF Follows, declared, UpTo
<1>5. Ends("timeval", 2, <<0, 8>>, 8)
  BY DEF Ends, declared, UpTo, byteLength
<1> QED BY <1>1, <1>2, <1>3, <1>4, <1>5 DEF Laid

LEMMA Laid_winsize == Laid("winsize", 4, <<0, 2, 4, 6>>, 2)
<1>1. Declares("winsize", 4)
  BY DEF Declares, Name, Size, declared
<1>2. Fills("winsize", 4, <<0, 2, 4, 6>>)
  BY DEF Fills, Size, declared, byteLength
<1>3. Agrees("winsize", 4, <<0, 2, 4, 6>>)
  BY DEF Agrees, Name, Size, declared, setters, host, net, NetworkOrder
<1>4. Follows("winsize", 4, <<0, 2, 4, 6>>)
  BY DEF Follows, declared, UpTo
<1>5. Ends("winsize", 4, <<0, 2, 4, 6>>, 2)
  BY DEF Ends, declared, UpTo, byteLength
<1> QED BY <1>1, <1>2, <1>3, <1>4, <1>5 DEF Laid

LEMMA Laid_termio == Laid("termio", 6, <<0, 2, 4, 6, 8, 9>>, 2)
<1>1. Declares("termio", 6)
  BY DEF Declares, Name, Size, declared
<1>2. Fills("termio", 6, <<0, 2, 4, 6, 8, 9>>)
  BY DEF Fills, Size, declared, byteLength
<1>3. Agrees("termio", 6, <<0, 2, 4, 6, 8, 9>>)
  BY DEF Agrees, Name, Size, declared, setters, host, net, NetworkOrder
<1>4. Follows("termio", 6, <<0, 2, 4, 6, 8, 9>>)
  BY DEF Follows, declared, UpTo
<1>5. Ends("termio", 6, <<0, 2, 4, 6, 8, 9>>, 2)
  BY DEF Ends, declared, UpTo, byteLength
<1> QED BY <1>1, <1>2, <1>3, <1>4, <1>5 DEF Laid

LEMMA Laid_termios == Laid("termios", 8, <<0, 4, 8, 12, 16, 17, 52, 56>>, 4)
<1>1. Declares("termios", 8)
  BY DEF Declares, Name, Size, declared
<1>2. Fills("termios", 8, <<0, 4, 8, 12, 16, 17, 52, 56>>)
  BY DEF Fills, Size, declared, byteLength
<1>3. Agrees("termios", 8, <<0, 4, 8, 12, 16, 17, 52, 56>>)
  BY DEF Agrees, Name, Size, declared, setters, host, net, NetworkOrder
<1>4. Follows("termios", 8, <<0, 4, 8, 12, 16, 17, 52, 56>>)
  BY DEF Follows, declared, UpTo
<1>5. Ends("termios", 8, <<0, 4, 8, 12, 16, 17, 52, 56>>, 4)
  BY DEF Ends, declared, UpTo, byteLength
<1> QED BY <1>1, <1>2, <1>3, <1>4, <1>5 DEF Laid

\* Every struct has been laid out.
LEMMA AllLaid == \A k \in Structs : \E n, at, align : Laid(k, n, at, align)
BY Laid_sockaddr_in, Laid_socklen_t, Laid_timeval, Laid_winsize, Laid_termio, Laid_termios, Zenon
   DEF Structs, byteLength

\* There is but one layout that follows the rule of the ABI: two that differ would
\* have a first place where they do.
LEMMA OneLayout ==
  ASSUME NEW k, NEW n \in Nat, NEW at, NEW other, Follows(k, n, at), Follows(k, n, other)
  PROVE  at = other
<1> DEFINE Differ == {i \in 1..n : at[i] # other[i]}
           Place_(f, i) == UpTo(IF i = 1 THEN 0 ELSE f[i - 1] + declared[k][i - 1][2] * declared[k][i - 1][3],
                               declared[k][i][2])
<1>1. at = [i \in 1..n |-> Place_(at, i)] /\ other = [i \in 1..n |-> Place_(other, i)]
  BY Zenon DEF Follows
<1>2. \A i \in 1..n : at[i] = Place_(at, i) /\ other[i] = Place_(other, i)
  <2> HIDE DEF Place_
  <2> QED BY <1>1
<1>3. SUFFICES ASSUME Differ # {} PROVE FALSE
  <2>1. ASSUME Differ = {} PROVE \A i \in 1..n : at[i] = other[i]
    BY <2>1
  <2> HIDE DEF Place_, Differ
  <2> QED BY <1>1, <2>1
<1>4. PICK i \in Differ : \A j \in Differ : i <= j
  <2>1. Differ \in SUBSET Nat
    OBVIOUS
  <2> HIDE DEF Differ
  <2> QED BY <1>3, <2>1, Least
<1>5. i \in 1..n /\ at[i] # other[i]
  OBVIOUS
<1>6. i # 1 => at[i - 1] = other[i - 1]
  <2> SUFFICES ASSUME i # 1 PROVE i - 1 \notin Differ
    BY <1>5
  <2> HIDE DEF Differ
  <2> QED BY <1>4, <1>5
<1>7. Place_(at, i) = Place_(other, i)
  <2>1. CASE i = 1
    BY <2>1
  <2>2. CASE i # 1
    BY <2>2, <1>6, Zenon
  <2> QED BY <2>1, <2>2
<1> QED BY <1>2, <1>5, <1>7, Zenon

\* What is laid out is what the rule of the ABI gives.
LEMMA LayoutIs ==
  ASSUME NEW k, NEW n, NEW at, NEW align, Laid(k, n, at, align)
  PROVE  Layout(k) = at /\ sizeof(k) = byteLength[k]
<1>1. n \in 1..8 /\ Len(declared[k]) = n /\ DOMAIN declared[k] = 1..n /\ Follows(k, n, at)
  BY DEF Laid, Declares
<1>2. Layout(k) = at
  <2>1. Layout(k) = CHOOSE f : Follows(k, n, f)
    BY <1>1, Zenon DEF Layout, Follows
  <2>2. Follows(k, n, Layout(k))
    BY <1>1, <2>1, Zenon
  <2> QED BY <1>1, <2>2, OneLayout
<1>3. Max({declared[k][i][2] : i \in DOMAIN declared[k]}) = align
  <2> DEFINE S == {declared[k][i][2] : i \in DOMAIN declared[k]}
  <2>1. align \in S /\ \A x \in S : x \in Int /\ x <= align
    BY <1>1 DEF Laid, Ends
  <2> HIDE DEF S
  <2>2. Max(S) \in S /\ Max(S) >= align
    <3>1. \E x \in S : \A y \in S : x >= y
      BY <2>1
    <3> QED BY <2>1, <3>1, Zenon DEF Max
  <2>3. Max(S) = align
    BY <2>1, <2>2
  <2> QED BY <2>3 DEF S
<1> QED BY <1>1, <1>2, <1>3, Zenon DEF sizeof, Laid, Ends

\* What the kernel reads from buffer b of struct k is m, member by member.
Reads(k, n, at, b, m) ==
  \A i \in 1..n :
    /\ DOMAIN m[Name(k, i)] = 0..(Size(k, i) - 1)
    /\ \A x \in 0..(Size(k, i) - 1) :
         m[Name(k, i)][x] =
           b[at[i] + 1 + IF Name(k, i) \in NetworkOrder THEN Size(k, i) - 1 - x ELSE x]

\* The buffer c is b but for the place of member f, which is given w.
Wrote(k, n, at, b, c, f, w) ==
  \E i \in 1..n :
    /\ Name(k, i) = f /\ DOMAIN w = 0..(Size(k, i) - 1)
    /\ \A p \in 1..byteLength[k] : p \notin (at[i] + 1)..(at[i] + Size(k, i)) => c[p] = b[p]
    /\ \A x \in 0..(Size(k, i) - 1) :
         w[x] = c[at[i] + 1 + IF Name(k, i) \in NetworkOrder THEN Size(k, i) - 1 - x ELSE x]

\* So the kernel reads w for this member, and all others as before.
LEMMA OneMember ==
  ASSUME NEW k, NEW n, NEW at, NEW align, Laid(k, n, at, align),
         NEW b, NEW m, Reads(k, n, at, b, m), DOMAIN m = {Name(k, i) : i \in 1..n},
         NEW c, NEW f, NEW w, Wrote(k, n, at, b, c, f, w)
  PROVE  Reads(k, n, at, c, [m EXCEPT ![f] = w])
<1>0. PICK i \in 1..n :
        /\ Name(k, i) = f /\ DOMAIN w = 0..(Size(k, i) - 1)
        /\ \A p \in 1..byteLength[k] : p \notin (at[i] + 1)..(at[i] + Size(k, i)) => c[p] = b[p]
        /\ \A x \in 0..(Size(k, i) - 1) :
             w[x] = c[at[i] + 1 + IF Name(k, i) \in NetworkOrder THEN Size(k, i) - 1 - x ELSE x]
  BY Zenon DEF Wrote
<1> SUFFICES ASSUME NEW j \in 1..n
             PROVE  LET u == [m EXCEPT ![f] = w][Name(k, j)]
                    IN  /\ DOMAIN u = 0..(Size(k, j) - 1)
                        /\ \A x \in 0..(Size(k, j) - 1) :
                             u[x] = c[at[j] + 1 + IF Name(k, j) \in NetworkOrder
                                                  THEN Size(k, j) - 1 - x ELSE x]
  BY Zenon DEF Reads
<1>1. CASE j = i
  BY <1>0, <1>1
<1>2. CASE j # i
  <2>0. n \in 1..8 /\ i \in Int /\ j \in Int
    BY DEF Laid, Declares
  <2>1. Name(k, j) # Name(k, i)
    BY <1>2, <2>0 DEF Laid, Declares
  <2>2. [m EXCEPT ![f] = w][Name(k, j)] = m[Name(k, j)]
    BY <1>0, <2>1
  <2>3. ASSUME NEW x \in 0..(Size(k, j) - 1)
        PROVE  LET p == at[j] + 1 + IF Name(k, j) \in NetworkOrder THEN Size(k, j) - 1 - x ELSE x
               IN  c[p] = b[p]
    <3> DEFINE y == IF Name(k, j) \in NetworkOrder THEN Size(k, j) - 1 - x ELSE x
    <3>1. Size(k, j) \in Nat /\ Size(k, i) \in Nat /\ at[j] \in Nat /\ at[i] \in Nat
      BY DEF Laid, Declares, Fills
    <3>2. y \in 0..(Size(k, j) - 1)
      BY <3>1
    <3>3. at[j] + Size(k, j) <= byteLength[k]
      BY DEF Laid, Fills
    <3>4. at[i] + Size(k, i) <= at[j] \/ at[j] + Size(k, j) <= at[i]
      BY <1>2, <2>0 DEF Laid, Fills
    <3> HIDE DEF y
    <3>5. ASSUME NEW p \in Nat, NEW q \in Nat, NEW s \in Nat, NEW t \in Nat, y \in 0..(t - 1),
                 p + s <= q \/ q + t <= p, NEW all \in Nat, q + t <= all
          PROVE  q + 1 + y \in 1..all /\ q + 1 + y \notin (p + 1)..(p + s)
      BY <3>5
    <3>6. byteLength[k] \in Nat
      BY DEF Laid, Fills
    <3>7. /\ at[j] + 1 + y \in 1..byteLength[k]
          /\ at[j] + 1 + y \notin (at[i] + 1)..(at[i] + Size(k, i))
      BY <3>1, <3>2, <3>3, <3>4, <3>5, <3>6, Zenon
    <3>8. c[at[j] + 1 + y] = b[at[j] + 1 + y]
      BY <1>0, <3>7
    <3> QED BY <3>8 DEF y
  <2> QED BY <2>2, <2>3 DEF Reads
<1> QED BY <1>1, <1>2

\* The buffer has the bytes of the struct, and in them what is meant.
StructInv ==
  kind \in Structs =>
    /\ bufs[1] = [p \in 1..byteLength[kind] |-> bufs[1][p]]
    /\ DOMAIN meant = {1}
    /\ \A n, at, align : Laid(kind, n, at, align) =>
         /\ DOMAIN meant[1] = {Name(kind, i) : i \in 1..n}
         /\ Reads(kind, n, at, bufs[1], meant[1])

LEMMA StructInit == Init => StructInv
<1> SUFFICES ASSUME Init, kind \in Structs PROVE StructInv
  BY DEF StructInv
<1> DEFINE D == declared[kind]
           bytes(f) == LET i == CHOOSE i \in DOMAIN D : D[i][1] = f IN D[i][2] * D[i][3]
           start == [f \in {D[i][1] : i \in DOMAIN D} |-> [k \in 0..(bytes(f) - 1) |-> 0]]
<1>1. bufs = <<Zeros(byteLength[kind])>> /\ meant = <<start>>
  BY DEF Init, Structs, byteLength
<1>2. ASSUME NEW n, NEW at, NEW align, Laid(kind, n, at, align)
      PROVE  DOMAIN start = {Name(kind, i) : i \in 1..n} /\ Reads(kind, n, at, Zeros(byteLength[kind]), start)
  <2>0. n \in 1..8 /\ DOMAIN D = 1..n /\ byteLength[kind] \in Nat
    BY <1>2 DEF Laid, Declares, Fills
  <2>1. DOMAIN start = {Name(kind, i) : i \in 1..n}
    BY <2>0 DEF Name
  <2>2. ASSUME NEW i \in 1..n
        PROVE  start[Name(kind, i)] = [k \in 0..(Size(kind, i) - 1) |-> 0]
    <3>1. \A j \in 1..n : Name(kind, j) = Name(kind, i) => j = i
      <4> TAKE j \in 1..n
      <4>1. (i < j \/ j < i) => Name(kind, j) # Name(kind, i)
        BY <1>2 DEF Laid, Declares
      <4> QED BY <2>0, <4>1
    <3>2. (CHOOSE j \in DOMAIN D : D[j][1] = Name(kind, i)) = i
      BY <2>0, <3>1 DEF Name
    <3>3. bytes(Name(kind, i)) = Size(kind, i)
      BY <3>2 DEF Size
    <3>4. Name(kind, i) \in {D[j][1] : j \in DOMAIN D}
      BY <2>0 DEF Name
    <3> HIDE DEF bytes, D
    <3> QED BY <3>3, <3>4
  <2>3. ASSUME NEW i \in 1..n, NEW x \in 0..(Size(kind, i) - 1)
        PROVE  LET p == at[i] + 1 + IF Name(kind, i) \in NetworkOrder THEN Size(kind, i) - 1 - x ELSE x
               IN  Zeros(byteLength[kind])[p] = 0
    <3> DEFINE y == IF Name(kind, i) \in NetworkOrder THEN Size(kind, i) - 1 - x ELSE x
    <3>1. Size(kind, i) \in Nat /\ at[i] \in Nat /\ at[i] + Size(kind, i) <= byteLength[kind]
      BY <1>2 DEF Laid, Declares, Fills
    <3>2. y \in 0..(Size(kind, i) - 1)
      BY <3>1
    <3> HIDE DEF y
    <3>3. at[i] + 1 + y \in 1..byteLength[kind]
      BY <2>0, <3>1, <3>2
    <3>4. Zeros(byteLength[kind])[at[i] + 1 + y] = 0
      BY <3>3 DEF Zeros
    <3> QED BY <3>4 DEF y
  <2> HIDE DEF start
  <2> QED BY <2>1, <2>2, <2>3 DEF Reads
<1> HIDE DEF start
<1>3. /\ bufs[1] = [p \in 1..byteLength[kind] |-> bufs[1][p]]
      /\ DOMAIN meant = {1} /\ meant[1] = start /\ bufs[1] = Zeros(byteLength[kind])
  BY <1>1 DEF Zeros
<1> QED BY <1>2, <1>3 DEF StructInv

\* The member of a setter.
LEMMA SetterMember ==
  ASSUME NEW k, NEW n, NEW at, NEW align, Laid(k, n, at, align), NEW f \in DOMAIN setters[k]
  PROVE  \E i \in 1..n : /\ Name(k, i) = f /\ Size(k, i) \in Nat /\ at[i] \in Nat
                         /\ setters[k][f].off = at[i] /\ setters[k][f].width = Size(k, i)
                         /\ (setters[k][f].network <=> f \in NetworkOrder)
<1>1. PICK i \in 1..n : Name(k, i) = f
  BY DEF Laid, Agrees
<1>2. Size(k, i) \in Nat /\ at[i] \in Nat
  BY DEF Laid, Declares, Fills
<1> QED BY <1>1, <1>2 DEF Laid, Agrees

\* The member of the control characters.
LEMMA CharsMember ==
  ASSUME NEW k \in DOMAIN c_cc, NEW n, NEW at, NEW align, Laid(k, n, at, align)
  PROVE  /\ 6 \in 1..n /\ Name(k, 6) = "c_cc" /\ "c_cc" \notin NetworkOrder
         /\ Size(k, 6) \in Nat /\ at[6] = c_cc[k].off /\ at[6] \in Nat
         /\ c_cc[k].length \in Nat /\ c_cc[k].length <= Size(k, 6)
<1>1. n \in 1..8 /\ Len(declared[k]) = n /\ Layout(k) = at
  BY LayoutIs DEF Laid, Declares
<1>2. k \in {"termio", "termios"} /\ "c_cc" \notin NetworkOrder
  BY DEF c_cc, NetworkOrder
<1>3. CASE k = "termio"
  <2>1. Layout("termio") = <<0, 2, 4, 6, 8, 9>> /\ n = 6
    BY <1>1, <1>3, Laid_termio, LayoutIs DEF Laid, Declares
  <2>2. Name("termio", 6) = "c_cc" /\ Size("termio", 6) = 8
    BY DEF Name, Size, declared
  <2>3. at[6] = 9
    BY <1>1, <1>3, <2>1
  <2> QED BY <1>2, <1>3, <2>1, <2>2, <2>3 DEF c_cc
<1>4. CASE k = "termios"
  <2>1. Layout("termios") = <<0, 4, 8, 12, 16, 17, 52, 56>> /\ n = 8
    BY <1>1, <1>4, Laid_termios, LayoutIs DEF Laid, Declares
  <2>2. Name("termios", 6) = "c_cc" /\ Size("termios", 6) = 32
    BY DEF Name, Size, declared
  <2>3. at[6] = 17
    BY <1>1, <1>4, <2>1
  <2> QED BY <1>2, <1>4, <2>1, <2>2, <2>3 DEF c_cc
<1> QED BY <1>2, <1>3, <1>4

\* A step that does this leaves the invariant true.
LEMMA MemberWritten ==
  ASSUME StructInv, kind \in Structs, UNCHANGED kind,
         NEW c, c = [p \in 1..byteLength[kind] |-> c[p]], bufs' = <<c>>,
         NEW f, NEW w, meant' = [meant EXCEPT ![1][f] = w],
         \A n, at, align : Laid(kind, n, at, align) => Wrote(kind, n, at, bufs[1], c, f, w)
  PROVE  StructInv'
<1>1. bufs'[1] = c /\ DOMAIN meant' = {1} /\ meant'[1] = [meant[1] EXCEPT ![f] = w]
  BY DEF StructInv
<1>2. ASSUME NEW n, NEW at, NEW align, Laid(kind, n, at, align)
      PROVE  /\ DOMAIN meant'[1] = {Name(kind, i) : i \in 1..n}
             /\ Reads(kind, n, at, bufs'[1], meant'[1])
  <2>1. DOMAIN meant[1] = {Name(kind, i) : i \in 1..n} /\ Reads(kind, n, at, bufs[1], meant[1])
    BY <1>2 DEF StructInv
  <2>2. Wrote(kind, n, at, bufs[1], c, f, w)
    BY <1>2
  <2>3. Reads(kind, n, at, c, [meant[1] EXCEPT ![f] = w])
    BY <1>2, <2>1, <2>2, OneMember
  <2> QED BY <1>1, <2>1, <2>3
<1>3. kind' = kind
  OBVIOUS
<1>4. bufs'[1] = [p \in 1..byteLength[kind'] |-> bufs'[1][p]]
  BY <1>1, <1>3
<1>5. ASSUME NEW n, NEW at, NEW align, Laid(kind', n, at, align)
      PROVE  /\ DOMAIN meant'[1] = {Name(kind', i) : i \in 1..n}
             /\ Reads(kind', n, at, bufs'[1], meant'[1])
  <2>1. Laid(kind, n, at, align)
    BY <1>3, <1>5
  <2>2. /\ DOMAIN meant'[1] = {Name(kind, i) : i \in 1..n}
        /\ Reads(kind, n, at, bufs'[1], meant'[1])
    BY <1>2, <2>1
  <2> QED BY <1>3, <2>2, Zenon
<1> QED BY <1>1, <1>4, <1>5, Zenon DEF StructInv

LEMMA StructNext == StructInv /\ [Next]_vars => StructInv'
<1> SUFFICES ASSUME StructInv, [Next]_vars, kind' \in Structs PROVE StructInv'
  BY DEF StructInv
<1>0. kind \in Structs /\ kind' = kind /\ kind # "fd_set"
  BY DEF Next, vars, SetBit, ClearBit, Zero, SetField, SetAddress, SetChars, Structs, byteLength
<1> DEFINE b == bufs[1]
<1>1. b = [p \in 1..byteLength[kind] |-> b[p]] /\ DOMAIN b = 1..byteLength[kind]
  BY <1>0 DEF StructInv
<1>2. ASSUME NEW v \in Values, NEW f \in DOMAIN setters[kind], SetField(f, v)
      PROVE  StructInv'
  <2> DEFINE s == setters[kind][f]
             w == [x \in 0..(s.width - 1) |-> ByteOf(v, x)]
             c == Stored(b, s, w)
  <2>1. bufs' = <<c>> /\ meant' = [meant EXCEPT ![1][f] = w]
    BY <1>2 DEF SetField
  <2>2. c = [p \in 1..byteLength[kind] |-> c[p]]
    BY <1>1 DEF Stored
  <2>3. ASSUME NEW n, NEW at, NEW align, Laid(kind, n, at, align)
        PROVE  Wrote(kind, n, at, b, c, f, w)
    <3>1. PICK i \in 1..n : /\ Name(kind, i) = f /\ Size(kind, i) \in Nat /\ at[i] \in Nat
                            /\ s.off = at[i] /\ s.width = Size(kind, i)
                            /\ (s.network <=> f \in NetworkOrder)
      BY <2>3, SetterMember
    <3>2. at[i] + Size(kind, i) <= byteLength[kind] /\ byteLength[kind] \in Nat
      BY <2>3 DEF Laid, Fills
    <3>3. DOMAIN w = 0..(Size(kind, i) - 1)
      BY <3>1
    <3> HIDE DEF w, s
    <3>4. \A p \in 1..byteLength[kind] :
            c[p] = IF p - 1 - at[i] \notin 0..(Size(kind, i) - 1) THEN b[p]
                   ELSE w[IF f \in NetworkOrder THEN Size(kind, i) - 1 - (p - 1 - at[i]) ELSE p - 1 - at[i]]
      BY <1>1, <3>1 DEF Stored
    <3> HIDE DEF c, b
    <3>5. ASSUME NEW p \in 1..byteLength[kind], p \notin (at[i] + 1)..(at[i] + Size(kind, i))
          PROVE  c[p] = b[p]
      BY <3>1, <3>2, <3>4, <3>5
    <3>6. ASSUME NEW x \in 0..(Size(kind, i) - 1)
          PROVE  w[x] = c[at[i] + 1 + IF Name(kind, i) \in NetworkOrder THEN Size(kind, i) - 1 - x ELSE x]
      <4> DEFINE y == IF f \in NetworkOrder THEN Size(kind, i) - 1 - x ELSE x
      <4>1. y \in 0..(Size(kind, i) - 1) /\ x = IF f \in NetworkOrder THEN Size(kind, i) - 1 - y ELSE y
        BY <3>1
      <4> HIDE DEF y
      <4> DEFINE p == at[i] + 1 + y
      <4>2. p \in 1..byteLength[kind] /\ p - 1 - at[i] = y
        BY <3>1, <3>2, <4>1
      <4> HIDE DEF p
      <4>3. c[p] = w[x]
        BY <3>4, <4>1, <4>2
      <4> QED BY <3>1, <4>3 DEF p, y
    <3> QED BY <3>1, <3>3, <3>5, <3>6 DEF Wrote
  <2> HIDE DEF c, w, s
  <2> QED BY <1>0, <2>1, <2>2, <2>3, MemberWritten
<1>3. ASSUME NEW quad, SetAddress(quad)
      PROVE  StructInv'
  <2> DEFINE c == [p \in DOMAIN b |-> IF p \in 5..8 THEN quad[p - 4] ELSE b[p]]
             w == [x \in 0..3 |-> quad[4 - x]]
  <2>0. kind = "sockaddr_in" /\ byteLength[kind] = 16
    BY <1>3 DEF SetAddress, byteLength
  <2>1. bufs' = <<c>> /\ meant' = [meant EXCEPT ![1]["sin_addr"] = w]
    BY <1>3 DEF SetAddress
  <2>2. c = [p \in 1..byteLength[kind] |-> c[p]]
    BY <1>1
  <2>3. ASSUME NEW n, NEW at, NEW align, Laid(kind, n, at, align)
        PROVE  Wrote(kind, n, at, b, c, "sin_addr", w)
    <3>1. "sin_addr" \in DOMAIN setters[kind] /\ setters[kind]["sin_addr"].off = 4
          /\ setters[kind]["sin_addr"].width = 4 /\ "sin_addr" \in NetworkOrder
      BY <2>0 DEF setters, net, NetworkOrder
    <3>2. PICK i \in 1..n : Name(kind, i) = "sin_addr" /\ Size(kind, i) = 4 /\ at[i] = 4
      BY <2>3, <3>1, SetterMember
    <3>3. \A p \in 1..16 : c[p] = IF p \in 5..8 THEN quad[p - 4] ELSE b[p]
      BY <1>1, <2>0
    <3> HIDE DEF b, c
    <3>4. \A x \in 0..3 : w[x] = c[8 - x]
      BY <3>3
    <3>5. DOMAIN w = 0..3
      OBVIOUS
    <3> HIDE DEF w
    <3> QED BY <2>0, <3>1, <3>2, <3>3, <3>4, <3>5 DEF Wrote
  <2> HIDE DEF c, w
  <2> QED BY <1>0, <2>1, <2>2, <2>3, MemberWritten
<1>4. ASSUME NEW n \in Int, NEW v, SetChars(n, v)
      PROVE  StructInv'
  <2> DEFINE cc == c_cc[kind]
             taken(x) == x \in 0..(n - 1) /\ x < cc.length
             old == meant[1]["c_cc"]
             c == [p \in DOMAIN b |-> IF taken(p - 1 - cc.off) THEN v ELSE b[p]]
             w == [x \in DOMAIN old |-> IF taken(x) THEN v ELSE old[x]]
  <2>0. kind \in DOMAIN c_cc
    BY <1>4 DEF SetChars
  <2>1. bufs' = <<c>> /\ meant' = [meant EXCEPT ![1]["c_cc"] = w]
    BY <1>4 DEF SetChars
  <2>2. c = [p \in 1..byteLength[kind] |-> c[p]]
    BY <1>1
  <2>3. ASSUME NEW m, NEW at, NEW align, Laid(kind, m, at, align)
        PROVE  Wrote(kind, m, at, b, c, "c_cc", w)
    <3>1. /\ 6 \in 1..m /\ Name(kind, 6) = "c_cc" /\ "c_cc" \notin NetworkOrder
          /\ Size(kind, 6) \in Nat /\ at[6] = cc.off /\ at[6] \in Nat
          /\ cc.length \in Nat /\ cc.length <= Size(kind, 6)
      BY <2>0, <2>3, CharsMember
    <3>2. at[6] + Size(kind, 6) <= byteLength[kind] /\ byteLength[kind] \in Nat
      BY <2>3, <3>1 DEF Laid, Fills
    <3>3. /\ DOMAIN old = 0..(Size(kind, 6) - 1)
          /\ \A x \in 0..(Size(kind, 6) - 1) : old[x] = b[at[6] + 1 + x]
      <4>1. Reads(kind, m, at, b, meant[1])
        BY <1>0, <2>3 DEF StructInv
      <4> QED BY <3>1, <4>1 DEF Reads
    <3>4. \A p \in 1..byteLength[kind] : c[p] = IF taken(p - 1 - at[6]) THEN v ELSE b[p]
      BY <1>1, <3>1
    <3>5. \A x \in 0..(Size(kind, 6) - 1) : w[x] = IF taken(x) THEN v ELSE old[x]
      BY <3>3
    <3>6. DOMAIN w = 0..(Size(kind, 6) - 1)
      BY <3>3
    <3>7. \A x : taken(x) => x \in 0..(Size(kind, 6) - 1)
      BY <3>1
    <3> HIDE DEF b, c, w, taken, old, cc
    <3>8. ASSUME NEW p \in 1..byteLength[kind], p \notin (at[6] + 1)..(at[6] + Size(kind, 6))
          PROVE  c[p] = b[p]
      <4>1. p - 1 - at[6] \notin 0..(Size(kind, 6) - 1)
        BY <3>1, <3>2, <3>8
      <4> QED BY <3>4, <3>7, <4>1
    <3>9. ASSUME NEW x \in 0..(Size(kind, 6) - 1)
          PROVE  w[x] = c[at[6] + 1 + x]
      <4> DEFINE p == at[6] + 1 + x
      <4>1. p \in 1..byteLength[kind] /\ p - 1 - at[6] = x
        BY <3>1, <3>2
      <4>2. w[x] = IF taken(x) THEN v ELSE b[p]
        BY <3>3, <3>5
      <4> HIDE DEF p
      <4>3. c[p] = IF taken(x) THEN v ELSE b[p]
        BY <3>4, <4>1
      <4> QED BY <4>2, <4>3 DEF p
    <3> QED BY <3>1, <3>6, <3>8, <3>9 DEF Wrote
  <2> HIDE DEF c, w
  <2> QED BY <1>0, <2>1, <2>2, <2>3, MemberWritten
<1>5. CASE UNCHANGED vars
  BY <1>5 DEF vars, StructInv
<1> QED BY <1>0, <1>2, <1>3, <1>4, <1>5 DEF Next, SetBit, ClearBit, Zero

\* The kernel reads from every struct, and from a set of descriptors of any size,
\* what the script has meant, whatever setters and functions it calls.
THEOREM KernelReads == Spec => []KernelSees
<1>1. SetsInv => (kind = "fd_set" => \A i \in {1, 2} : array(bufs[i]) = meant[i])
  BY DEF SetsInv
<1>2. ASSUME StructInv, kind \in Structs
      PROVE  /\ Len(bufs[1]) = sizeof(kind)
             /\ \A i \in DOMAIN declared[kind] :
                  LET f == declared[kind][i][1]
                      w == Cardinality(DOMAIN meant[1][f])
                  IN  \A k \in DOMAIN meant[1][f] :
                        meant[1][f][k] =
                          bufs[1][Layout(kind)[i] + 1 + IF f \in NetworkOrder THEN w - 1 - k ELSE k]
  <2>1. PICK n, at, align : Laid(kind, n, at, align)
    BY <1>2, AllLaid
  <2>2. /\ Layout(kind) = at /\ sizeof(kind) = byteLength[kind] /\ DOMAIN declared[kind] = 1..n
        /\ byteLength[kind] \in Nat
    BY <2>1, LayoutIs DEF Laid, Declares, Fills
  <2>3. Len(bufs[1]) = byteLength[kind]
    BY <1>2, <2>2 DEF StructInv
  <2>4. Reads(kind, n, at, bufs[1], meant[1])
    BY <1>2, <2>1 DEF StructInv
  <2>5. ASSUME NEW i \in 1..n
        PROVE  LET f == declared[kind][i][1]
                   w == Cardinality(DOMAIN meant[1][f])
               IN  \A k \in DOMAIN meant[1][f] :
                     meant[1][f][k] =
                       bufs[1][at[i] + 1 + IF f \in NetworkOrder THEN w - 1 - k ELSE k]
    <3>1. Size(kind, i) \in Nat \ {0}
      BY <2>1 DEF Laid, Declares
    <3>2. Cardinality(0..(Size(kind, i) - 1)) = Size(kind, i)
      BY <3>1, FS_Interval
    <3> QED BY <2>4, <3>2 DEF Reads, Name
  <2> QED BY <2>2, <2>3, <2>5
<1>3. StructInv => (kind \in Structs =>
       /\ Len(bufs[1]) = sizeof(kind)
       /\ \A i \in DOMAIN declared[kind] :
            LET f == declared[kind][i][1]
                w == Cardinality(DOMAIN meant[1][f])
            IN  \A k \in DOMAIN meant[1][f] :
                  meant[1][f][k] =
                    bufs[1][Layout(kind)[i] + 1 + IF f \in NetworkOrder THEN w - 1 - k ELSE k])
  BY <1>2
<1>4. SetsInv /\ StructInv => KernelSees
  BY <1>1, <1>3, Zenon DEF KernelSees
<1> QED BY SetsInit, SetsNext, StructInit, StructNext, <1>4, PTL DEF Spec

-----------------------------------------------------------------------------
(* The query *)

\* So what holds of 0, and of n + 1 if it does of n, holds of all of them.
LEMMA Induction ==
  ASSUME NEW T \in SUBSET Nat, 0 \in T, \A n \in T : n + 1 \in T
  PROVE  T = Nat
<1> SUFFICES ASSUME Nat \ T # {} PROVE FALSE
  OBVIOUS
<1>1. PICK x \in Nat \ T : \A y \in Nat \ T : x <= y
  BY Least
<1>2. x # 0 /\ x - 1 \in Nat
  BY <1>1
<1>3. x - 1 \in T
  BY <1>1, <1>2
<1> QED BY <1>1, <1>2, <1>3


\* FlattenSeq puts sequences one behind the other: G[i] has the first i of them.
Joins(G, s, n) == G = [i \in 1..n |-> IF i = 1 THEN s[i] ELSE G[i - 1] \o s[i]]

\* They can be joined one after the other, however many there are.
LEMMA JoinsExists ==
  ASSUME NEW n \in Nat, NEW s
  PROVE  \E G : Joins(G, s, n)
<1> DEFINE T == {m \in Nat : \E G : Joins(G, s, m)}
<1>1. 0 \in T
  <2>1. Joins([i \in 1..0 |-> 0], s, 0)
    BY DEF Joins
  <2> QED BY <2>1
<1>2. ASSUME NEW m \in T PROVE m + 1 \in T
  <2>1. PICK G : Joins(G, s, m)
    OBVIOUS
  <2> DEFINE H == [i \in 1..(m + 1) |-> IF i = 1 THEN s[i] ELSE G[i - 1] \o s[i]]
  <2>2. \A i \in 1..m : G[i] = H[i]
    <3>1. \A i \in 1..m : G[i] = IF i = 1 THEN s[i] ELSE G[i - 1] \o s[i]
      BY <2>1 DEF Joins
    <3>2. \A i \in 1..m : H[i] = IF i = 1 THEN s[i] ELSE G[i - 1] \o s[i]
      OBVIOUS
    <3> HIDE DEF H
    <3> QED BY <3>1, <3>2
  <2>3. \A i \in 1..(m + 1) : H[i] = IF i = 1 THEN s[i] ELSE H[i - 1] \o s[i]
    <3> TAKE i \in 1..(m + 1)
    <3>1. H[i] = IF i = 1 THEN s[i] ELSE G[i - 1] \o s[i]
      OBVIOUS
    <3>2. i # 1 => i - 1 \in 1..m
      OBVIOUS
    <3> HIDE DEF H
    <3> QED BY <2>2, <3>1, <3>2
  <2>4. DOMAIN H = 1..(m + 1) /\ H = [i \in 1..(m + 1) |-> H[i]]
    OBVIOUS
  <2> HIDE DEF H
  <2>5. Joins(H, s, m + 1)
    BY <2>3, <2>4 DEF Joins
  <2> QED BY <2>5
<1> HIDE DEF T
<1>3. T = Nat
  BY <1>1, <1>2, Induction DEF T
<1> QED BY <1>3 DEF T

Chain(G, s, n) ==
  /\ DOMAIN G = 1..n /\ \A i \in 1..n : G[i] \in Seq(Nat) /\ s[i] \in Seq(Nat)
  /\ G[1] = s[1] /\ \A i \in 1..(n - 1) : G[i + 1] = G[i] \o s[i + 1]

\* The whole is the last of them.
LEMMA Joined ==
  ASSUME NEW n \in Nat \ {0}, NEW s \in [1..n -> Seq(Nat)]
  PROVE  \E G : FlattenSeq(s) = G[n] /\ Chain(G, s, n)
<1>0. Len(s) = n
  OBVIOUS
<1> DEFINE G == CHOOSE G : Joins(G, s, n)
<1>1. FlattenSeq(s) = G[n]
  BY <1>0, Zenon DEF FlattenSeq, Joins
<1>2. Joins(G, s, n)
  BY JoinsExists, Zenon
<1> HIDE DEF G
<1>3. \A i \in 1..n : G[i] = IF i = 1 THEN s[i] ELSE G[i - 1] \o s[i]
  BY <1>2 DEF Joins
<1>4. G[1] = s[1] /\ \A i \in 1..(n - 1) : G[i + 1] = G[i] \o s[i + 1]
  <2>1. G[1] = s[1]
    BY <1>3
  <2>2. ASSUME NEW i \in 1..(n - 1) PROVE G[i + 1] = G[i] \o s[i + 1]
    <3>1. i + 1 \in 1..n /\ i + 1 # 1 /\ i + 1 - 1 = i
      OBVIOUS
    <3>2. ASSUME NEW j \in 1..n, j # 1 PROVE G[j] = G[j - 1] \o s[j]
      BY <1>3, <3>2, Zenon
    <3>3. PICK j \in 1..n : j = i + 1 /\ j # 1 /\ j - 1 = i
      BY <3>1
    <3>4. G[j] = G[j - 1] \o s[j]
      BY <3>2, <3>3
    <3> QED BY <3>3, <3>4
  <2> QED BY <2>1, <2>2
<1>5. \A i \in 1..n : G[i] \in Seq(Nat)
  <2> DEFINE T == {m \in Nat : m + 1 \in 1..n => G[m + 1] \in Seq(Nat)}
  <2>1. 0 \in T
    BY <1>4
  <2>2. ASSUME NEW m \in T PROVE m + 1 \in T
    <3> SUFFICES ASSUME m + 2 \in 1..n PROVE G[m + 2] \in Seq(Nat)
      OBVIOUS
    <3>1. m + 1 \in 1..(n - 1) /\ m + 1 + 1 = m + 2 /\ m + 1 \in 1..n
      OBVIOUS
    <3>2. G[m + 2] = G[m + 1] \o s[m + 2]
      BY <1>4, <3>1
    <3>3. G[m + 1] \in Seq(Nat) /\ s[m + 2] \in Seq(Nat)
      BY <3>1
    <3> QED BY <3>2, <3>3
  <2> HIDE DEF T
  <2>3. T = Nat
    BY <2>1, <2>2, Induction DEF T
  <2>4. ASSUME NEW i \in 1..n PROVE G[i] \in Seq(Nat)
    <3>1. i - 1 \in T /\ i - 1 + 1 = i
      BY <2>3
    <3> QED BY <3>1 DEF T
  <2> QED BY <2>4
<1>6. DOMAIN G = 1..n
  BY <1>2 DEF Joins
<1> QED BY <1>1, <1>4, <1>5, <1>6 DEF Chain

\* What two sequences come to when they are joined.
Join(a, b, c) ==
  /\ c \in Seq(Nat) /\ Len(c) = Len(a) + Len(b)
  /\ Len(a) \in Nat /\ Len(b) \in Nat /\ Len(c) \in Nat
  /\ \A x \in 1..Len(a) : c[x] = a[x]
  /\ \A y \in 1..Len(b) : c[Len(a) + y] = b[y]

\* It is so for what \o makes.
LEMMA Concatenation ==
  ASSUME NEW a, NEW b, NEW c, a \in Seq(Nat), b \in Seq(Nat), c = a \o b
  PROVE  Join(a, b, c)
BY DEF Join

\* Each of them joins the one before it with a sequence.
LEMMA ChainStep ==
  ASSUME NEW n, NEW s, NEW G, NEW m, Chain(G, s, n), m \in 1..(n - 1), m + 1 \in 1..n, m \in 1..n
  PROVE  Join(G[m], s[m + 1], G[m + 1])
<1>1. G[m + 1] = G[m] \o s[m + 1] /\ G[m] \in Seq(Nat) /\ s[m + 1] \in Seq(Nat)
  BY Zenon DEF Chain
<1> QED BY <1>1, Concatenation, Zenon

\* Each of them is the beginning of all later ones.
LEMMA Beginnings ==
  ASSUME NEW n \in Nat \ {0}, NEW s, NEW G, Chain(G, s, n), NEW i \in 1..n
  PROVE  /\ Len(G[i]) \in Nat /\ Len(G[n]) \in Nat /\ Len(G[i]) <= Len(G[n])
         /\ \A x \in 1..Len(G[i]) : G[n][x] = G[i][x]
<1> DEFINE Begins(m) == Len(G[i]) <= Len(G[m]) /\ \A x \in 1..Len(G[i]) : G[m][x] = G[i][x]
           T == {d \in Nat : i + d \in 1..n => Begins(i + d)}
<1>0. Len(G[i]) \in Nat /\ Len(G[n]) \in Nat
  BY DEF Chain
<1>1. Begins(i)
  BY <1>0
<1>2. ASSUME NEW m \in 1..(n - 1), Begins(m), i <= m PROVE Begins(m + 1)
  <2>1. m + 1 \in 1..n /\ m \in 1..n
    OBVIOUS
  <2>2. /\ Len(G[m]) \in Nat /\ Len(G[m + 1]) \in Nat /\ Len(s[m + 1]) \in Nat
        /\ Len(G[m + 1]) = Len(G[m]) + Len(s[m + 1])
        /\ \A x \in 1..Len(G[m]) : G[m + 1][x] = G[m][x]
    <3>1. Join(G[m], s[m + 1], G[m + 1])
      BY <2>1, ChainStep, Zenon
    <3> QED BY <3>1, Zenon DEF Join
  <2>3. \A a, b, c \in Nat : a <= b => a <= b + c /\ \A x \in 1..a : x \in 1..b
    OBVIOUS
  <2>4. Len(G[i]) <= Len(G[m + 1]) /\ \A x \in 1..Len(G[i]) : x \in 1..Len(G[m])
    BY <1>0, <1>2, <2>2, <2>3
  <2>5. \A x \in 1..Len(G[i]) : G[m + 1][x] = G[i][x]
    BY <1>2, <2>2, <2>4, Zenon
  <2> QED BY <2>4, <2>5, Zenon
<1> HIDE DEF Begins
<1>3. 0 \in T
  BY <1>1
<1>4. ASSUME NEW d \in T PROVE d + 1 \in T
  <2> SUFFICES ASSUME i + (d + 1) \in 1..n PROVE Begins(i + (d + 1))
    OBVIOUS
  <2>1. PICK m \in 1..(n - 1) : m = i + d /\ m + 1 = i + (d + 1) /\ m \in 1..n
    OBVIOUS
  <2>2. Begins(m) /\ i <= m
    BY <2>1
  <2> QED BY <1>2, <2>1, <2>2
<1> HIDE DEF T
<1>5. T = Nat
  BY <1>3, <1>4, Induction DEF T
<1>6. n - i \in T /\ i + (n - i) = n /\ n \in 1..n
  BY <1>5
<1>7. Begins(n)
  BY <1>6 DEF T
<1> QED BY <1>0, <1>7 DEF Begins

\* Where the bytes of each sequence are in the whole.
Spread(f, s, n, before) ==
  /\ f \in Seq(Nat) /\ Len(f) \in Nat /\ before \in [1..(n + 1) -> Nat]
  /\ before[1] = 0 /\ before[n + 1] = Len(f)
  /\ \A i \in 1..n :
       /\ before[i + 1] = before[i] + Len(s[i]) /\ before[i + 1] <= Len(f)
       /\ \A x \in 1..Len(s[i]) : f[before[i] + x] = s[i][x]

\* Every sequence is found whole, where the ones before it end.
LEMMA Flattened ==
  ASSUME NEW n \in Nat \ {0}, NEW s \in [1..n -> Seq(Nat)]
  PROVE  \E before : Spread(FlattenSeq(s), s, n, before)
<1>1. PICK G : FlattenSeq(s) = G[n] /\ Chain(G, s, n)
  BY Joined
<1> DEFINE before == [i \in 1..(n + 1) |-> IF i = 1 THEN 0 ELSE Len(G[i - 1])]
<1>2. \A i \in 1..n : /\ Len(G[i]) \in Nat /\ Len(G[n]) \in Nat /\ Len(G[i]) <= Len(G[n])
                      /\ \A x \in 1..Len(G[i]) : G[n][x] = G[i][x]
  BY <1>1, Beginnings
<1>3. before \in [1..(n + 1) -> Nat]
  <2>1. ASSUME NEW i \in 1..(n + 1), i # 1 PROVE Len(G[i - 1]) \in Nat
    <3>1. i - 1 \in 1..n
      BY <2>1
    <3> QED BY <1>2, <3>1
  <2> QED BY <2>1
<1>4. before[1] = 0 /\ (\A i \in 1..n : before[i + 1] = Len(G[i])) /\ n \in 1..n
  OBVIOUS
<1> HIDE DEF before
<1>5. ASSUME NEW i \in 1..n
      PROVE  /\ before[i + 1] = before[i] + Len(s[i]) /\ before[i + 1] <= Len(G[n])
             /\ \A x \in 1..Len(s[i]) : G[n][before[i] + x] = s[i][x]
  <2>1. Len(G[i]) = before[i] + Len(s[i]) /\ \A x \in 1..Len(s[i]) : G[i][before[i] + x] = s[i][x]
    <3>1. CASE i = 1
      <4>1. G[1] = s[1] /\ s[1] \in Seq(Nat)
        BY <1>1, <3>1 DEF Chain
      <4>2. before[1] = 0 /\ Len(s[1]) \in Nat
        BY <1>4, <4>1
      <4> QED BY <3>1, <4>1, <4>2
    <3>2. CASE i # 1
      <4>1. PICK j \in 1..(n - 1) : j + 1 = i /\ j \in 1..n
        BY <3>2
      <4>2. before[i] = Len(G[j])
        BY <1>4, <4>1
      <4>3. /\ Len(G[j + 1]) = Len(G[j]) + Len(s[j + 1])
            /\ \A y \in 1..Len(s[j + 1]) : G[j + 1][Len(G[j]) + y] = s[j + 1][y]
        <5>1. j + 1 \in 1..n
          BY <4>1
        <5>2. Join(G[j], s[j + 1], G[j + 1])
          BY <1>1, <4>1, <5>1, ChainStep, Zenon
        <5> QED BY <5>2, Zenon DEF Join
      <4> QED BY <4>1, <4>2, <4>3
    <3> QED BY <3>1, <3>2
  <2>2. /\ Len(G[i]) \in Nat /\ Len(G[n]) \in Nat /\ Len(G[i]) <= Len(G[n]) /\ before[i + 1] = Len(G[i])
        /\ \A x \in 1..Len(G[i]) : G[n][x] = G[i][x]
    BY <1>2, <1>4
  <2>3. before[i] \in Nat /\ Len(s[i]) \in Nat
    BY <1>1, <1>3 DEF Chain
  <2>4. ASSUME NEW x \in 1..Len(s[i]) PROVE G[n][before[i] + x] = s[i][x]
    <3>1. ASSUME NEW u \in Nat, NEW v \in Nat, x \in 1..v PROVE u + x \in 1..(u + v)
      BY <3>1
    <3>2. before[i] + x \in 1..Len(G[i])
      BY <2>1, <2>3, <3>1, Zenon
    <3> QED BY <2>1, <2>2, <3>2, Zenon
  <2> QED BY <2>1, <2>2, <2>4, Zenon
<1>6. G[n] \in Seq(Nat) /\ Len(G[n]) \in Nat
  BY <1>1, <1>4 DEF Chain
<1>7. before[n + 1] = Len(G[n])
  BY <1>4
<1>8. Spread(G[n], s, n, before)
  BY <1>3, <1>4, <1>5, <1>6, <1>7, Zenon DEF Spread
<1> QED BY <1>1, <1>8, Zenon

Lengths(ln, n) == ln \in [1..n -> Nat]

\* A query for n labels of the lengths ln: where the labels are, and what is
\* there and behind them.
Shape(q, n, ln, pos) ==
  /\ q \in Seq(Nat) /\ Len(q) \in Nat /\ pos \in [1..(n + 1) -> Nat \ {0}] /\ pos[1] = 13
  /\ Len(q) = pos[n + 1] + 4 /\ q[pos[n + 1]] = 0
  /\ SubSeq(q, pos[n + 1] + 1, Len(q)) = <<0, 1, 0, 1>>
  /\ \A i \in 1..n :
       /\ pos[i + 1] = pos[i] + (1 + ln[i]) /\ pos[i + 1] <= pos[n + 1]
       /\ q[pos[i]] = ln[i] % 256 /\ \A j \in 1..ln[i] : q[pos[i] + j] = 97

\* The twelve bytes of the header, the labels f, and the root, type and class.
Parts(q, f) ==
  /\ q \in Seq(Nat) /\ Len(q) = Len(f) + 17
  /\ \A x \in 1..Len(f) : q[12 + x] = f[x]
  /\ \A y \in 1..5 : q[12 + Len(f) + y] = <<0, 0, 1, 0, 1>>[y]

Labels(name) == [i \in DOMAIN name |-> <<Len(name[i]) % 256>> \o name[i]]

\* Query puts the three parts together.
LEMMA QueryParts ==
  ASSUME NEW name, FlattenSeq(Labels(name)) \in Seq(Nat), Len(FlattenSeq(Labels(name))) \in Nat
  PROVE  Parts(Query(name), FlattenSeq(Labels(name)))
<1> DEFINE f == FlattenSeq(Labels(name))
           l == Len(f) + 17
           a == (l - 2) \div 256
           b == (l - 2) % 256
           head == <<a, b, 1, 0, 0, 1, 0, 0, 0, 0, 0, 0>>
           tail == <<0, 0, 1, 0, 1>>
           front == head \o f
           q == front \o tail
<1>1. Query(name) = q
  BY DEF Query, Labels
<1>0. f \in Seq(Nat) /\ Len(f) \in Nat
  OBVIOUS
<1> HIDE DEF f
<1>2. a \in Nat /\ b \in Nat
  <2>1. l \in Nat /\ l > 2
    BY <1>0
  <2> HIDE DEF l
  <2> QED BY <2>1
<1> HIDE DEF a, b
<1>3. head \in Seq(Nat) /\ Len(head) = 12
  BY <1>2
<1>4. tail \in Seq(Nat) /\ Len(tail) = 5
  OBVIOUS
<1> HIDE DEF head, tail
<1>5. Join(head, f, front)
  BY <1>0, <1>3, Concatenation, Zenon
<1>6. Join(front, tail, q)
  <2>1. front \in Seq(Nat)
    BY <1>5 DEF Join
  <2> QED BY <1>4, <2>1, Concatenation, Zenon
<1> HIDE DEF front, q
<1>7. q \in Seq(Nat) /\ Len(q) = Len(f) + 17 /\ Len(front) = 12 + Len(f)
  <2>1. /\ q \in Seq(Nat) /\ Len(front) = Len(head) + Len(f) /\ Len(q) = Len(front) + Len(tail)
    BY <1>5, <1>6, Zenon DEF Join
  <2> QED BY <1>0, <1>3, <1>4, <2>1
<1>8. ASSUME NEW x \in 1..Len(f) PROVE q[12 + x] = f[x]
  <2>1. 12 + x \in 1..Len(front)
    BY <1>0, <1>7
  <2>2. front[12 + x] = f[x]
    BY <1>3, <1>5 DEF Join
  <2>3. q[12 + x] = front[12 + x]
    BY <1>6, <2>1, Zenon DEF Join
  <2> QED BY <2>2, <2>3
<1>9. \A y \in 1..5 : q[12 + Len(f) + y] = tail[y]
  <2>1. \A y \in 1..Len(tail) : q[Len(front) + y] = tail[y]
    BY <1>6, Zenon DEF Join
  <2> QED BY <1>4, <1>7, <2>1
<1>10. Parts(q, f)
  BY <1>7, <1>8, <1>9, Zenon DEF tail, Parts
<1> QED BY <1>1, <1>10, Zenon DEF f

\* The type and the class.
LEMMA LastFour ==
  ASSUME NEW q \in Seq(Nat), NEW e \in Nat, Len(q) = e + 4,
         q[e + 1] = 0, q[e + 2] = 1, q[e + 3] = 0, q[e + 4] = 1
  PROVE  SubSeq(q, e + 1, e + 4) = <<0, 1, 0, 1>>
<1> DEFINE r == SubSeq(q, e + 1, e + 4)
<1>1. r \in Seq(Nat) /\ Len(r) = 4
  BY Z3
<1>2. \A k \in 1..4 : r[k] = q[e + k]
  BY Z3
<1> HIDE DEF r
<1>3. r[1] = 0 /\ r[2] = 1 /\ r[3] = 0 /\ r[4] = 1
  BY <1>2
<1>4. r = <<0, 1, 0, 1>>
  BY <1>1, <1>3
<1> QED BY <1>4, Zenon DEF r

\* A query has that shape.
LEMMA QueryShape ==
  ASSUME NEW n \in Nat \ {0}, NEW ln, Lengths(ln, n)
  PROVE  \E pos : Shape(Query([i \in 1..n |-> Label(ln[i])]), n, ln, pos)
<1> DEFINE name == [i \in 1..n |-> Label(ln[i])]
           s == Labels(name)
           f == FlattenSeq(s)
           q == Query(name)
<1>1. \A i \in 1..n : Label(ln[i]) \in Seq(Nat) /\ Len(Label(ln[i])) = ln[i]
                      /\ \A j \in 1..ln[i] : Label(ln[i])[j] = 97
  BY DEF Label, Lengths
<1>2. s = [i \in 1..n |-> <<ln[i] % 256>> \o Label(ln[i])]
  BY <1>1 DEF Labels
<1>3. \A i \in 1..n : /\ s[i] \in Seq(Nat) /\ Len(s[i]) = 1 + ln[i] /\ s[i][1] = ln[i] % 256
                      /\ \A j \in 1..ln[i] : s[i][1 + j] = 97
  <2> TAKE i \in 1..n
  <2>1. s[i] = <<ln[i] % 256>> \o Label(ln[i])
    BY <1>2
  <2>2. ln[i] \in Nat /\ ln[i] % 256 \in Nat
    BY DEF Lengths
  <2> HIDE DEF s
  <2> QED BY <1>1, <2>1, <2>2
<1>4. s \in [1..n -> Seq(Nat)]
  BY <1>2, <1>3
<1> HIDE DEF s
<1>5. PICK before : Spread(f, s, n, before)
  BY <1>4, Flattened, Zenon
<1>6. /\ f \in Seq(Nat) /\ Len(f) \in Nat /\ before \in [1..(n + 1) -> Nat]
      /\ before[1] = 0 /\ before[n + 1] = Len(f)
      /\ \A i \in 1..n : before[i + 1] = before[i] + (1 + ln[i]) /\ before[i + 1] <= Len(f)
      /\ \A i \in 1..n : \A x \in 1..(1 + ln[i]) : f[before[i] + x] = s[i][x]
  <2>1. /\ f \in Seq(Nat) /\ Len(f) \in Nat /\ before \in [1..(n + 1) -> Nat]
        /\ before[1] = 0 /\ before[n + 1] = Len(f)
        /\ \A i \in 1..n :
             /\ before[i + 1] = before[i] + Len(s[i]) /\ before[i + 1] <= Len(f)
             /\ \A x \in 1..Len(s[i]) : f[before[i] + x] = s[i][x]
    BY <1>5, Zenon DEF Spread
  <2> HIDE DEF f
  <2>2. ASSUME NEW i \in 1..n
        PROVE  /\ before[i + 1] = before[i] + (1 + ln[i]) /\ before[i + 1] <= Len(f)
               /\ \A x \in 1..(1 + ln[i]) : f[before[i] + x] = s[i][x]
    <3>1. Len(s[i]) = 1 + ln[i] /\ ln[i] \in Nat
      BY <1>3 DEF Lengths
    <3>2. before[i + 1] = before[i] + Len(s[i]) /\ before[i + 1] <= Len(f)
      BY <2>1, Zenon
    <3>5. \A x \in 1..Len(s[i]) : f[before[i] + x] = s[i][x]
      BY <2>1, Zenon
    <3>3. before[i] \in Nat
      <4>1. before \in [1..(n + 1) -> Nat] /\ i \in 1..(n + 1)
        BY <2>1
      <4> QED BY <4>1
    <3>4. before[i + 1] = before[i] + (1 + ln[i])
      BY <3>1, <3>2, Zenon
    <3>6. \A x \in 1..(1 + ln[i]) : f[before[i] + x] = s[i][x]
      BY <3>1, <3>5, Zenon
    <3> QED BY <3>2, <3>4, <3>6, Zenon
  <2> QED BY <2>1, <2>2, Zenon
<1>7. /\ q \in Seq(Nat) /\ Len(q) = Len(f) + 17
      /\ \A x \in 1..Len(f) : q[12 + x] = f[x]
      /\ \A y \in 1..5 : q[12 + Len(f) + y] = <<0, 0, 1, 0, 1>>[y]
  <2>1. f \in Seq(Nat) /\ Len(f) \in Nat
    BY <1>6, Zenon
  <2>2. Parts(q, f)
    <3> HIDE DEF name
    <3> QED BY <2>1, QueryParts, Zenon DEF s
  <2> QED BY <2>2, Zenon DEF Parts
<1> HIDE DEF f, q, name
<1> DEFINE pos == [i \in 1..(n + 1) |-> 13 + before[i]]
<1>8. /\ pos \in [1..(n + 1) -> Nat \ {0}] /\ pos[1] = 13 /\ pos[n + 1] = 13 + Len(f)
      /\ \A i \in 1..n : pos[i] = 13 + before[i] /\ pos[i + 1] = 13 + before[i + 1]
  <2>1. Len(f) \in Nat /\ before \in [1..(n + 1) -> Nat] /\ before[1] = 0 /\ before[n + 1] = Len(f)
    BY <1>6, Zenon
  <2> HIDE DEF f
  <2> QED BY <2>1
<1> HIDE DEF pos
<1>9. ASSUME NEW i \in 1..n
      PROVE  /\ pos[i + 1] = pos[i] + (1 + ln[i]) /\ pos[i + 1] <= pos[n + 1]
             /\ q[pos[i]] = ln[i] % 256 /\ \A j \in 1..ln[i] : q[pos[i] + j] = 97
  <2>7. \A x \in 1..(1 + ln[i]) : f[before[i] + x] = s[i][x]
    BY <1>6, Zenon
  <2>1. /\ before[i] \in Nat /\ before[i + 1] = before[i] + (1 + ln[i]) /\ before[i + 1] <= Len(f)
        /\ ln[i] \in Nat /\ Len(f) \in Nat
    <3>1. before \in [1..(n + 1) -> Nat] /\ i \in 1..(n + 1)
      BY <1>6
    <3>2. before[i] \in Nat /\ ln[i] \in Nat
      BY <3>1 DEF Lengths
    <3> QED BY <1>6, <3>2, Zenon
  <2>2. pos[i] = 13 + before[i] /\ pos[i + 1] = 13 + before[i + 1] /\ pos[n + 1] = 13 + Len(f)
    BY <1>8, Zenon
  <2>6. s[i][1] = ln[i] % 256 /\ \A j \in 1..ln[i] : s[i][1 + j] = 97
    BY <1>3, ZenonT(40)
  <2>3. ASSUME NEW x \in 1..(1 + ln[i]) PROVE q[12 + (before[i] + x)] = s[i][x]
    <3>1. before[i] + x \in 1..Len(f)
      BY <2>1
    <3>2. q[12 + (before[i] + x)] = f[before[i] + x]
      BY <1>7, <3>1, Zenon
    <3> QED BY <2>7, <3>2
  <2>4. q[pos[i]] = ln[i] % 256
    <3>1. 1 \in 1..(1 + ln[i]) /\ 12 + (before[i] + 1) = pos[i]
      BY <2>1, <2>2, SMTT(30)
    <3> QED BY <2>6, <2>3, <3>1
  <2>5. ASSUME NEW j \in 1..ln[i] PROVE q[pos[i] + j] = 97
    <3>1. \A x \in Nat : \A k \in Int : 12 + (x + (1 + k)) = 13 + x + k
      OBVIOUS
    <3>2. 1 + j \in 1..(1 + ln[i]) /\ j \in Int
      BY <2>1
    <3>3. 12 + (before[i] + (1 + j)) = pos[i] + j
      BY <2>1, <2>2, <3>1, <3>2, ZenonT(40)
    <3> QED BY <2>6, <2>3, <3>2, <3>3
  <2>8. pos[i + 1] = pos[i] + (1 + ln[i]) /\ pos[i + 1] <= pos[n + 1]
    <3>1. before[i + 1] \in Nat
      BY <2>1
    <3>2. PICK x \in Nat, y \in Nat, l \in Nat, t \in Nat :
            x = before[i] /\ y = before[i + 1] /\ l = ln[i] /\ t = Len(f)
      BY <2>1, <3>1, Zenon
    <3>3. y = x + (1 + l) /\ y <= t /\ pos[i] = 13 + x /\ pos[i + 1] = 13 + y /\ pos[n + 1] = 13 + t
      BY <2>1, <2>2, <3>2, Zenon
    <3>4. 13 + y = 13 + x + (1 + l) /\ 13 + y <= 13 + t
      BY <3>3
    <3> QED BY <3>2, <3>3, <3>4, Zenon
  <2> QED BY <2>4, <2>5, <2>8, Zenon
<1>10. Len(q) = pos[n + 1] + 4 /\ q[pos[n + 1]] = 0 /\ SubSeq(q, pos[n + 1] + 1, Len(q)) = <<0, 1, 0, 1>>
  <2> DEFINE e == pos[n + 1]
  <2>1. e \in Nat /\ e = 13 + Len(f) /\ Len(f) \in Nat /\ Len(q) = e + 4 /\ q \in Seq(Nat)
    BY <1>6, <1>7, <1>8
  <2>2. q[e] = 0 /\ q[e + 1] = 0 /\ q[e + 2] = 1 /\ q[e + 3] = 0 /\ q[e + 4] = 1
    <3>1. \A y \in 1..5 : q[12 + Len(f) + y] = <<0, 0, 1, 0, 1>>[y]
      BY <1>7
    <3>2. /\ e = 12 + Len(f) + 1 /\ e + 1 = 12 + Len(f) + 2 /\ e + 2 = 12 + Len(f) + 3
          /\ e + 3 = 12 + Len(f) + 4 /\ e + 4 = 12 + Len(f) + 5
      BY <2>1
    <3> HIDE DEF e
    <3> QED BY <3>1, <3>2
  <2> HIDE DEF e
  <2>3. SubSeq(q, e + 1, e + 4) = <<0, 1, 0, 1>>
    BY <2>1, <2>2, LastFour
  <2> QED BY <2>1, <2>2, <2>3 DEF e
<1>11. q \in Seq(Nat) /\ Len(q) \in Nat
  BY <1>6, <1>7
<1>12. Shape(q, n, ln, pos)
  BY <1>8, <1>9, <1>10, <1>11, Zenon DEF Shape
<1> QED BY <1>12, Zenon DEF q, name

\* What holds at the end, and at a place if it does at the next one, holds at 1.
LEMMA Downward ==
  ASSUME NEW T, NEW top \in Nat \ {0}, top \in T, \A i \in 1..(top - 1) : i + 1 \in T => i \in T
  PROVE  1 \in T
<1> DEFINE B == {i \in 1..top : i \in T}
<1>1. B \in SUBSET Nat /\ B # {}
  OBVIOUS
<1>2. PICK x \in B : \A y \in B : x <= y
  <2> HIDE DEF B
  <2> QED BY <1>1, Least
<1>3. SUFFICES ASSUME x # 1 PROVE FALSE
  BY <1>2
<1>4. x - 1 \in 1..(top - 1) /\ x - 1 + 1 = x /\ x \in T
  BY <1>2, <1>3
<1>5. x - 1 \in T
  BY <1>4
<1>6. x - 1 \in B
  BY <1>4, <1>5
<1> QED BY <1>2, <1>4, <1>6

\* What the server finds at the place p, given what it finds behind it.
Entry(q, r, p) ==
  IF p > Len(q) THEN [name |-> <<>>, rest |-> <<>>]
  ELSE IF q[p] = 0 THEN [name |-> <<>>, rest |-> SubSeq(q, p + 1, Len(q))]
  ELSE IF q[p] > 63 \/ p + q[p] > Len(q) THEN [name |-> <<>>, rest |-> <<>>]
  ELSE [r[p + q[p] + 1] EXCEPT
          !.name = <<SubSeq(q, p + 1, p + q[p])>> \o r[p + q[p] + 1].name]
Reading(q, r, lo) == r = [p \in lo..(Len(q) + 1) |-> Entry(q, r, p)]

\* It depends only on what is found behind it.
LEMMA EntryDepends ==
  ASSUME NEW q \in Seq(Nat), NEW r, NEW h, NEW i \in Nat \ {0}, NEW p \in i..(Len(q) + 1),
         \A x \in (i + 1)..(Len(q) + 1) : h[x] = r[x]
  PROVE  Entry(q, h, p) = Entry(q, r, p)
<1>1. CASE ~(p > Len(q)) /\ q[p] # 0 /\ ~(q[p] > 63 \/ p + q[p] > Len(q))
  <2>1. p \in 1..Len(q) /\ q[p] \in Nat
    BY <1>1
  <2>2. p + q[p] + 1 \in (i + 1)..(Len(q) + 1)
    BY <1>1, <2>1, SMTT(30)
  <2>3. h[p + q[p] + 1] = r[p + q[p] + 1]
    BY <2>2
  <2> QED BY <2>3, Zenon DEF Entry
<1>2. CASE p > Len(q) \/ q[p] = 0 \/ q[p] > 63 \/ p + q[p] > Len(q)
  BY <1>2, Zenon DEF Entry
<1> QED BY <1>1, <1>2, Zenon

\* So it is defined for every place, from the last to the first.
LEMMA ReadingExists ==
  ASSUME NEW q \in Seq(Nat)
  PROVE  \E r : Reading(q, r, 1)
<1> DEFINE top == Len(q) + 1
           T == {i \in 1..top : \E r : Reading(q, r, i)}
<1>1. top \in T
  <2>1. Reading(q, [p \in top..(Len(q) + 1) |-> Entry(q, q, p)], top)
    <3> DEFINE r == [p \in top..(Len(q) + 1) |-> Entry(q, q, p)]
    <3>1. \A p \in top..(Len(q) + 1) : Entry(q, r, p) = Entry(q, q, p)
      <4>1. \A p \in top..(Len(q) + 1) : p > Len(q)
        OBVIOUS
      <4> QED BY <4>1, Zenon DEF Entry
    <3> HIDE DEF top
    <3>2. r = [p \in top..(Len(q) + 1) |-> Entry(q, r, p)]
      BY <3>1, Zenon
    <3> QED BY <3>2, Zenon DEF Reading
  <2>2. top \in 1..top
    OBVIOUS
  <2> HIDE DEF top
  <2> QED BY <2>1, <2>2
<1>2. ASSUME NEW i \in 1..(top - 1), i + 1 \in T PROVE i \in T
  <2>1. PICK r : Reading(q, r, i + 1)
    BY <1>2
  <2> DEFINE h == [p \in i..(Len(q) + 1) |-> Entry(q, r, p)]
  <2>2. \A x \in (i + 1)..(Len(q) + 1) : h[x] = r[x]
    <3>1. \A x \in (i + 1)..(Len(q) + 1) : x \in i..(Len(q) + 1)
      OBVIOUS
    <3> QED BY <2>1, <3>1, Zenon DEF Reading
  <2>3. \A p \in i..(Len(q) + 1) : Entry(q, h, p) = Entry(q, r, p)
    <3>1. i \in Nat \ {0}
      OBVIOUS
    <3> HIDE DEF h
    <3> QED BY <2>2, <3>1, EntryDepends, Zenon
  <2>4. h = [p \in i..(Len(q) + 1) |-> Entry(q, h, p)]
    BY <2>3, Zenon
  <2>5. Reading(q, h, i)
    BY <2>4, Zenon DEF Reading
  <2>6. i \in 1..top
    OBVIOUS
  <2> HIDE DEF h, top
  <2> QED BY <2>5, <2>6
<1>3. top \in Nat \ {0}
  OBVIOUS
<1> HIDE DEF top, T
<1>4. 1 \in T
  BY <1>1, <1>2, <1>3, Downward
<1> QED BY <1>4 DEF T

\* Question is what is found at the first label.
LEMMA QuestionReads ==
  ASSUME NEW q \in Seq(Nat)
  PROVE  \E r : Question(q) = r[13] /\ Reading(q, r, 1)
<1> DEFINE R == CHOOSE r : Reading(q, r, 1)
<1>1. Reading(q, R, 1)
  BY ReadingExists, Zenon
<1>2. Question(q) = R[13]
  BY Zenon DEF Question, Reading, Entry
<1> QED BY <1>1, <1>2, Zenon

\* Each byte is a number.
LEMMA ByteAt ==
  ASSUME NEW q \in Seq(Nat), NEW p \in 1..Len(q)
  PROVE  q[p] \in Nat
OBVIOUS

Finds(r, p, nm, rs) == r[p] = [name |-> nm, rest |-> rs]

\* A label, when it is one for the server, is put before the name that follows.
LEMMA ReadsLabel ==
  ASSUME NEW q, NEW r, NEW p, NEW l, NEW nm, NEW rs,
         Reading(q, r, 1), q \in Seq(Nat), p \in 1..Len(q), q[p] = l, l \in 1..63,
         p + l <= Len(q), Finds(r, p + l + 1, nm, rs)
  PROVE  Finds(r, p, <<SubSeq(q, p + 1, p + l)>> \o nm, rs)
<1>1. r[p] = Entry(q, r, p)
  <2>1. p \in 1..(Len(q) + 1)
    OBVIOUS
  <2> QED BY <2>1, Zenon DEF Reading
<1>2. ~(p > Len(q)) /\ q[p] # 0 /\ ~(q[p] > 63 \/ p + q[p] > Len(q))
  <2>1. \A v \in 1..63 : v # 0 /\ ~(v > 63)
    OBVIOUS
  <2>2. \A v \in 1..63, m \in Nat : \A x \in 1..m : x + v <= m => ~(x + v > m) /\ ~(x > m)
    OBVIOUS
  <2>3. Len(q) \in Nat
    OBVIOUS
  <2> QED BY <2>1, <2>2, <2>3, Zenon
<1>3. Entry(q, r, p) = [r[p + q[p] + 1] EXCEPT
                          !.name = <<SubSeq(q, p + 1, p + q[p])>> \o r[p + q[p] + 1].name]
  BY <1>2, Zenon DEF Entry
<1> DEFINE x == r[p + l + 1]
           a == <<SubSeq(q, p + 1, p + l)>>
<1>4. r[p] = [x EXCEPT !.name = a \o x.name] /\ x = [name |-> nm, rest |-> rs]
  BY <1>1, <1>3, Zenon DEF Finds
<1> HIDE DEF x, a
<1>5. r[p] = [name |-> a \o nm, rest |-> rs]
  BY <1>4
<1> QED BY <1>5, Zenon DEF a, Finds

\* The root ends the name; what cannot be a length ruins it.
LEMMA ReadsEnd ==
  ASSUME NEW q, NEW r, NEW p,
         Reading(q, r, 1), q \in Seq(Nat), p \in 1..Len(q), q[p] \notin 1..63
  PROVE  Finds(r, p, <<>>, IF q[p] = 0 THEN SubSeq(q, p + 1, Len(q)) ELSE <<>>)
<1>1. r[p] = Entry(q, r, p)
  <2>1. p \in 1..(Len(q) + 1)
    OBVIOUS
  <2> QED BY <2>1, Zenon DEF Reading
<1>2. ~(p > Len(q)) /\ (q[p] = 0 \/ q[p] > 63)
  <2>1. \A v \in Nat : v \notin 1..63 => v = 0 \/ v > 63
    OBVIOUS
  <2>2. q[p] \in Nat
    BY ByteAt, Zenon
  <2>3. ~(p > Len(q))
    OBVIOUS
  <2> QED BY <2>1, <2>2, <2>3, Zenon
<1>3. q[p] = 0 => Entry(q, r, p) = [name |-> <<>>, rest |-> SubSeq(q, p + 1, Len(q))]
  BY <1>2, Zenon DEF Entry
<1>4. q[p] # 0 => Entry(q, r, p) = [name |-> <<>>, rest |-> <<>>]
  BY <1>2, Zenon DEF Entry
<1> QED BY <1>1, <1>3, <1>4, Zenon DEF Finds

\* The labels from i on.
Rest(ln, n, i) == [k \in 1..(n + 1 - i) |-> Label(ln[i + k - 1])]

\* The elements of a sequence with one more in front.
LEMMA Prepended ==
  ASSUME NEW S, NEW x, NEW b, NEW d, x \in S, b \in Seq(S), d \in Nat \ {0}, Len(b) = d - 1
  PROVE  <<x>> \o b = [k \in 1..d |-> IF k = 1 THEN x ELSE b[k - 1]]
<1> DEFINE c == <<x>> \o b
<1>1. c \in Seq(S) /\ Len(c) = d /\ c[1] = x
  OBVIOUS
<1>2. \A k \in 1..d : k # 1 => c[k] = b[k - 1]
  OBVIOUS
<1> HIDE DEF c
<1>3. c = [k \in 1..d |-> c[k]]
  BY <1>1
<1>4. c = [k \in 1..d |-> IF k = 1 THEN x ELSE b[k - 1]]
  BY <1>1, <1>2, <1>3, Zenon
<1> QED BY <1>4 DEF c

\* One label less.
LEMMA RestStep ==
  ASSUME NEW n \in Nat \ {0}, NEW ln, NEW i \in 1..n
  PROVE  <<Label(ln[i])>> \o Rest(ln, n, i + 1) = Rest(ln, n, i)
<1> DEFINE d == n + 1 - i
           b == Rest(ln, n, i + 1)
           S == {Label(ln[k]) : k \in 1..n}
<1>1. d \in Nat \ {0}
  OBVIOUS
<1>2. b = [k \in 1..(d - 1) |-> Label(ln[i + k])]
  <2>1. n + 1 - (i + 1) = d - 1
    OBVIOUS
  <2>2. \A k \in 1..(d - 1) : (i + 1) + k - 1 = i + k
    OBVIOUS
  <2> HIDE DEF d
  <2> QED BY <2>1, <2>2, Zenon DEF Rest
<1>3. Rest(ln, n, i) = [k \in 1..d |-> Label(ln[i + k - 1])]
  BY Zenon DEF Rest
<1>4. b \in Seq(S) /\ Len(b) = d - 1 /\ Label(ln[i]) \in S
  <2>1. ASSUME NEW k \in 1..(d - 1) PROVE Label(ln[i + k]) \in S
    <3>1. i + k \in 1..n
      OBVIOUS
    <3> QED BY <3>1, Zenon
  <2>2. Label(ln[i]) \in S
    BY Zenon
  <2> HIDE DEF d, S, b
  <2> QED BY <1>1, <1>2, <2>1, <2>2
<1> HIDE DEF b, d, S
<1>5. <<Label(ln[i])>> \o b = [k \in 1..d |-> IF k = 1 THEN Label(ln[i]) ELSE b[k - 1]]
  BY <1>1, <1>4, Prepended
<1>6. ASSUME NEW k \in 1..d
      PROVE  (IF k = 1 THEN Label(ln[i]) ELSE b[k - 1]) = Label(ln[i + k - 1])
  <2>1. CASE k = 1
    <3>1. i + k - 1 = i
      BY <2>1
    <3> QED BY <2>1, <3>1, Zenon
  <2>2. CASE k # 1
    <3>1. k - 1 \in 1..(d - 1) /\ i + (k - 1) = i + k - 1
      BY <1>1, <2>2
    <3>2. b[k - 1] = Label(ln[i + (k - 1)])
      BY <1>2, <3>1, Zenon
    <3> QED BY <2>2, <3>1, <3>2, Zenon
  <2> QED BY <2>1, <2>2, Zenon
<1>7. <<Label(ln[i])>> \o b = Rest(ln, n, i)
  BY <1>3, <1>5, <1>6, Zenon
<1> QED BY <1>7, Zenon DEF b

\* The letters of a label, as the server takes them from the query.
LEMMA Letters ==
  ASSUME NEW q, NEW p, NEW l, q \in Seq(Nat), p \in Nat, l \in Nat, p + l <= Len(q),
         \A j \in 1..l : q[p + j] = 97
  PROVE  SubSeq(q, p + 1, p + l) = Label(l)
<1>1. SubSeq(q, p + 1, p + l) = [j \in 1..l |-> q[p + j]]
  OBVIOUS
<1>2. [j \in 1..l |-> q[p + j]] = [j \in 1..l |-> 97]
  BY Zenon
<1> QED BY <1>1, <1>2, Zenon DEF Label

\* A label of length l is at the place p, and x is the place behind it.
LabelAt(q, p, l, x) ==
  /\ p \in 1..Len(q) /\ p \in Nat /\ l \in Nat /\ p + l <= Len(q) /\ x = p + l + 1
  /\ q[p] = l % 256 /\ \A j \in 1..l : q[p + j] = 97

\* Each label of the name is at its place.
LEMMA LabelsAt ==
  ASSUME NEW n \in Nat \ {0}, NEW ln, NEW q, NEW pos, NEW i \in 1..n,
         Lengths(ln, n), Shape(q, n, ln, pos)
  PROVE  LabelAt(q, pos[i], ln[i], pos[i + 1])
<1> DEFINE p == pos[i]
           l == ln[i]
           x == pos[i + 1]
           e == pos[n + 1]
           m == Len(q)
<1>1. p \in Nat \ {0} /\ x \in Nat /\ e \in Nat
  <2>1. pos \in [1..(n + 1) -> Nat \ {0}]
    BY Zenon DEF Shape
  <2>2. i \in 1..(n + 1) /\ i + 1 \in 1..(n + 1) /\ n + 1 \in 1..(n + 1)
    OBVIOUS
  <2> QED BY <2>1, <2>2
<1>2. l \in Nat
  BY DEF Lengths
<1>3. x = p + (1 + l) /\ x <= e /\ q[p] = l % 256 /\ \A j \in 1..l : q[p + j] = 97
  <2>1. \A k \in 1..n :
          /\ pos[k + 1] = pos[k] + (1 + ln[k]) /\ pos[k + 1] <= pos[n + 1]
          /\ q[pos[k]] = ln[k] % 256 /\ \A j \in 1..ln[k] : q[pos[k] + j] = 97
    BY Zenon DEF Shape
  <2> QED BY <2>1, ZenonT(40)
<1>4. m \in Nat /\ m = e + 4
  BY Zenon DEF Shape
<1> HIDE DEF p, l, x, e, m
<1>5. p \in Nat /\ p \in 1..m /\ p + l <= m /\ x = p + l + 1
  <2>1. x = p + (1 + l) /\ x <= e
    BY <1>3, Zenon
  <2> QED BY <1>1, <1>2, <1>4, <2>1
<1>6. LabelAt(q, p, l, x)
  BY <1>2, <1>3, <1>5, Zenon DEF LabelAt, m
<1> QED BY <1>6, Zenon DEF p, l, x

\* A name whose labels all have lengths that DNS allows is read as it was meant.
LEMMA ReadsGood ==
  ASSUME NEW n \in Nat \ {0}, NEW ln, NEW q, NEW r, NEW pos,
         Lengths(ln, n), Shape(q, n, ln, pos), Reading(q, r, 1),
         \A i \in 1..n : ln[i] \in 1..63
  PROVE  Finds(r, 13, [i \in 1..n |-> Label(ln[i])], <<0, 1, 0, 1>>)
<1> DEFINE T == {i \in 1..(n + 1) : Finds(r, pos[i], Rest(ln, n, i), <<0, 1, 0, 1>>)}
           e == pos[n + 1]
<1>1. /\ q \in Seq(Nat) /\ Len(q) \in Nat /\ pos[1] = 13 /\ Len(q) = e + 4 /\ q[e] = 0
      /\ SubSeq(q, e + 1, Len(q)) = <<0, 1, 0, 1>>
  BY Zenon DEF Shape
<1>2. e \in Nat \ {0}
  <2>1. pos \in [1..(n + 1) -> Nat \ {0}]
    BY Zenon DEF Shape
  <2>2. n + 1 \in 1..(n + 1)
    OBVIOUS
  <2> QED BY <2>1, <2>2, Zenon
<1> HIDE DEF e
<1>3. n + 1 \in T
  <2>1. e \in 1..Len(q) /\ q[e] \notin 1..63
    <3>1. e \in 1..Len(q)
      BY <1>1, <1>2
    <3>2. 0 \notin 1..63
      OBVIOUS
    <3> QED BY <1>1, <3>1, <3>2, Zenon
  <2>2. Finds(r, e, <<>>, IF q[e] = 0 THEN SubSeq(q, e + 1, Len(q)) ELSE <<>>)
    BY <1>1, <2>1, ReadsEnd, Zenon
  <2>3. Rest(ln, n, n + 1) = <<>>
    <3>1. n + 1 - (n + 1) = 0
      OBVIOUS
    <3>2. Rest(ln, n, n + 1) = [k \in 1..0 |-> Label(ln[n + 1 + k - 1])]
      BY <3>1, Zenon DEF Rest
    <3> QED BY <3>2
  <2>4. Finds(r, e, Rest(ln, n, n + 1), <<0, 1, 0, 1>>)
    BY <1>1, <2>2, <2>3, Zenon DEF Finds
  <2>5. n + 1 \in 1..(n + 1)
    OBVIOUS
  <2> QED BY <2>4, <2>5, Zenon DEF e
<1>4. ASSUME NEW i \in 1..(n + 1 - 1), i + 1 \in T PROVE i \in T
  <2>1. i \in 1..n /\ i \in 1..(n + 1)
    OBVIOUS
  <2> DEFINE p == pos[i]
             l == ln[i]
             x == pos[i + 1]
  <2>2. LabelAt(q, p, l, x)
    BY <2>1, LabelsAt, Zenon
  <2>3. l \in 1..63
    BY <2>1, Zenon
  <2>4. Finds(r, x, Rest(ln, n, i + 1), <<0, 1, 0, 1>>)
    BY <1>4, Zenon
  <2> HIDE DEF p, l, x
  <2>5. /\ p \in 1..Len(q) /\ p \in Nat /\ l \in Nat /\ p + l <= Len(q) /\ x = p + l + 1
        /\ q[p] = l % 256 /\ \A j \in 1..l : q[p + j] = 97
    BY <2>2, Zenon DEF LabelAt
  <2>6. q[p] = l
    <3>1. l % 256 = l
      BY <2>3
    <3> QED BY <2>5, <3>1, Zenon
  <2>7. Finds(r, p, <<SubSeq(q, p + 1, p + l)>> \o Rest(ln, n, i + 1), <<0, 1, 0, 1>>)
    <3>1. Finds(r, p + l + 1, Rest(ln, n, i + 1), <<0, 1, 0, 1>>)
      BY <2>4, <2>5, Zenon
    <3>2. q \in Seq(Nat) /\ p \in 1..Len(q) /\ p + l <= Len(q)
      BY <1>1, <2>5, Zenon
    <3> QED BY <2>3, <2>6, <3>1, <3>2, ReadsLabel, Zenon
  <2>8. SubSeq(q, p + 1, p + l) = Label(l)
    <3>1. q \in Seq(Nat) /\ p \in Nat /\ l \in Nat /\ p + l <= Len(q)
      BY <1>1, <2>5, Zenon
    <3>2. \A j \in 1..l : q[p + j] = 97
      BY <2>5, Zenon
    <3> QED BY <3>1, <3>2, Letters
  <2>9. <<Label(l)>> \o Rest(ln, n, i + 1) = Rest(ln, n, i)
    BY <2>1, RestStep, Zenon DEF l
  <2>10. Finds(r, p, Rest(ln, n, i), <<0, 1, 0, 1>>)
    BY <2>7, <2>8, <2>9, Zenon
  <2> QED BY <2>1, <2>10, Zenon DEF p
<1>5. n + 1 \in Nat \ {0}
  OBVIOUS
<1> HIDE DEF T
<1>6. 1 \in T
  BY <1>3, <1>4, <1>5, Downward
<1>7. Finds(r, 13, Rest(ln, n, 1), <<0, 1, 0, 1>>)
  BY <1>1, <1>6, Zenon DEF T
<1>8. Rest(ln, n, 1) = [i \in 1..n |-> Label(ln[i])]
  <2>1. n + 1 - 1 = n /\ \A k \in 1..n : 1 + k - 1 = k
    OBVIOUS
  <2> QED BY <2>1, Zenon DEF Rest
<1> QED BY <1>7, <1>8, Zenon

\* Reading from p ends badly, or after k labels.
Spoilt(r, p, k) ==
  \E nm, rs : nm \in Seq(Seq(Nat)) /\ Finds(r, p, nm, rs) /\ (rs = <<>> \/ Len(nm) = k)

\* The first label whose length is not allowed ends the name or ruins the query:
\* its length, cut off to a byte, is read as none, as a pointer, or as that of a
\* shorter label, behind which a letter follows.
LEMMA ReadsBad ==
  ASSUME NEW q, NEW r, NEW p, NEW l, NEW x, q \in Seq(Nat), Reading(q, r, 1),
         LabelAt(q, p, l, x), l \notin 1..63
  PROVE  Spoilt(r, p, 0)
<1>1. /\ p \in 1..Len(q) /\ p \in Nat /\ l \in Nat /\ p + l <= Len(q)
      /\ q[p] = l % 256 /\ \A j \in 1..l : q[p + j] = 97
  BY Zenon DEF LabelAt
<1> DEFINE v == l % 256
<1>2. CASE v \notin 1..63
  <2>1. q[p] \notin 1..63
    BY <1>1, <1>2, ZenonT(40)
  <2>2. Finds(r, p, <<>>, IF q[p] = 0 THEN SubSeq(q, p + 1, Len(q)) ELSE <<>>)
    <3>1. p \in 1..Len(q)
      BY <1>1, Zenon
    <3> HIDE DEF v
    <3> QED BY <2>1, <3>1, ReadsEnd, Zenon
  <2>3. <<>> \in Seq(Seq(Nat)) /\ Len(<<>>) = 0
    OBVIOUS
  <2> QED BY <2>2, <2>3, Zenon DEF Spoilt
<1>3. CASE v \in 1..63
  <2> DEFINE y == p + v + 1
  <2>1. v + 1 \in 1..l
    BY <1>1, <1>3
  <2> HIDE DEF v
  <2>2. q[p + (v + 1)] = 97
    BY <1>1, <2>1, Zenon
  <2>3. y \in 1..Len(q) /\ p + v <= Len(q) /\ y = p + (v + 1)
    <3>1. p \in 1..Len(q) /\ p + l <= Len(q) /\ l \in Nat
      BY <1>1, Zenon
    <3> QED BY <1>3, <2>1, <3>1
  <2>4. Finds(r, y, <<>>, <<>>)
    <3>1. q[y] = 97
      BY <2>2, <2>3, Zenon
    <3>2. q[y] \notin 1..63 /\ q[y] # 0
      BY <3>1
    <3> HIDE DEF y
    <3>3. Finds(r, y, <<>>, IF q[y] = 0 THEN SubSeq(q, y + 1, Len(q)) ELSE <<>>)
      BY <2>3, <3>2, ReadsEnd, Zenon
    <3> QED BY <3>2, <3>3, Zenon
  <2>5. Finds(r, p, <<SubSeq(q, p + 1, p + v)>> \o <<>>, <<>>)
    <3>1. q[p] = v
      BY <1>1, Zenon DEF v
    <3>2. p \in 1..Len(q) /\ p + v <= Len(q) /\ Finds(r, p + v + 1, <<>>, <<>>)
      BY <1>1, <2>3, <2>4, Zenon
    <3> QED BY <1>3, <3>1, <3>2, ReadsLabel, Zenon
  <2>6. <<SubSeq(q, p + 1, p + v)>> \o <<>> \in Seq(Seq(Nat))
    <3>1. SubSeq(q, p + 1, p + v) \in Seq(Nat)
      BY <1>1, <1>3, <2>3
    <3> DEFINE a == SubSeq(q, p + 1, p + v)
    <3> HIDE DEF a
    <3>2. a \in Seq(Nat)
      BY <3>1 DEF a
    <3>3. <<a>> \o <<>> \in Seq(Seq(Nat))
      BY <3>2
    <3> QED BY <3>3, Zenon DEF a
  <2> QED BY <2>5, <2>6, Zenon DEF Spoilt
<1> QED BY <1>2, <1>3, Zenon

\* Labels in front of that do not mend it.
LEMMA SpoiltStep ==
  ASSUME NEW q, NEW r, NEW p, NEW l, NEW x, NEW k \in Nat, q \in Seq(Nat), Reading(q, r, 1),
         LabelAt(q, p, l, x), l \in 1..63, Spoilt(r, x, k)
  PROVE  Spoilt(r, p, k + 1)
<1>1. p \in 1..Len(q) /\ p + l <= Len(q) /\ x = p + l + 1 /\ q[p] = l % 256
  BY Zenon DEF LabelAt
<1>2. q[p] = l
  <2>1. \A v \in 1..63 : v % 256 = v
    OBVIOUS
  <2> QED BY <1>1, <2>1, Zenon
<1>3. PICK nm, rs : nm \in Seq(Seq(Nat)) /\ Finds(r, x, nm, rs) /\ (rs = <<>> \/ Len(nm) = k)
  BY Zenon DEF Spoilt
<1> DEFINE a == SubSeq(q, p + 1, p + l)
<1>4. Finds(r, p, <<a>> \o nm, rs)
  <2>1. Finds(r, p + l + 1, nm, rs)
    BY <1>1, <1>3, Zenon
  <2>2. p \in 1..Len(q) /\ p + l <= Len(q)
    BY <1>1, Zenon
  <2> QED BY <1>2, <2>1, <2>2, ReadsLabel, Zenon
<1>5. a \in Seq(Nat)
  <2>1. p \in 1..Len(q) /\ p + l <= Len(q)
    BY <1>1, Zenon
  <2> QED BY <2>1
<1>6. nm \in Seq(Seq(Nat))
  BY <1>3, Zenon
<1> HIDE DEF a
<1>7. <<a>> \o nm \in Seq(Seq(Nat)) /\ (Len(nm) = k => Len(<<a>> \o nm) = k + 1)
  BY <1>5, <1>6
<1> QED BY <1>3, <1>4, <1>7, Zenon DEF Spoilt

\* A name that has such a label is not read as it was meant.
LEMMA ReadsOther ==
  ASSUME NEW n \in Nat \ {0}, NEW ln, NEW q, NEW r, NEW pos,
         Lengths(ln, n), Shape(q, n, ln, pos), Reading(q, r, 1),
         ~ \A i \in 1..n : ln[i] \in 1..63
  PROVE  ~ Finds(r, 13, [i \in 1..n |-> Label(ln[i])], <<0, 1, 0, 1>>)
<1> DEFINE B == {i \in 1..n : ln[i] \notin 1..63}
<1>1. PICK m \in B : \A y \in B : m <= y
  <2>1. B \in SUBSET Nat /\ B # {}
    OBVIOUS
  <2> HIDE DEF B
  <2> QED BY <2>1, Least
<1>2. m \in 1..n /\ ln[m] \notin 1..63 /\ \A i \in 1..(m - 1) : ln[i] \in 1..63
  <2>1. m \in 1..n /\ ln[m] \notin 1..63
    OBVIOUS
  <2>2. ASSUME NEW i \in 1..(m - 1) PROVE ln[i] \in 1..63
    <3>1. i \in 1..n /\ ~(m <= i)
      BY <2>1
    <3> QED BY <1>1, <3>1, Zenon
  <2> QED BY <2>1, <2>2, Zenon
<1> HIDE DEF B
<1> DEFINE T == {i \in 1..m : Spoilt(r, pos[i], m - i)}
<1>3. q \in Seq(Nat) /\ pos[1] = 13
  BY Zenon DEF Shape
<1>4. m \in T
  <2>1. LabelAt(q, pos[m], ln[m], pos[m + 1])
    BY <1>2, LabelsAt, Zenon
  <2>2. Spoilt(r, pos[m], 0)
    BY <1>2, <1>3, <2>1, ReadsBad, Zenon
  <2>3. m - m = 0 /\ m \in 1..m
    BY <1>2
  <2> QED BY <2>2, <2>3, Zenon
<1>5. ASSUME NEW i \in 1..(m - 1), i + 1 \in T PROVE i \in T
  <2>1. i \in 1..n /\ i \in 1..m /\ m - (i + 1) \in Nat /\ m - (i + 1) + 1 = m - i
    BY <1>2
  <2>2. LabelAt(q, pos[i], ln[i], pos[i + 1])
    BY <2>1, LabelsAt, Zenon
  <2>3. Spoilt(r, pos[i + 1], m - (i + 1)) /\ ln[i] \in 1..63
    BY <1>2, <1>5, Zenon
  <2>4. Spoilt(r, pos[i], m - (i + 1) + 1)
    BY <1>3, <2>1, <2>2, <2>3, SpoiltStep, Zenon
  <2> QED BY <2>1, <2>4, Zenon
<1>6. m \in Nat \ {0}
  BY <1>2
<1> HIDE DEF T
<1>7. 1 \in T
  BY <1>4, <1>5, <1>6, Downward
<1>8. Spoilt(r, 13, m - 1)
  BY <1>3, <1>7, Zenon DEF T
<1>9. PICK nm, rs : nm \in Seq(Seq(Nat)) /\ Finds(r, 13, nm, rs) /\ (rs = <<>> \/ Len(nm) = m - 1)
  BY <1>8, Zenon DEF Spoilt
<1> DEFINE name == [i \in 1..n |-> Label(ln[i])]
<1>10. ASSUME Finds(r, 13, name, <<0, 1, 0, 1>>) PROVE FALSE
  <2>1. [name |-> nm, rest |-> rs] = [name |-> name, rest |-> <<0, 1, 0, 1>>]
    BY <1>9, <1>10, Zenon DEF Finds
  <2> HIDE DEF name
  <2>2. nm = name /\ rs = <<0, 1, 0, 1>>
    BY <2>1
  <2>3. rs # <<>>
    BY <2>2
  <2>4. Len(name) = n
    BY DEF name
  <2>5. m - 1 # n
    BY <1>2
  <2> QED BY <1>9, <2>2, <2>3, <2>4, <2>5, Zenon
<1> QED BY <1>10, Zenon

\* Of a query, the names that were meant and the bytes.
QueryInv ==
  kind = "query" =>
    \E n, ln : /\ n \in Nat \ {0} /\ Lengths(ln, n)
               /\ meant = <<[i \in 1..n |-> Label(ln[i])]>>
               /\ bufs = <<Query([i \in 1..n |-> Label(ln[i])])>>

\* The two together.
LEMMA QueryRead ==
  ASSUME NEW n \in Nat \ {0}, NEW ln, Lengths(ln, n)
  PROVE  LET name == [i \in 1..n |-> Label(ln[i])]
         IN  Question(Query(name)) = [name |-> name, rest |-> <<0, 1, 0, 1>>]
               <=> \A i \in DOMAIN name : Len(name[i]) \in 1..63
<1> DEFINE name == [i \in 1..n |-> Label(ln[i])]
           q == Query(name)
<1>1. PICK pos : Shape(q, n, ln, pos)
  BY QueryShape, Zenon
<1> HIDE DEF q
<1>2. q \in Seq(Nat)
  BY <1>1, Zenon DEF Shape
<1>3. PICK r : Question(q) = r[13] /\ Reading(q, r, 1)
  BY <1>2, QuestionReads, Zenon
<1>4. Question(q) = [name |-> name, rest |-> <<0, 1, 0, 1>>] <=> \A i \in 1..n : ln[i] \in 1..63
  <2>1. Finds(r, 13, name, <<0, 1, 0, 1>>) <=> \A i \in 1..n : ln[i] \in 1..63
    BY <1>1, <1>3, ReadsGood, ReadsOther, Zenon
  <2> QED BY <1>3, <2>1, Zenon DEF Finds
<1>5. DOMAIN name = 1..n /\ \A i \in 1..n : Len(name[i]) = ln[i]
  BY DEF Label, Lengths
<1> QED BY <1>4, <1>5, Zenon DEF q

\* A name server reads from the query of lookup() the name that was asked for
\* exactly if all its labels have lengths that DNS allows, for names of any
\* number of labels, of any lengths.
THEOREM ServerReads == Spec => []QueryAsks
<1>1. Init => QueryInv
  <2> SUFFICES ASSUME Init, kind = "query" PROVE QueryInv
    BY DEF QueryInv
  <2>1. PICK n \in 1..MaxLabels : \E ln \in [1..n -> LabelLengths] :
          LET name == [i \in 1..n |-> Label(ln[i])]
          IN  bufs = <<Query(name)>> /\ meant = <<name>>
    <3>1. "query" \notin Structs
      BY DEF Structs, byteLength
    <3> QED BY <3>1, Zenon DEF Init
  <2>2. PICK ln \in [1..n -> LabelLengths] :
          /\ bufs = <<Query([i \in 1..n |-> Label(ln[i])])>>
          /\ meant = <<[i \in 1..n |-> Label(ln[i])]>>
    BY <2>1, Zenon
  <2>3. n \in Nat \ {0} /\ Lengths(ln, n)
    <3>1. MaxLabels \in Nat /\ LabelLengths \subseteq Nat
      BY BuffersAssumption DEF BuffersAssumption
    <3>2. n \in Nat \ {0}
      BY <3>1
    <3>3. ln \in [1..n -> Nat]
      BY <3>1, Zenon
    <3> QED BY <3>2, <3>3 DEF Lengths
  <2> QED BY <2>2, <2>3, Zenon DEF QueryInv
<1>2. QueryInv /\ [Next]_vars => QueryInv'
  <2> SUFFICES ASSUME QueryInv, [Next]_vars, kind' = "query" PROVE UNCHANGED vars
    BY Zenon DEF QueryInv, vars
  <2>1. ASSUME Next PROVE FALSE
    <3>1. "query" # "fd_set" /\ "query" # "sockaddr_in" /\ "query" \notin Structs /\ "query" \notin DOMAIN c_cc
      BY DEF Structs, byteLength, c_cc
    <3> QED BY <2>1, <3>1, Zenon DEF Next, SetBit, ClearBit, Zero, SetField, SetAddress, SetChars
  <2> QED BY <2>1
<1>3. QueryInv => QueryAsks
  <2> SUFFICES ASSUME QueryInv, kind = "query"
               PROVE  Question(bufs[1]) = [name |-> meant[1], rest |-> <<0, 1, 0, 1>>]
                        <=> \A i \in DOMAIN meant[1] : Len(meant[1][i]) \in 1..63
    BY DEF QueryAsks
  <2>1. PICK n, ln : /\ n \in Nat \ {0} /\ Lengths(ln, n)
                     /\ meant = <<[i \in 1..n |-> Label(ln[i])]>>
                     /\ bufs = <<Query([i \in 1..n |-> Label(ln[i])])>>
    BY Zenon DEF QueryInv
  <2> DEFINE name == [i \in 1..n |-> Label(ln[i])]
  <2>2. Question(Query(name)) = [name |-> name, rest |-> <<0, 1, 0, 1>>]
          <=> \A i \in DOMAIN name : Len(name[i]) \in 1..63
    BY <2>1, QueryRead, Zenon
  <2>3. meant[1] = name /\ bufs[1] = Query(name)
    <3> DEFINE b == Query(name)
    <3>1. meant = <<name>> /\ bufs = <<b>>
      BY <2>1, Zenon
    <3> HIDE DEF b, name
    <3>2. meant[1] = name /\ bufs[1] = b
      BY <3>1
    <3> QED BY <3>2, Zenon DEF b
  <2> HIDE DEF name
  <2> QED BY <2>2, <2>3, Zenon
<1> QED BY <1>1, <1>2, <1>3, PTL DEF Spec
=============================================================================
