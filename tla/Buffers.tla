------------------------------ MODULE Buffers ------------------------------
(***************************************************************************)
(* The ArrayBuffers that examples/socket.js, term.js and dnsresolve.js     *)
(* make for the kernel or the network, byte by byte: fd_set, the struct    *)
(* classes with their setters, and the query of a lookup; and the offsets  *)
(* into them that toPointer() of ffi.c takes.  Beside them is what the     *)
(* script meant; FdSet has the sets that fd_sets stand for.                *)
(*                                                                         *)
(* A byte of a buffer has its offset plus one for an index.                *)
(***************************************************************************)
EXTENDS FdSet, Sequences, SequencesExt, FiniteSetsExt

CONSTANTS
  FD_SETSIZE,
  Descriptors,   \* bound: numbers given to FD_SET and FD_CLR
  Values,        \* bound: numbers given to setters
  Sizes,         \* bound: sizes of buffers given to toPointer
  HalfWord,      \* half as many as int64_t and size_t have values
  LabelLengths,  \* bound: lengths of the labels of a name that is looked up
  MaxLabels      \* bound: labels of a name

ASSUME BuffersAssumption ==
  /\ FD_SETSIZE \in Nat \ {0} /\ FD_SETSIZE % 8 = 0
  /\ Descriptors \subseteq Int /\ Values \subseteq Int
  /\ HalfWord \in Nat \ {0} /\ Sizes \subseteq 0..(HalfWord - 1)
  /\ LabelLengths \subseteq Nat /\ MaxLabels \in Nat

VARIABLES
  kind,   \* the class of the buffers, "query", or "toPointer"
  bufs,   \* the buffers: two fd_sets, or one of another kind
  meant   \* what each of them is to say

vars == <<kind, bufs, meant>>

\* Byte k of the two's complement of v, which setters keep as many of as they have
\* room for: typed arrays and setUint16 cut numbers off.
ByteOf(v, k) == IF k < 4 THEN (v \div 256^k) % 256 ELSE IF v < 0 THEN 255 ELSE 0
Zeros(n) == [i \in 1..n |-> 0]

-----------------------------------------------------------------------------
(* fd_set *)

\* Where the bit of a descriptor is: set[fd >> 3], 1 << (fd & 7).
Position(fd) == <<Bit(fd) \div 8 + 1, Bit(fd) % 8>>
HasBit(b, j) == (b \div 2^j) % 2 = 1

\* FD_SET and FD_CLR. A descriptor beyond the set is a RangeError.
InSet(fd) == fd = NaN \/ fd \in 0..(FD_SETSIZE - 1)
Setting(fd, s) ==
  LET p == Position(fd)
  IN  IF HasBit(s[p[1]], p[2]) THEN s ELSE [s EXCEPT ![p[1]] = @ + 2^p[2]]
Clearing(fd, s) ==
  LET p == Position(fd)
  IN  IF HasBit(s[p[1]], p[2]) THEN [s EXCEPT ![p[1]] = @ - 2^p[2]] ELSE s

\* The getter array, without its order, and maxfd, which is undefined for an empty
\* set.
array(s) ==
  {8 * (x[1] - 1) + x[2] : x \in {y \in (DOMAIN s) \X (0..7) : HasBit(s[y[1]], y[2])}}
maxfd(s) == IF array(s) = {} THEN NaN ELSE Max(array(s))

\* A mutant of nfds: the highest descriptor itself.
nfds_highest(sets) ==
  IF \E s \in sets : maxfd(s) = NaN THEN 0 ELSE Max({maxfd(s) : s \in sets})

\* What the kernel gets for nfds when select() is given none: the NaN that Math.max
\* makes of an undefined becomes 0.
nfds(sets) == IF \E s \in sets : maxfd(s) = NaN THEN 0 ELSE Max({maxfd(s) : s \in sets}) + 1

-----------------------------------------------------------------------------
(* Structs *)

\* Where a setter writes a number: offset and width, in host or in network order.
host(off, w) == [off |-> off, width |-> w, network |-> FALSE]
net(off, w) == [off |-> off, width |-> w, network |-> TRUE]

setters ==
  [sockaddr_in |-> [sin_family |-> host(0, 2), sin_port |-> net(2, 2), sin_addr |-> net(4, 4)],
   socklen_t |-> [value |-> host(0, 4)],
   timeval |-> [tv_sec |-> host(0, 8), tv_usec |-> host(8, 8)],
   winsize |-> [ws_row |-> host(0, 2), ws_col |-> host(2, 2), ws_xpixel |-> host(4, 2),
                ws_ypixel |-> host(6, 2)],
   termio |-> [c_iflag |-> host(0, 2), c_oflag |-> host(2, 2), c_cflag |-> host(4, 2),
               c_lflag |-> host(6, 2), c_line |-> host(8, 1)],
   termios |-> [c_iflag |-> host(0, 4), c_oflag |-> host(4, 4), c_cflag |-> host(8, 4),
                c_lflag |-> host(12, 4), c_line |-> host(16, 1)]]
c_cc == [termio |-> [off |-> 9, length |-> 8], termios |-> [off |-> 17, length |-> 19]]
byteLength ==
  [sockaddr_in |-> 16, socklen_t |-> 4, timeval |-> 16, winsize |-> 8, termio |-> 18,
   termios |-> 60]
Structs == DOMAIN byteLength

\* A mutant of Stored: the order of the host, whatever the field.
StoredHost(b, s, byte) ==
  [i \in DOMAIN b |-> IF i - 1 - s.off \in 0..(s.width - 1) THEN byte[i - 1 - s.off] ELSE b[i]]

\* The buffer b after the setter s was given a number, of which byte[k] is byte k.
Stored(b, s, byte) ==
  [i \in DOMAIN b |->
     LET k == i - 1 - s.off
     IN  IF k \notin 0..(s.width - 1) THEN b[i]
         ELSE byte[IF s.network THEN s.width - 1 - k ELSE k]]

\* The declarations of the C types: members in order, each with the size of an
\* element and how many it has.
declared ==
  [sockaddr_in |-> <<<<"sin_family", 2, 1>>, <<"sin_port", 2, 1>>, <<"sin_addr", 4, 1>>,
                     <<"sin_zero", 1, 8>>>>,
   socklen_t |-> <<<<"value", 4, 1>>>>,
   timeval |-> <<<<"tv_sec", 8, 1>>, <<"tv_usec", 8, 1>>>>,
   winsize |-> <<<<"ws_row", 2, 1>>, <<"ws_col", 2, 1>>, <<"ws_xpixel", 2, 1>>,
                 <<"ws_ypixel", 2, 1>>>>,
   termio |-> <<<<"c_iflag", 2, 1>>, <<"c_oflag", 2, 1>>, <<"c_cflag", 2, 1>>,
                <<"c_lflag", 2, 1>>, <<"c_line", 1, 1>>, <<"c_cc", 1, 8>>>>,
   termios |-> <<<<"c_iflag", 4, 1>>, <<"c_oflag", 4, 1>>, <<"c_cflag", 4, 1>>,
                 <<"c_lflag", 4, 1>>, <<"c_line", 1, 1>>, <<"c_cc", 1, 32>>,
                 <<"c_ispeed", 4, 1>>, <<"c_ospeed", 4, 1>>>>]
NetworkOrder == {"sin_port", "sin_addr"}

\* The rule of the C ABI: each member comes after the last, at a multiple of the
\* size of its elements, and the whole is a multiple of the largest.
UpTo(n, align) == align * ((n + align - 1) \div align)
Layout(k) ==
  LET D == declared[k]
      at[i \in 1..Len(D)] ==
        UpTo(IF i = 1 THEN 0 ELSE at[i - 1] + D[i - 1][2] * D[i - 1][3], D[i][2])
  IN  at
sizeof(k) ==
  LET D == declared[k]
  IN  UpTo(Layout(k)[Len(D)] + D[Len(D)][2] * D[Len(D)][3], Max({D[i][2] : i \in DOMAIN D}))

-----------------------------------------------------------------------------
(* toPointer *)

\* A number as int64_t and as size_t.
Word == 2 * HalfWord
AsUnsigned(n) == n % Word
AsSigned(n) == LET u == n % Word IN IF u < HalfWord THEN u ELSE u - Word

\* A mutant of Place: offsets from the end are not looked at again.
PlaceUnchecked(size, off) ==
  IF off < 0 THEN AsUnsigned(AsUnsigned(off) + size)
  ELSE IF AsUnsigned(off) > size THEN NaN ELSE off

\* The place in a buffer of that size which the pointer of toPointer(buffer, off)
\* is, or NaN for an exception: the sum and the comparison with the size are
\* unsigned.
Place(size, off) ==
  LET o == IF off < 0 THEN AsSigned(AsUnsigned(off) + size) ELSE off
  IN  IF AsUnsigned(o) > size \/ o < 0 THEN NaN ELSE o

-----------------------------------------------------------------------------
(* The query *)

\* A mutant of Query: the root label is missing.
QueryNoRoot(name) ==
  LET labels == FlattenSeq([i \in DOMAIN name |-> <<Len(name[i]) % 256>> \o name[i]])
      n == Len(labels) + 16
  IN  <<(n - 2) \div 256, (n - 2) % 256, 1, 0, 0, 1, 0, 0, 0, 0, 0, 0>>
        \o labels \o <<0, 1, 0, 1>>

\* The bytes that lookup() puts into outBuf, ToDomain(domain) among them; the
\* identity is the length of the query less two.
Query(name) ==
  LET labels == FlattenSeq([i \in DOMAIN name |-> <<Len(name[i]) % 256>> \o name[i]])
      n == Len(labels) + 17
  IN  <<(n - 2) \div 256, (n - 2) % 256, 1, 0, 0, 1, 0, 0, 0, 0, 0, 0>>
        \o labels \o <<0, 0, 1, 0, 1>>

\* How a server reads a query with one question: the labels up to the root, the
\* type and the class.
Question(q) ==
  LET malformed == [name |-> <<>>, rest |-> <<>>]
      read[p \in 1..(Len(q) + 1)] ==
        IF p > Len(q) THEN malformed
        ELSE IF q[p] = 0 THEN [name |-> <<>>, rest |-> SubSeq(q, p + 1, Len(q))]
        ELSE IF q[p] > 63 \/ p + q[p] > Len(q) THEN malformed
        ELSE LET r == read[p + q[p] + 1]
             IN  [r EXCEPT !.name = <<SubSeq(q, p + 1, p + q[p])>> \o r.name]
  IN  read[13]

Label(n) == [i \in 1..n |-> 97]

-----------------------------------------------------------------------------

\* FD_SET(fd, set) and FD_CLR(fd, set), which throw beyond the set.
SetBit(i, d) ==
  /\ kind = "fd_set" /\ InSet(d)
  /\ bufs' = [bufs EXCEPT ![i] = Setting(d, @)]
  /\ meant' = [meant EXCEPT ![i] = FD_SET(d, @)]
  /\ UNCHANGED kind
ClearBit(i, d) ==
  /\ kind = "fd_set" /\ InSet(d)
  /\ bufs' = [bufs EXCEPT ![i] = Clearing(d, @)]
  /\ meant' = [meant EXCEPT ![i] = FD_CLR(d, @)]
  /\ UNCHANGED kind

\* FD_ZERO(fd, set), as it is declared, clears the set.
Zero(i) ==
  /\ kind = "fd_set"
  /\ bufs' = [bufs EXCEPT ![i] = Zeros(Len(@))]
  /\ meant' = [meant EXCEPT ![i] = {}]
  /\ UNCHANGED kind

\* A setter is given a number.
SetField(f, v) ==
  /\ kind \in Structs /\ f \in DOMAIN setters[kind]
  /\ LET s == setters[kind][f]
         byte == [k \in 0..(s.width - 1) |-> ByteOf(v, k)]
     IN  /\ bufs' = <<Stored(bufs[1], s, byte)>>
         /\ meant' = [meant EXCEPT ![1][f] = byte]
  /\ UNCHANGED kind

\* The setter of sin_addr is given the text of an address.
SetAddress(quad) ==
  /\ kind = "sockaddr_in"
  /\ bufs' = <<[i \in DOMAIN bufs[1] |-> IF i \in 5..8 THEN quad[i - 4] ELSE bufs[1][i]]>>
  /\ meant' = [meant EXCEPT ![1].sin_addr = [k \in 0..3 |-> quad[4 - k]]]
  /\ UNCHANGED kind

\* The setter of c_cc is given n control characters v; it takes those it has
\* room for.
SetChars(n, v) ==
  /\ kind \in DOMAIN c_cc
  /\ LET cc == c_cc[kind]
         taken(k) == k \in 0..(n - 1) /\ k < cc.length
     IN  /\ bufs' = <<[i \in DOMAIN bufs[1] |-> IF taken(i - 1 - cc.off) THEN v ELSE bufs[1][i]]>>
         /\ meant' = [meant EXCEPT ![1].c_cc = [k \in DOMAIN @ |-> IF taken(k) THEN v ELSE @[k]]]
  /\ UNCHANGED kind

Init ==
  \/ /\ kind = "fd_set"
     /\ bufs = <<Zeros(FD_SETSIZE \div 8), Zeros(FD_SETSIZE \div 8)>>
     /\ meant = <<{}, {}>>
  \/ /\ kind \in Structs
     /\ bufs = <<Zeros(byteLength[kind])>>
     /\ LET D == declared[kind]
            bytes(f) == LET i == CHOOSE i \in DOMAIN D : D[i][1] = f IN D[i][2] * D[i][3]
        IN  meant = <<[f \in {D[i][1] : i \in DOMAIN D} |-> [k \in 0..(bytes(f) - 1) |-> 0]]>>
  \/ /\ kind = "query"
     /\ \E n \in 1..MaxLabels : \E lengths \in [1..n -> LabelLengths] :
          LET name == [i \in 1..n |-> Label(lengths[i])]
          IN  bufs = <<Query(name)>> /\ meant = <<name>>
  \/ /\ kind = "toPointer"
     /\ \E size \in Sizes, off \in (-HalfWord)..(HalfWord - 1) :
          bufs = <<Zeros(size)>> /\ meant = <<off>>

Next ==
  \/ \E i \in {1, 2}, d \in Descriptors : SetBit(i, d) \/ ClearBit(i, d)
  \/ \E i \in {1, 2} : Zero(i)
  \/ \E v \in Values :
       /\ kind \in Structs
       /\ \E f \in DOMAIN setters[kind] : SetField(f, v)
  \/ \E quad \in {<<127, 0, 0, 1>>, <<10, 0, 255, 7>>} : SetAddress(quad)
  \/ \E n \in {1, 8, 20}, v \in {3, 255} : SetChars(n, v)

Spec == Init /\ [][Next]_vars

-----------------------------------------------------------------------------
(* Properties *)

\* The kernel, which goes by the declarations of C, reads what the script has
\* set, finds zeros where it has set nothing, and finds as many bytes as it will
\* write; in an fd_set it finds the descriptors that are members.
KernelSees ==
  /\ kind = "fd_set" => \A i \in {1, 2} : array(bufs[i]) = meant[i]
  /\ kind \in Structs =>
       /\ Len(bufs[1]) = sizeof(kind)
       /\ \A i \in DOMAIN declared[kind] :
            LET f == declared[kind][i][1]
                w == Cardinality(DOMAIN meant[1][f])
            IN  \A k \in DOMAIN meant[1][f] :
                  meant[1][f][k] =
                    bufs[1][Layout(kind)[i] + 1 + IF f \in NetworkOrder THEN w - 1 - k ELSE k]

\* select() without nfds watches all members of its sets, and none at all when one
\* of the sets is empty.
NfdsCovers ==
  kind = "fd_set" =>
    LET n == nfds({bufs[1], bufs[2]})
    IN  IF {} \in {meant[1], meant[2]} THEN n = 0
        ELSE \A d \in meant[1] \cup meant[2] : d < n

\* A server that gets the query of lookup() reads from it the name that was asked
\* for, type A and class IN, exactly if each label of the name has a length
\* that DNS allows: an empty label ends the name, and a long one ruins it.
QueryAsks ==
  kind = "query" =>
    (Question(bufs[1]) = [name |-> meant[1], rest |-> <<0, 1, 0, 1>>]
       <=> \A i \in DOMAIN meant[1] : Len(meant[1][i]) \in 1..63)

\* toPointer() points into its buffer or just behind it, with a negative offset as
\* far from the end, and throws for every other number: no offset wraps around
\* to a place in the buffer, or past the check.
PointerInside ==
  kind = "toPointer" =>
    LET size == Len(bufs[1])
        at == IF meant[1] < 0 THEN size + meant[1] ELSE meant[1]
    IN  Place(size, meant[1]) = IF at \in 0..size THEN at ELSE NaN
=============================================================================
