---------------------------- MODULE TelnetProofs ----------------------------
(***************************************************************************)
(* Theorems about Telnet, for anything the user types, buffers of any size *)
(* and any number of bytes and signals.                                    *)
(***************************************************************************)
EXTENDS Telnet, FiniteSetTheorems, TLAPS

\* Until a signal comes, what select() has found ready stays so up to its block.
ReadyInv ==
  interrupts = 0 =>
    /\ pc \in {"write", "socket"} => rfds \subseteq Readable
    /\ pc = "stdin" /\ STDIN_FILENO \in rfds => typed > inLen

\* With -l: the loop goes round with nothing to send and no key read, until it
\* finds a key; then the bit of conn, which is that of the keyboard, leaves -1 in
\* outLen at the turn of the keyboard.
ListenInv ==
  listening =>
    /\ handshake = 0 /\ ~ran /\ wire = <<>> /\ shown = <<>> /\ ~destroyed /\ wfds = {}
    /\ pc \in Blocks => inLen = 0 /\ conn = NaN
    /\ pc \in {"select", "write", "socket"} => outLen = 0
    /\ pc = "stdin" => outLen = IF STDIN_FILENO \in rfds THEN -1 ELSE 0
    /\ pc \in Blocks \cup {"exit", "exception"}

\* The bytes of one source in s come before those in t.
Below(who, s, t) ==
  \A i \in DOMAIN s, j \in DOMAIN t : s[i].from = who /\ t[j].from = who => s[i].n < t[j].n

\* Bytes that have been read.
KnownTo(s, keys, bytes) ==
  \A i \in DOMAIN s : /\ s[i].from = "key" => s[i].n <= keys
                      /\ s[i].from = "server" => s[i].n <= bytes
Known(s) == KnownTo(s, inLen, taken)

\* What went out, what will, and what is shown: each in order, one after the other,
\* and read before. Nothing is shown while the handshake lasts, so that what it
\* reads into outBuf comes after nothing that was shown.
OrderInv ==
  /\ \A who \in {"key", "server"} :
       Ascending(who, wire) /\ Ascending(who, out) /\ Below(who, wire, out)
  /\ Ascending("server", shown) /\ Below("server", wire, shown) /\ Below("server", out, shown)
  /\ Known(wire) /\ Known(out) /\ Known(shown)
  /\ handshake < 4 => shown = <<>>

\* In a client, -1 gets into outLen only from a connection that has failed.
ErrorInv ==
  ~listening => (outLen = -1 \/ pc = "exception" => peer \in {"refused", "gone"})

Inv == TypeOK /\ ReadyInv /\ ListenInv /\ OrderInv /\ ErrorInv

-----------------------------------------------------------------------------
(* Types *)

\* The bytes that a step puts into outBuf or on the terminal.
LEMMA ClearByte == Clear \in Bytes
BY DEF Clear, Bytes

LEMMA EmptyOut == TypeOK => <<>> \in Seq(Bytes) /\ Len(<<>>) = 0 /\ 0 <= outSize
BY DEF TypeOK

LEMMA ServerBytes ==
  ASSUME TypeOK, NEW from \in Nat, NEW n \in Nat, from + n <= arrived
  PROVE  [k \in 1..n |-> Server(from + k)] \in Seq(Bytes)
<1>1. ASSUME NEW k \in 1..n PROVE Server(from + k) \in Bytes
  <2>1. from + k \in 1..MaxServer
    BY <1>1, TelnetAssumption DEF TypeOK
  <2> QED BY <2>1 DEF Server, Bytes
<1> QED BY <1>1

LEMMA KeyBytes ==
  ASSUME TypeOK, NEW lo \in Nat, NEW hi \in Nat, 1 <= lo, hi <= typed,
         NEW s \in InOrder(KeysSent(lo, hi))
  PROVE  [k \in DOMAIN s |-> Key(s[k])] \in Seq(Bytes)
<1> DEFINE S == KeysSent(lo, hi)
<1>1. S \subseteq lo..hi
  BY DEF KeysSent
<1>2. Cardinality(S) \in Nat
  <2> HIDE DEF S
  <2>1. IsFiniteSet(lo..hi)
    BY FS_Interval
  <2>2. IsFiniteSet(S)
    BY <1>1, <2>1, FS_Subset
  <2> QED BY <2>2, FS_CardinalityType
<1>3. s \in [1..Cardinality(S) -> S]
  BY DEF InOrder
<1>4. ASSUME NEW k \in DOMAIN s PROVE Key(s[k]) \in Bytes
  <2>1. s[k] \in 1..Len(Keyboard)
    BY <1>1, <1>3, TelnetAssumption, SMTT(30) DEF TypeOK
  <2> QED BY <2>1 DEF Key, Bytes
<1> QED BY <1>2, <1>3, <1>4

\* Append() leaves a buffer that holds what it has to.
LEMMA AppendedType ==
  ASSUME TypeOK, NEW o \in Seq(Bytes), NEW items \in Seq(Bytes), Appended(o, items)
  PROVE  /\ out' \in Seq(Bytes) /\ outSize' \in Nat /\ Len(out') <= outSize'
         /\ outLen' = Len(out')
<1>1. out' \in Seq(Bytes) /\ outLen' = Len(out') /\ Len(out') \in Nat
  BY DEF Appended
<1> QED BY <1>1 DEF Appended, TypeOK

LEMMA SelectType ==
  ASSUME TypeOK, Select
  PROVE  TypeOK'
<1>1. rfds' \subseteq {STDIN_FILENO, sock} /\ wfds' \subseteq {sock}
  <2> DEFINE w == FD_CLR(sock, FD_ZERO(wfds))
             r == FD_SET(sock, FD_ZERO(rfds))
             wset == IF outLen # 0 THEN FD_SET(sock, w) ELSE w
             rset == IF outLen = 0 /\ inLen < InSize THEN FD_SET(STDIN_FILENO, r) ELSE r
  <2>1. rset \subseteq {STDIN_FILENO, sock} /\ wset \subseteq {sock}
    BY DEF TypeOK, FD_SET, FD_CLR, FD_ZERO, Bit, NaN, sock, STDIN_FILENO
  <2>2. rfds' \subseteq rset /\ wfds' \subseteq wset
    <3> HIDE DEF rset, wset
    <3>1. PICK intr \in BOOLEAN : /\ rfds' = IF intr THEN rset ELSE rset \cap Readable
                                  /\ wfds' = IF intr THEN wset ELSE wset \cap Writable
      BY DEF Select, select, rset, wset
    <3> QED BY <3>1
  <2> QED BY <2>1, <2>2
<1>2. interrupts' \in 0..MaxInterrupts
  BY TelnetAssumption DEF Select, Interrupted, Uninterrupted, TypeOK
<1> QED BY <1>1, <1>2 DEF Select, TypeOK, outgoing, kernel, Blocks

LEMMA SendOutType ==
  ASSUME TypeOK, SendOut
  PROVE  TypeOK'
<1>1. PICK n \in 1..outLen : /\ IF n < outLen THEN Interrupted ELSE Uninterrupted
                             /\ wire' = wire \o SubSeq(out, 1, n)
  BY DEF SendOut
<1>2. outLen = Len(out)
  BY DEF SendOut, TypeOK
<1>3. wire' \in Seq(Bytes)
  <2>1. SubSeq(out, 1, n) \in Seq(Bytes)
    BY <1>2 DEF TypeOK
  <2> QED BY <1>1, <2>1 DEF TypeOK
<1>4. /\ out' \in Seq(Bytes) /\ outSize' \in Nat /\ Len(out') <= outSize'
      /\ outLen' = Len(out')
  <2> DEFINE items == IF handshake = 0 THEN <<Clear>> ELSE <<>>
  <2>1. items \in Seq(Bytes) /\ <<>> \in Seq(Bytes)
    BY ClearByte
  <2>2. Appended(<<>>, items)
    BY DEF SendOut
  <2> HIDE DEF items
  <2> QED BY <2>1, <2>2, AppendedType
<1>5. interrupts' \in 0..MaxInterrupts
  BY <1>1, TelnetAssumption DEF Interrupted, Uninterrupted, TypeOK
<1>6. handshake' \in 0..4
  BY DEF SendOut, TypeOK
<1> QED BY <1>3, <1>4, <1>5, <1>6 DEF SendOut, TypeOK, Blocks

LEMMA NewConnType == TypeOK => NewConn \in {sock, NaN}
BY DEF NewConn, TypeOK

LEMMA PlainType ==
  ASSUME TypeOK, \/ SendFails \/ NothingToSend \/ AcceptFails \/ ReadNothing
                 \/ NoInput \/ InputFull
  PROVE  TypeOK'
<1>1. conn' \in {sock, NaN} /\ pc' \in Blocks \cup Ended
  BY NewConnType DEF SendFails, NothingToSend, AcceptFails, ReadNothing, NoInput, InputFull,
     LoopEnds, TypeOK, Blocks, Ended
<1>2. UNCHANGED <<listening, rfds, wfds, inLen, outgoing, destroyed, ran, shown, taken, kernel,
                  interrupts>>
  BY DEF SendFails, NothingToSend, AcceptFails, ReadNothing, NoInput, InputFull
<1> QED BY <1>1, <1>2 DEF TypeOK, outgoing, kernel

LEMMA AcceptType ==
  ASSUME TypeOK, AcceptAndRead
  PROVE  TypeOK'
<1>1. conn' \in {sock, NaN} /\ pc' = "stdin"
  BY NewConnType DEF AcceptAndRead
<1>2. taken' \in 0..arrived
  BY SMTT(30) DEF AcceptAndRead, TypeOK
<1>3. out' \in Seq(Bytes) /\ Len(out') <= outSize /\ outLen' \in {-1, Len(out')}
  <2>1. (out' = <<>> /\ outLen' = -1) \/ UNCHANGED <<out, outLen>>
    BY DEF AcceptAndRead
  <2> QED BY <2>1, EmptyOut DEF TypeOK
<1> QED BY <1>1, <1>2, <1>3 DEF AcceptAndRead, TypeOK, kernel, Blocks

LEMMA ReadHandshakeType ==
  ASSUME TypeOK, ReadHandshake
  PROVE  TypeOK'
<1>1. conn' \in {sock, NaN} /\ pc' = "stdin"
  BY NewConnType DEF ReadHandshake
<1>2. PICK n \in 1..outSize : /\ Reads(outSize, n)
                              /\ out' = [k \in 1..n |-> Server(taken + k)]
                              /\ outLen' = n
  BY DEF ReadHandshake
<1>3. n \in Nat /\ n <= outSize /\ taken' = taken + n /\ taken + n <= arrived
  BY <1>2 DEF Reads, TypeOK
<1>4. out' \in Seq(Bytes)
  <2>1. taken \in Nat
    BY DEF TypeOK
  <2>2. [k \in 1..n |-> Server(taken + k)] \in Seq(Bytes)
    BY <1>3, <2>1, ServerBytes
  <2> QED BY <1>2, <2>2
<1>5. Len(out') = n
  <2>1. DOMAIN out' = 1..n
    BY <1>2
  <2>2. DOMAIN out' = 1..Len(out') /\ Len(out') \in Nat
    BY <1>4
  <2> QED BY <1>3, <2>1, <2>2
<1>6. taken' \in 0..arrived
  BY <1>3 DEF TypeOK
<1>7. UNCHANGED <<listening, rfds, wfds, inLen, outSize, handshake, wire, destroyed, ran, shown,
                  kernel, interrupts>>
  BY DEF ReadHandshake
<1> QED BY <1>1, <1>2, <1>3, <1>4, <1>5, <1>6, <1>7 DEF TypeOK, kernel, Blocks

LEMMA ReadSessionType ==
  ASSUME TypeOK, ReadSession
  PROVE  TypeOK'
<1>1. conn' \in {sock, NaN} /\ pc' \in {"stdin", "killed"} /\ ran' \in BOOLEAN
  BY NewConnType DEF ReadSession, TypeOK
<1>2. PICK n \in 1..MaxServer, start \in {0, 2, 3} :
        /\ start \in 0..n
        /\ Reads(MaxServer, n)
        /\ shown' = shown \o [k \in 1..(n - start) |-> Server(taken + start + k)]
  BY DEF ReadSession
<1>3. n - start \in Nat /\ taken + start \in Nat /\ taken + start + (n - start) <= arrived
      /\ taken' \in 0..arrived
  BY <1>2, TelnetAssumption DEF Reads, TypeOK
<1>4. [k \in 1..(n - start) |-> Server(taken + start + k)] \in Seq(Bytes)
  BY <1>3, ServerBytes
<1>5. shown' \in Seq(Bytes)
  BY <1>2, <1>4 DEF TypeOK
<1>6. UNCHANGED <<listening, rfds, wfds, inLen, outgoing, destroyed, kernel, interrupts>>
  BY DEF ReadSession
<1> QED BY <1>1, <1>3, <1>5, <1>6 DEF TypeOK, outgoing, kernel, Blocks, Ended

LEMMA ReadEndsType ==
  ASSUME TypeOK, ReadEnds
  PROVE  TypeOK'
<1>1. conn' \in {sock, NaN} /\ pc' = "stdin" /\ destroyed' \in BOOLEAN
  BY NewConnType DEF ReadEnds, TypeOK
<1>2. out' \in Seq(Bytes) /\ Len(out') <= outSize /\ outLen' \in {-1, Len(out')}
  <2>1. (out' = <<>> /\ outLen' \in {-1, 0}) \/ UNCHANGED <<out, outLen>>
    BY DEF ReadEnds
  <2> QED BY <2>1, EmptyOut DEF TypeOK
<1>3. peer' \in {"open", "refused", "closed", "reset", "gone"}
  BY DEF ReadEnds, TypeOK
<1> QED BY <1>1, <1>2, <1>3 DEF ReadEnds, TypeOK, Blocks

LEMMA ReadKeysType ==
  ASSUME TypeOK, ReadKeys
  PROVE  TypeOK'
<1>0. PICK lo \in 1..InSize, hi \in 1..InSize :
        /\ ReadsKeys(lo, hi)
        /\ \E s \in InOrder(KeysSent(lo, hi)) : Appended(out, [k \in DOMAIN s |-> Key(s[k])])
  BY DEF ReadKeys
<1>1. PICK s \in InOrder(KeysSent(lo, hi)) : Appended(out, [k \in DOMAIN s |-> Key(s[k])])
  BY <1>0
<1>2. lo \in Nat /\ hi \in Nat /\ 1 <= lo /\ hi <= typed /\ inLen' \in 0..InSize
      /\ inLen' <= typed
  BY <1>0, TelnetAssumption DEF ReadsKeys
<1>3. /\ out' \in Seq(Bytes) /\ outSize' \in Nat /\ Len(out') <= outSize'
      /\ outLen' = Len(out')
  <2>1. [k \in DOMAIN s |-> Key(s[k])] \in Seq(Bytes)
    BY <1>2, KeyBytes
  <2> QED BY <1>1, <2>1, AppendedType DEF TypeOK
<1>4. pc' \in Blocks \cup Ended
  BY DEF ReadKeys, LoopEnds, Blocks, Ended
<1>5. UNCHANGED <<listening, rfds, wfds, conn, handshake, wire, destroyed, ran, shown, taken,
                  kernel, interrupts>>
  BY <1>0 DEF ReadsKeys
<1> QED BY <1>2, <1>3, <1>4, <1>5 DEF TypeOK, kernel

LEMMA KeysEndType ==
  ASSUME TypeOK, ReadQuit \/ AppendFails
  PROVE  TypeOK'
<1>1. PICK lo \in 1..InSize, hi \in 1..InSize : ReadsKeys(lo, hi)
  BY DEF ReadQuit, AppendFails
<1>2. inLen' \in 0..InSize /\ inLen' <= typed
  BY <1>1, TelnetAssumption DEF ReadsKeys
<1>3. UNCHANGED <<listening, rfds, wfds, conn, handshake, wire, destroyed, ran, shown, taken,
                  kernel, interrupts, out, outLen, outSize>>
  BY <1>1 DEF ReadsKeys, ReadQuit, AppendFails
<1>4. pc' \in Ended
  BY DEF ReadQuit, AppendFails, Ended
<1> QED BY <1>2, <1>3, <1>4 DEF TypeOK, kernel

LEMMA EnvironmentType ==
  ASSUME TypeOK, \/ Environment(ServerSends) \/ Environment(ServerEnds)
                 \/ Environment(UserTypes) \/ Environment(Drain)
  PROVE  TypeOK'
<1>1. UNCHANGED <<listening, pc, rfds, wfds, conn, inLen, outgoing, destroyed, ran, shown, taken,
                  interrupts>>
  BY DEF Environment
<1>2. /\ arrived' \in 0..MaxServer /\ taken \in 0..arrived'
      /\ typed' \in 0..Len(Keyboard) /\ inLen <= typed'
      /\ writable' \in BOOLEAN
      /\ peer' \in {"open", "refused", "closed", "reset", "gone"}
  <2>1. Len(Keyboard) \in Nat /\ MaxServer \in Nat
    BY TelnetAssumption
  <2>2. CASE Environment(ServerSends)
    BY <2>1, <2>2 DEF Environment, ServerSends, TypeOK
  <2>3. CASE Environment(ServerEnds)
    BY <2>1, <2>3 DEF Environment, ServerEnds, TypeOK
  <2>4. CASE Environment(UserTypes)
    BY <2>1, <2>4 DEF Environment, UserTypes, TypeOK
  <2>5. CASE Environment(Drain)
    BY <2>1, <2>5 DEF Environment, Drain, TypeOK
  <2> QED BY <2>2, <2>3, <2>4, <2>5
<1> QED BY <1>1, <1>2 DEF TypeOK, outgoing

-----------------------------------------------------------------------------
(* Order *)

\* No byte of that source is in s.
Without(who, s) == \A i \in DOMAIN s : s[i].from # who

LEMMA ConcatAt ==
  ASSUME NEW s \in Seq(Bytes), NEW t \in Seq(Bytes)
  PROVE  /\ s \o t \in Seq(Bytes)
         /\ DOMAIN s = 1..Len(s) /\ DOMAIN t = 1..Len(t) /\ DOMAIN (s \o t) = 1..(Len(s) + Len(t))
         /\ Len(s) \in Nat /\ Len(t) \in Nat
         /\ \A i \in DOMAIN s : (s \o t)[i] = s[i] /\ i \in DOMAIN (s \o t)
         /\ \A i \in DOMAIN t : (s \o t)[Len(s) + i] = t[i] /\ Len(s) + i \in DOMAIN (s \o t)
         /\ \A i \in DOMAIN (s \o t) : i \in DOMAIN s \/ (i - Len(s) \in DOMAIN t /\ i > Len(s))
OBVIOUS

LEMMA AscendingConcat ==
  ASSUME NEW who, NEW s \in Seq(Bytes), NEW t \in Seq(Bytes)
  PROVE  Ascending(who, s \o t) <=> Ascending(who, s) /\ Ascending(who, t) /\ Below(who, s, t)
<1>1. ASSUME Ascending(who, s \o t)
      PROVE  Ascending(who, s) /\ Ascending(who, t) /\ Below(who, s, t)
  <2>1. Ascending(who, s)
    BY <1>1, ConcatAt, SMTT(30) DEF Ascending
  <2>2. Ascending(who, t)
    <3> SUFFICES ASSUME NEW i \in DOMAIN t, NEW j \in DOMAIN t, i < j,
                        t[i].from = who, t[j].from = who
                 PROVE  t[i].n < t[j].n
      BY DEF Ascending
    <3>1. /\ Len(s) + i \in DOMAIN (s \o t) /\ Len(s) + j \in DOMAIN (s \o t)
          /\ (s \o t)[Len(s) + i] = t[i] /\ (s \o t)[Len(s) + j] = t[j]
          /\ Len(s) + i < Len(s) + j
      BY ConcatAt
    <3> QED BY <1>1, <3>1 DEF Ascending
  <2>3. Below(who, s, t)
    <3> SUFFICES ASSUME NEW i \in DOMAIN s, NEW j \in DOMAIN t,
                        s[i].from = who, t[j].from = who
                 PROVE  s[i].n < t[j].n
      BY DEF Below
    <3>1. /\ i \in DOMAIN (s \o t) /\ Len(s) + j \in DOMAIN (s \o t)
          /\ (s \o t)[i] = s[i] /\ (s \o t)[Len(s) + j] = t[j]
          /\ i < Len(s) + j
      BY ConcatAt
    <3> QED BY <1>1, <3>1 DEF Ascending
  <2> QED BY <2>1, <2>2, <2>3
<1>2. ASSUME Ascending(who, s), Ascending(who, t), Below(who, s, t)
      PROVE  Ascending(who, s \o t)
  <2> SUFFICES ASSUME NEW i \in DOMAIN (s \o t), NEW j \in DOMAIN (s \o t), i < j,
                      (s \o t)[i].from = who, (s \o t)[j].from = who
               PROVE  (s \o t)[i].n < (s \o t)[j].n
    BY DEF Ascending
  <2>1. CASE i \in DOMAIN s /\ j \in DOMAIN s
    BY <1>2, <2>1, ConcatAt DEF Ascending
  <2>2. CASE i \in DOMAIN s /\ j \notin DOMAIN s
    <3>1. j - Len(s) \in DOMAIN t /\ (s \o t)[i] = s[i] /\ (s \o t)[j] = t[j - Len(s)]
      BY <2>2, ConcatAt
    <3> QED BY <1>2, <2>2, <3>1 DEF Below
  <2>3. CASE i \notin DOMAIN s
    <3>1. /\ i - Len(s) \in DOMAIN t /\ j - Len(s) \in DOMAIN t /\ i - Len(s) < j - Len(s)
          /\ (s \o t)[i] = t[i - Len(s)] /\ (s \o t)[j] = t[j - Len(s)]
      BY <2>3, ConcatAt
    <3> QED BY <1>2, <3>1 DEF Ascending
  <2> QED BY <2>1, <2>2, <2>3
<1> QED BY <1>1, <1>2

LEMMA BelowConcat ==
  ASSUME NEW who, NEW s \in Seq(Bytes), NEW t \in Seq(Bytes), NEW u \in Seq(Bytes)
  PROVE  /\ Below(who, s \o t, u) <=> Below(who, s, u) /\ Below(who, t, u)
         /\ Below(who, u, s \o t) <=> Below(who, u, s) /\ Below(who, u, t)
<1>1. ASSUME Below(who, s \o t, u) PROVE Below(who, s, u) /\ Below(who, t, u)
  <2>1. ASSUME NEW i \in DOMAIN s
        PROVE  i \in DOMAIN (s \o t) /\ (s \o t)[i] = s[i]
    BY <2>1, ConcatAt
  <2>2. ASSUME NEW i \in DOMAIN t
        PROVE  Len(s) + i \in DOMAIN (s \o t) /\ (s \o t)[Len(s) + i] = t[i]
    BY <2>2, ConcatAt
  <2> QED BY <1>1, <2>1, <2>2 DEF Below
<1>2. ASSUME Below(who, s, u), Below(who, t, u) PROVE Below(who, s \o t, u)
  BY <1>2, ConcatAt, SMTT(30) DEF Below
<1>3. ASSUME Below(who, u, s \o t) PROVE Below(who, u, s) /\ Below(who, u, t)
  <2>1. ASSUME NEW i \in DOMAIN s
        PROVE  i \in DOMAIN (s \o t) /\ (s \o t)[i] = s[i]
    BY <2>1, ConcatAt
  <2>2. ASSUME NEW i \in DOMAIN t
        PROVE  Len(s) + i \in DOMAIN (s \o t) /\ (s \o t)[Len(s) + i] = t[i]
    BY <2>2, ConcatAt
  <2> QED BY <1>3, <2>1, <2>2 DEF Below
<1>4. ASSUME Below(who, u, s), Below(who, u, t) PROVE Below(who, u, s \o t)
  BY <1>4, ConcatAt DEF Below
<1> QED BY <1>1, <1>2, <1>3, <1>4

LEMMA WithoutAny ==
  ASSUME NEW who, NEW s \in Seq(Bytes), NEW t \in Seq(Bytes), Without(who, s)
  PROVE  Ascending(who, s) /\ Below(who, s, t) /\ Below(who, t, s)
BY DEF Without, Ascending, Below

LEMMA OrderEnough == TypeOK /\ OrderInv => InOrderOnce
<1> SUFFICES ASSUME TypeOK, OrderInv PROVE InOrderOnce
  OBVIOUS
<1>1. wire \in Seq(Bytes) /\ out \in Seq(Bytes) /\ shown \in Seq(Bytes) /\ wire \o out \in Seq(Bytes)
  BY DEF TypeOK
<1>2. Ascending("key", Stream) /\ Ascending("server", Stream)
  BY <1>1, AscendingConcat DEF OrderInv, Stream
<1>3. Below("server", Stream, shown)
  BY <1>1, BelowConcat DEF OrderInv, Stream
<1>4. Ascending("server", Stream \o shown)
  BY <1>1, <1>2, <1>3, AscendingConcat DEF OrderInv, Stream
<1> QED BY <1>2, <1>4 DEF InOrderOnce

LEMMA PrefixAt ==
  ASSUME NEW s \in Seq(Bytes), NEW n \in 1..Len(s)
  PROVE  /\ SubSeq(s, 1, n) \in Seq(Bytes)
         /\ \A i \in DOMAIN SubSeq(s, 1, n) :
              i \in DOMAIN s /\ SubSeq(s, 1, n)[i] = s[i]
<1>1. SubSeq(s, 1, n) \in Seq(Bytes) /\ DOMAIN SubSeq(s, 1, n) = 1..n
  OBVIOUS
<1> QED BY <1>1

\* Writing the start of outBuf and forgetting the rest keeps the order.
LEMMA SendOutOrder ==
  ASSUME TypeOK, OrderInv, SendOut
  PROVE  OrderInv'
<1>1. PICK n \in 1..outLen : wire' = wire \o SubSeq(out, 1, n)
  BY DEF SendOut
<1> DEFINE p == SubSeq(out, 1, n)
<1>2. /\ wire \in Seq(Bytes) /\ out \in Seq(Bytes) /\ shown \in Seq(Bytes)
      /\ n \in 1..Len(out)
  BY DEF TypeOK, SendOut
<1>3. p \in Seq(Bytes) /\ \A i \in DOMAIN p : i \in DOMAIN out /\ p[i] = out[i]
  BY <1>2, PrefixAt
<1>4. out' \in Seq(Bytes) /\ Without("key", out') /\ Without("server", out')
  <2>1. out' = IF handshake = 0 THEN <<Clear>> ELSE <<>>
    BY DEF SendOut, Appended
  <2> QED BY <2>1, ClearByte DEF Without, Clear
<1>5. UNCHANGED <<shown, inLen, taken>> /\ (handshake' < 4 => handshake < 4)
  BY DEF SendOut, TypeOK
<1> HIDE DEF p
<1>6. ASSUME NEW who \in {"key", "server"}
      PROVE  Ascending(who, p) /\ Below(who, wire, p) /\ (Below(who, out, shown) => Below(who, p, shown))
  BY <1>2, <1>3, <1>6 DEF OrderInv, Ascending, Below
<1>7. wire' = wire \o p /\ wire' \in Seq(Bytes)
  BY <1>1, <1>2, <1>3 DEF p
<1>8. ASSUME NEW who \in {"key", "server"}
      PROVE  Ascending(who, wire') /\ Ascending(who, out') /\ Below(who, wire', out')
  <2>1. Ascending(who, wire')
    BY <1>2, <1>3, <1>6, <1>7, <1>8, AscendingConcat DEF OrderInv
  <2> QED BY <1>4, <1>7, <1>8, <2>1, WithoutAny
<1>9. Ascending("server", shown') /\ Below("server", wire', shown') /\ Below("server", out', shown')
  <2>1. Below("server", wire', shown)
    BY <1>2, <1>3, <1>6, <1>7, BelowConcat DEF OrderInv
  <2>2. Below("server", out', shown)
    BY <1>2, <1>4, WithoutAny
  <2> QED BY <1>5, <2>1, <2>2 DEF OrderInv
<1>10. Known(wire)' /\ Known(out)' /\ Known(shown)'
  <2>1. Known(p)
    BY <1>3 DEF OrderInv, Known, KnownTo
  <2>2. Known(wire \o p)
    BY <1>2, <1>3, <2>1, ConcatAt, SMTT(30) DEF OrderInv, Known, KnownTo
  <2> QED BY <1>4, <1>5, <1>7, <2>2 DEF OrderInv, Known, KnownTo, Without
<1> QED BY <1>5, <1>8, <1>9, <1>10 DEF OrderInv

\* Bytes that are just being read.
Fresh(s) ==
  \A i \in DOMAIN s : /\ s[i].from = "key" => s[i].n > inLen
                      /\ s[i].from = "server" => s[i].n > taken

LEMMA NumberOfByte ==
  ASSUME NEW s \in Seq(Bytes), NEW i \in DOMAIN s
  PROVE  s[i].n \in Int
<1>1. s[i] \in Bytes
  OBVIOUS
<1> QED BY <1>1, TelnetAssumption DEF Bytes, Clear

LEMMA KnownBelowFresh ==
  ASSUME TypeOK, NEW s \in Seq(Bytes), NEW t \in Seq(Bytes), Known(s), Fresh(t),
         NEW who \in {"key", "server"}
  PROVE  Below(who, s, t)
<1> SUFFICES ASSUME NEW i \in DOMAIN s, NEW j \in DOMAIN t, s[i].from = who, t[j].from = who
             PROVE  s[i].n < t[j].n
  BY DEF Below
<1>1. s[i].n \in Int /\ t[j].n \in Int
  BY NumberOfByte
<1>2. inLen \in Int /\ taken \in Int
  BY DEF TypeOK
<1> QED BY <1>1, <1>2 DEF Known, KnownTo, Fresh

LEMMA KnownStays ==
  ASSUME TypeOK, NEW s \in Seq(Bytes), Known(s), inLen' \in Nat, inLen <= inLen',
         taken' \in Nat, taken <= taken'
  PROVE  KnownTo(s, inLen', taken')
<1> SUFFICES ASSUME NEW i \in DOMAIN s
             PROVE  /\ s[i].from = "key" => s[i].n <= inLen'
                    /\ s[i].from = "server" => s[i].n <= taken'
  BY DEF KnownTo
<1>1. s[i].n \in Int
  BY NumberOfByte
<1> QED BY <1>1, SMTT(30) DEF TypeOK, Known, KnownTo

\* Reading into outBuf brings bytes that are new.
LEMMA ReadHandshakeOrder ==
  ASSUME TypeOK, OrderInv, ReadHandshake, TypeOK'
  PROVE  OrderInv'
<1>1. PICK n \in 1..outSize : /\ Reads(outSize, n)
                              /\ out' = [k \in 1..n |-> Server(taken + k)]
  BY DEF ReadHandshake
<1>2. /\ taken \in Nat /\ n \in Nat /\ taken' = taken + n /\ inLen \in Nat
      /\ UNCHANGED <<wire, shown, inLen, handshake>> /\ handshake < 4
  BY <1>1 DEF ReadHandshake, Reads, TypeOK
<1>3. shown = <<>>
  BY <1>2 DEF OrderInv
<1>4. \A k \in DOMAIN out' : /\ out'[k].from = "server" /\ out'[k].n = taken + k
                             /\ k \in Nat /\ 1 <= k /\ k <= n
  BY <1>1, <1>2 DEF Server
<1>5. Fresh(out')
  BY <1>2, <1>4 DEF Fresh
<1>6. wire \in Seq(Bytes) /\ out' \in Seq(Bytes)
  BY DEF TypeOK
<1>7. \A who \in {"key", "server"} : Below(who, wire, out')
  BY <1>5, <1>6, KnownBelowFresh DEF OrderInv
<1>8. Ascending("server", out') /\ Ascending("key", out')
  BY <1>2, <1>4 DEF Ascending
<1>9. Known(wire)' /\ Known(out)'
  <2>1. Known(wire)'
    BY <1>2, <1>6, KnownStays DEF OrderInv, Known
  <2> QED BY <1>2, <1>4, <2>1 DEF Known, KnownTo
<1> QED BY <1>2, <1>3, <1>7, <1>8, <1>9 DEF OrderInv, Ascending, Below, Known, KnownTo

\* What is shown is new.
LEMMA ReadSessionOrder ==
  ASSUME TypeOK, OrderInv, ReadSession
  PROVE  OrderInv'
<1>1. PICK n \in 1..MaxServer, start \in {0, 2, 3} :
        /\ start \in 0..n
        /\ Reads(MaxServer, n)
        /\ shown' = shown \o [k \in 1..(n - start) |-> Server(taken + start + k)]
  BY DEF ReadSession
<1> DEFINE items == [k \in 1..(n - start) |-> Server(taken + start + k)]
<1>2. /\ taken \in Nat /\ n \in Nat /\ start \in Nat /\ start <= n
      /\ taken' = taken + n /\ taken' <= arrived /\ inLen \in Nat
      /\ UNCHANGED <<wire, out, inLen, handshake>> /\ ~(handshake < 4)
  BY <1>1, TelnetAssumption DEF ReadSession, Reads, TypeOK, outgoing
<1>3. items \in Seq(Bytes)
  <2>1. taken + start \in Nat /\ n - start \in Nat /\ taken + start + (n - start) <= arrived
    BY <1>2 DEF TypeOK
  <2> QED BY <2>1, ServerBytes
<1>4. \A k \in DOMAIN items : /\ items[k].from = "server" /\ items[k].n = taken + start + k
                              /\ k \in Nat /\ 1 <= k /\ k <= n - start
  BY <1>2 DEF Server
<1>5. shown' = shown \o items
  BY <1>1
<1> HIDE DEF items
<1>6. Fresh(items) /\ Ascending("server", items)
  BY <1>2, <1>4 DEF Fresh, Ascending
<1>7. wire \in Seq(Bytes) /\ out \in Seq(Bytes) /\ shown \in Seq(Bytes)
  BY DEF TypeOK
<1>8. /\ Below("server", wire, items) /\ Below("server", out, items)
      /\ Below("server", shown, items)
  BY <1>3, <1>6, <1>7, KnownBelowFresh DEF OrderInv
<1>9. /\ Ascending("server", shown') /\ Below("server", wire, shown')
      /\ Below("server", out, shown')
  BY <1>3, <1>5, <1>6, <1>7, <1>8, AscendingConcat, BelowConcat DEF OrderInv
<1>10. Known(wire)' /\ Known(out)' /\ Known(shown)'
  <2>1. Known(wire)' /\ Known(out)'
    BY <1>2, <1>7, KnownStays DEF OrderInv, Known
  <2>2. KnownTo(shown, inLen', taken')
    BY <1>2, <1>7, KnownStays DEF OrderInv, Known
  <2>3. \A i \in DOMAIN items : /\ items[i].from = "server" /\ items[i].n <= taken'
    BY <1>2, <1>4
  <2>4. Known(shown)'
    <3> SUFFICES ASSUME NEW i \in DOMAIN (shown \o items)
                 PROVE  /\ (shown \o items)[i].from = "key" => (shown \o items)[i].n <= inLen'
                        /\ (shown \o items)[i].from = "server" => (shown \o items)[i].n <= taken'
      BY <1>5 DEF Known, KnownTo
    <3>1. CASE i \in DOMAIN shown
      BY <1>3, <1>7, <2>2, <3>1, ConcatAt DEF KnownTo
    <3>2. CASE i \notin DOMAIN shown
      <4>1. i - Len(shown) \in DOMAIN items /\ (shown \o items)[i] = items[i - Len(shown)]
        BY <1>3, <1>7, <3>2, ConcatAt
      <4> QED BY <2>3, <4>1
    <3> QED BY <3>1, <3>2
  <2> QED BY <2>1, <2>4
<1> QED BY <1>2, <1>9, <1>10 DEF OrderInv, Ascending, Below, Known, KnownTo

\* So are keys, and they come in order.
LEMMA ReadKeysOrder ==
  ASSUME TypeOK, OrderInv, ReadKeys
  PROVE  OrderInv'
<1>1. PICK lo \in 1..InSize, hi \in 1..InSize :
        /\ ReadsKeys(lo, hi)
        /\ \E s \in InOrder(KeysSent(lo, hi)) : Appended(out, [k \in DOMAIN s |-> Key(s[k])])
  BY DEF ReadKeys
<1>2. PICK s \in InOrder(KeysSent(lo, hi)) : Appended(out, [k \in DOMAIN s |-> Key(s[k])])
  BY <1>1
<1> DEFINE items == [k \in DOMAIN s |-> Key(s[k])]
<1>3. /\ lo \in Nat /\ hi \in Nat /\ lo = inLen + 1 /\ lo <= hi /\ hi <= typed /\ inLen' = hi
      /\ inLen \in Nat /\ taken \in Nat
      /\ UNCHANGED <<wire, shown, taken, handshake>>
  BY <1>1, TelnetAssumption DEF ReadsKeys, TypeOK
<1>4. items \in Seq(Bytes)
  BY <1>3, KeyBytes
<1>5. \A k \in DOMAIN s : s[k] \in lo..hi
  <2>1. s \in [1..Cardinality(KeysSent(lo, hi)) -> KeysSent(lo, hi)]
    BY DEF InOrder
  <2> QED BY <2>1 DEF KeysSent
<1>6. \A i, j \in DOMAIN s : i < j => s[i] < s[j]
  BY DEF InOrder
<1>7. \A k \in DOMAIN items : /\ items[k].from = "key" /\ items[k].n > inLen
                              /\ items[k].n <= inLen'
  BY <1>3, <1>5 DEF Key
<1>8. Ascending("key", items) /\ Ascending("server", items)
  BY <1>6 DEF Ascending, Key
<1>9. out' = out \o items
  BY <1>2 DEF Appended
<1> HIDE DEF items
<1>10. Fresh(items) /\ Without("server", items)
  BY <1>7 DEF Fresh, Without
<1>11. wire \in Seq(Bytes) /\ out \in Seq(Bytes) /\ shown \in Seq(Bytes)
  BY DEF TypeOK
<1>12. ASSUME NEW who \in {"key", "server"}
       PROVE  Ascending(who, out') /\ Below(who, wire, out')
  <2>1. Below(who, out, items) /\ Below(who, wire, items)
    BY <1>4, <1>10, <1>11, <1>12, KnownBelowFresh DEF OrderInv
  <2>2. Ascending(who, out) /\ Ascending(who, items) /\ Below(who, wire, out)
    BY <1>8, <1>12 DEF OrderInv
  <2> QED BY <1>4, <1>9, <1>11, <2>1, <2>2, AscendingConcat, BelowConcat
<1>13. Below("server", out', shown)
  <2>1. Below("server", items, shown)
    BY <1>4, <1>10, <1>11, WithoutAny
  <2> QED BY <1>4, <1>9, <1>11, <2>1, BelowConcat DEF OrderInv
<1>14. Known(wire)' /\ Known(out)' /\ Known(shown)'
  <2>1. Known(wire)' /\ Known(shown)'
    BY <1>3, <1>11, KnownStays DEF OrderInv, Known
  <2>2. KnownTo(out, inLen', taken')
    BY <1>3, <1>11, KnownStays DEF OrderInv, Known
  <2>3. Known(out)'
    <3> SUFFICES ASSUME NEW i \in DOMAIN (out \o items)
                 PROVE  /\ (out \o items)[i].from = "key" => (out \o items)[i].n <= inLen'
                        /\ (out \o items)[i].from = "server" => (out \o items)[i].n <= taken'
      BY <1>9 DEF Known, KnownTo
    <3>1. CASE i \in DOMAIN out
      BY <1>4, <1>11, <2>2, <3>1, ConcatAt DEF KnownTo
    <3>2. CASE i \notin DOMAIN out
      <4>1. i - Len(out) \in DOMAIN items /\ (out \o items)[i] = items[i - Len(out)]
        BY <1>4, <1>11, <3>2, ConcatAt
      <4> QED BY <1>7, <4>1
    <3> QED BY <3>1, <3>2
  <2> QED BY <2>1, <2>3
<1> QED BY <1>3, <1>12, <1>13, <1>14 DEF OrderInv, Ascending, Below, Known, KnownTo

\* The other steps leave what went out alone, and at most drop what is in outBuf.
LEMMA KeepsOrder ==
  ASSUME TypeOK, OrderInv, UNCHANGED <<wire, shown, handshake>>, out' = out \/ out' = <<>>,
         inLen' \in Nat, inLen <= inLen', taken' \in Nat, taken <= taken'
  PROVE  OrderInv'
<1>1. wire \in Seq(Bytes) /\ out \in Seq(Bytes) /\ shown \in Seq(Bytes)
  BY DEF TypeOK
<1>2. Known(wire)' /\ Known(shown)' /\ (out' = out => Known(out)')
  BY <1>1, KnownStays DEF OrderInv, Known
<1>3. CASE out' = out
  BY <1>2, <1>3 DEF OrderInv, Ascending, Below
<1>4. CASE out' = <<>>
  BY <1>2, <1>4 DEF OrderInv, Ascending, Below, Known, KnownTo
<1> QED BY <1>3, <1>4

LEMMA OtherOrder ==
  ASSUME TypeOK, TypeOK', OrderInv,
         \/ Select \/ SendFails \/ NothingToSend \/ AcceptAndRead \/ AcceptFails \/ ReadNothing
         \/ ReadEnds \/ NoInput \/ ReadQuit \/ AppendFails \/ InputFull
         \/ Environment(ServerSends) \/ Environment(ServerEnds)
         \/ Environment(UserTypes) \/ Environment(Drain)
  PROVE  OrderInv'
<1>1. inLen' \in Nat /\ taken' \in Nat /\ inLen \in Nat /\ taken \in Nat
  BY DEF TypeOK
<1>2. CASE ReadQuit \/ AppendFails
  <2>1. PICK lo \in 1..InSize, hi \in 1..InSize : ReadsKeys(lo, hi)
    BY <1>2 DEF ReadQuit, AppendFails
  <2>2. UNCHANGED <<wire, shown, handshake, out, taken>> /\ inLen <= inLen'
    BY <1>1, <1>2, <2>1 DEF ReadsKeys, ReadQuit, AppendFails
  <2> QED BY <1>1, <2>2, KeepsOrder
<1>3. CASE AcceptAndRead
  <2>1. UNCHANGED <<wire, shown, handshake, inLen>> /\ out' \in {out, <<>>} /\ taken <= taken'
    BY <1>1, <1>3 DEF AcceptAndRead
  <2> QED BY <1>1, <2>1, KeepsOrder
<1>4. CASE ~(ReadQuit \/ AppendFails \/ AcceptAndRead)
  <2>1. UNCHANGED <<wire, shown, handshake, inLen, taken>> /\ out' \in {out, <<>>}
    BY <1>4 DEF Select, SendFails, NothingToSend, AcceptFails, ReadNothing, ReadEnds, NoInput,
       InputFull, Environment, outgoing
  <2> QED BY <1>1, <2>1, KeepsOrder
<1> QED BY <1>2, <1>3, <1>4

-----------------------------------------------------------------------------
(* What select() found ready, and the listening loop *)

LEMMA Numbers ==
  Inv => /\ conn \in {sock, NaN} /\ pc \in Blocks \cup Ended
         /\ inLen \in Int /\ typed \in Int /\ arrived \in Int /\ taken \in Int /\ interrupts \in Nat
BY DEF Inv, TypeOK

\* With nothing to send, nothing is watched for room.
LEMMA ListenSets ==
  ASSUME Select, outLen = 0, wfds = {}
  PROVE  wfds' = {}
<1>1. FD_CLR(sock, FD_ZERO(wfds)) = {}
  BY DEF FD_CLR, FD_ZERO
<1> QED BY <1>1 DEF Select, select

LEMMA SelectStep ==
  ASSUME Inv, Select
  PROVE  ReadyInv' /\ ListenInv'
<1> DEFINE w == FD_CLR(sock, FD_ZERO(wfds))
           r == FD_SET(sock, FD_ZERO(rfds))
           wset == IF outLen # 0 THEN FD_SET(sock, w) ELSE w
           rset == IF outLen = 0 /\ inLen < InSize THEN FD_SET(STDIN_FILENO, r) ELSE r
<1>1. PICK intr \in BOOLEAN :
        /\ IF intr THEN Interrupted ELSE Uninterrupted
        /\ rfds' = IF intr THEN rset ELSE rset \cap Readable
        /\ wfds' = IF intr THEN wset ELSE wset \cap Writable
  BY DEF Select, select
<1> HIDE DEF rset
<1>2. /\ UNCHANGED <<listening, conn, inLen, out, outLen, handshake, wire, shown, taken, arrived,
                     typed, peer, destroyed, ran>>
      /\ pc = "select" /\ pc' = "write"
  BY DEF Select, outgoing, kernel
<1>3. Readable' = Readable
  BY <1>2 DEF Readable
<1>4. interrupts' = 0 => rfds' \subseteq Readable
  BY <1>1, Numbers DEF Interrupted
<1>5. ReadyInv'
  BY <1>2, <1>3, <1>4 DEF ReadyInv
<1>6. CASE listening
  <2>1. /\ handshake = 0 /\ ~ran /\ wire = <<>> /\ shown = <<>> /\ ~destroyed
        /\ inLen = 0 /\ conn = NaN /\ outLen = 0
    BY <1>2, <1>6 DEF Inv, ListenInv, Blocks
  <2>2. wfds' = {}
    BY <1>6, <2>1, ListenSets DEF Inv, ListenInv
  <2>3. ListenInv'
    BY <1>2, <2>1, <2>2 DEF ListenInv, Blocks
  <2> QED BY <1>5, <2>3
<1>7. CASE ~listening
  BY <1>2, <1>5, <1>7 DEF ListenInv
<1> QED BY <1>6, <1>7

\* A step of the loop that neither reads a key nor touches outBuf, with -l.
LEMMA WriteStep ==
  ASSUME Inv, SendOut \/ SendFails \/ NothingToSend
  PROVE  ReadyInv' /\ ListenInv'
<1>1. /\ pc = "write" /\ pc' \in {"socket", "killed"}
      /\ UNCHANGED <<listening, rfds, inLen, typed, arrived, taken, peer, shown, destroyed,
                     ran, wfds>>
  BY DEF SendOut, SendFails, NothingToSend, kernel
<1>2. interrupts' = 0 => interrupts = 0
  BY Numbers DEF SendOut, SendFails, NothingToSend, Interrupted, Uninterrupted
<1>4. Readable' = Readable
  BY <1>1 DEF Readable
<1>5. ReadyInv'
  BY <1>1, <1>2, <1>4 DEF Inv, ReadyInv
<1>6. CASE listening
  <2>1. outLen = 0 /\ wfds = {} /\ conn = NaN /\ inLen = 0
    BY <1>1, <1>6 DEF Inv, ListenInv, Blocks
  <2>2. NothingToSend
    BY <2>1 DEF SendOut, SendFails
  <2>3. UNCHANGED <<conn, outLen, handshake, wire>> /\ pc' = "socket"
    BY <2>1, <2>2 DEF NothingToSend, outgoing, FD_ISSET
  <2> QED BY <1>1, <1>5, <1>6, <2>1, <2>3 DEF Inv, ListenInv, Blocks
<1>7. CASE ~listening
  BY <1>1, <1>5, <1>7 DEF ListenInv
<1> QED BY <1>6, <1>7

\* After the block of the socket, the keys that were there are there still.
LEMMA SocketKeepsKeys ==
  ASSUME Inv, pc = "socket", pc' \in {"stdin", "killed", "exception"},
         UNCHANGED <<rfds, typed, inLen, interrupts>>
  PROVE  ReadyInv'
<1>1. interrupts = 0 /\ STDIN_FILENO \in rfds => STDIN_FILENO \in Readable
  BY DEF Inv, ReadyInv
<1>2. STDIN_FILENO \in Readable => typed > inLen
  BY DEF Readable, STDIN_FILENO, sock
<1> QED BY <1>1, <1>2 DEF ReadyInv

LEMMA ListenStep ==
  ASSUME Inv, AcceptAndRead \/ AcceptFails
  PROVE  ReadyInv' /\ ListenInv'
<1>1. /\ pc = "socket" /\ pc' \in {"stdin", "exception"} /\ listening
      /\ UNCHANGED <<listening, rfds, typed, arrived, inLen, interrupts, handshake, wire, shown,
                     destroyed, ran, wfds>>
      /\ conn = NaN /\ inLen = 0 /\ outLen = 0
  BY DEF AcceptAndRead, AcceptFails, outgoing, kernel, Inv, ListenInv, Blocks
<1>2. NewConn = NaN
  BY <1>1 DEF NewConn
<1>3. conn' = NaN
  BY <1>1, <1>2 DEF AcceptAndRead, AcceptFails
<1>4. pc' = "stdin" => outLen' = IF STDIN_FILENO \in rfds THEN -1 ELSE 0
  BY <1>1, <1>2 DEF AcceptAndRead, AcceptFails, FD_ISSET, Bit, STDIN_FILENO
<1>5. ReadyInv'
  BY <1>1, SocketKeepsKeys
<1>6. ListenInv'
  BY <1>1, <1>3, <1>4 DEF Inv, ListenInv, Blocks
<1> QED BY <1>5, <1>6

LEMMA ReadStep ==
  ASSUME Inv, ReadNothing \/ ReadHandshake \/ ReadSession \/ ReadEnds
  PROVE  ReadyInv' /\ ListenInv'
<1>1. /\ pc = "socket" /\ pc' \in {"stdin", "killed"} /\ ~listening
      /\ UNCHANGED <<listening, rfds, typed, arrived, inLen, interrupts>>
  BY DEF ReadNothing, ReadHandshake, ReadSession, ReadEnds, Reads, kernel
<1>2. ReadyInv'
  BY <1>1, SocketKeepsKeys
<1> QED BY <1>1, <1>2 DEF ListenInv

LEMMA KeyboardStep ==
  ASSUME Inv, NoInput \/ ReadKeys \/ ReadQuit \/ AppendFails \/ InputFull
  PROVE  ReadyInv' /\ ListenInv'
<1>1. /\ pc = "stdin" /\ pc' \in {"destroyed", "select", "exit", "exception"}
      /\ UNCHANGED <<listening, conn, handshake, wire, shown, taken, arrived, typed, interrupts,
                     destroyed, ran, wfds>>
  <2>1. CASE NoInput \/ InputFull
    BY <2>1 DEF NoInput, InputFull, LoopEnds, kernel, outgoing
  <2>2. CASE ReadKeys \/ ReadQuit \/ AppendFails
    <3>1. \E lo, hi \in 1..InSize : ReadsKeys(lo, hi)
      BY <2>2 DEF ReadKeys, ReadQuit, AppendFails
    <3>2. pc' \in {"destroyed", "select", "exit", "exception"}
      BY <2>2 DEF ReadKeys, ReadQuit, AppendFails, LoopEnds
    <3> QED BY <3>1, <3>2 DEF ReadsKeys, kernel
  <2> QED BY <2>1, <2>2
<1>3. ReadyInv'
  BY <1>1 DEF ReadyInv
<1>4. CASE listening
  <2>1. /\ inLen = 0 /\ conn = NaN /\ handshake = 0 /\ ~ran /\ wire = <<>> /\ shown = <<>>
        /\ ~destroyed /\ wfds = {} /\ outLen = IF STDIN_FILENO \in rfds THEN -1 ELSE 0
    BY <1>1, <1>4 DEF Inv, ListenInv, Blocks
  <2>2. pc' \in {"exit", "exception"} \/ NoInput
    <3>1. ~ReadKeys
      <4>1. STDIN_FILENO \notin rfds => ~FD_ISSET(STDIN_FILENO, rfds)
        BY DEF FD_ISSET, Bit, STDIN_FILENO, NaN
      <4>2. STDIN_FILENO \in rfds => ~(outLen >= 0)
        BY <2>1
      <4> QED BY <4>1, <4>2 DEF ReadKeys, ReadsKeys
    <3>2. ~InputFull
      BY <2>1, TelnetAssumption DEF InputFull
    <3>3. ReadQuit \/ AppendFails => pc' \in {"exit", "exception"}
      BY DEF ReadQuit, AppendFails
    <3> QED BY <3>1, <3>2, <3>3
  <2>3. CASE pc' \in {"exit", "exception"}
    BY <1>1, <1>3, <2>1, <2>3 DEF ListenInv, Blocks
  <2>4. CASE NoInput
    <3>1. STDIN_FILENO \notin rfds
      BY <2>4 DEF NoInput, FD_ISSET, Bit, STDIN_FILENO, NaN
    <3>2. outLen' = 0 /\ inLen' = 0 /\ pc' = "select"
      BY <2>1, <2>4, <3>1 DEF NoInput, LoopEnds, outgoing
    <3> QED BY <1>1, <1>3, <2>1, <3>2 DEF ListenInv, Blocks
  <2> QED BY <2>2, <2>3, <2>4
<1>5. CASE ~listening
  BY <1>1, <1>3, <1>5 DEF ListenInv
<1> QED BY <1>4, <1>5

LEMMA EnvironmentStep ==
  ASSUME Inv, \/ Environment(ServerSends) \/ Environment(ServerEnds)
              \/ Environment(UserTypes) \/ Environment(Drain)
  PROVE  ReadyInv' /\ ListenInv'
<1>1. /\ UNCHANGED <<listening, pc, rfds, wfds, conn, inLen, outLen, handshake, wire, shown,
                     taken, interrupts, destroyed, ran>>
  BY DEF Environment, outgoing
<1>2. /\ arrived' \in {arrived, arrived + 1} /\ typed' \in {typed, typed + 1}
      /\ (peer # "open" => peer' # "open")
  BY DEF Environment, ServerSends, ServerEnds, UserTypes, Drain
<1>3. /\ arrived' \in Int /\ typed' \in Int
      /\ (arrived > taken => arrived' > taken') /\ (typed > inLen => typed' > inLen')
  BY <1>1, <1>2, Numbers
<1>5. Readable \subseteq Readable'
  BY <1>2, <1>3 DEF Readable
<1>6. ReadyInv'
  BY <1>1, <1>3, <1>5 DEF Inv, ReadyInv
<1>7. ListenInv'
  BY <1>1 DEF Inv, ListenInv
<1> QED BY <1>6, <1>7

-----------------------------------------------------------------------------
(* The error of a read() *)

LEMMA LoopError ==
  ASSUME Inv, TypeOK', Loop
  PROVE  ErrorInv'
<1> SUFFICES ASSUME ~listening', outLen' = -1 \/ pc' = "exception"
             PROVE  peer' \in {"refused", "gone"}
  BY DEF ErrorInv
<1>1. ~listening
  BY DEF Loop, Select, SendOut, SendFails, NothingToSend, AcceptAndRead, AcceptFails,
     ReadNothing, ReadHandshake, ReadSession, ReadEnds, NoInput, ReadKeys, ReadQuit, AppendFails,
     InputFull, ReadsKeys
<1>2. outLen = -1 => peer \in {"refused", "gone"}
  BY <1>1 DEF Inv, ErrorInv
<1>3. CASE ReadEnds
  <2>1. pc' # "exception" /\ (outLen' = outLen \/ outLen' = 0 \/ peer \notin {"closed", "gone"})
    BY <1>3 DEF ReadEnds
  <2>2. peer \in {"refused", "closed", "reset", "gone"}
    BY <1>3 DEF ReadEnds, Inv, TypeOK
  <2>3. peer' = IF peer = "reset" THEN "gone" ELSE peer
    BY <1>3 DEF ReadEnds
  <2> QED BY <1>2, <2>1, <2>2, <2>3
<1>4. CASE ReadHandshake
  BY <1>4 DEF ReadHandshake, Inv, TypeOK
<1>5. CASE SendOut \/ ReadKeys
  <2>1. outLen' = Len(out') /\ pc' # "exception"
    BY <1>5 DEF SendOut, ReadKeys, Appended, LoopEnds
  <2>2. Len(out') \in Nat
    BY DEF TypeOK
  <2> QED BY <2>1, <2>2
<1>6. CASE AppendFails
  <2>1. outLen < 0 /\ UNCHANGED <<peer, outLen>>
    BY <1>6 DEF AppendFails, ReadsKeys, kernel
  <2>2. outLen = -1
    BY <2>1 DEF Inv, TypeOK
  <2> QED BY <1>2, <2>1, <2>2
<1>7. CASE AcceptAndRead \/ AcceptFails
  BY <1>1, <1>7 DEF AcceptAndRead, AcceptFails
<1>8. CASE \/ Select \/ SendFails \/ NothingToSend \/ ReadNothing \/ ReadSession
           \/ NoInput \/ ReadQuit \/ InputFull
  <2>1. UNCHANGED <<peer, outLen>> /\ pc' # "exception"
    BY <1>8 DEF Select, SendFails, NothingToSend, ReadNothing, ReadSession, NoInput, ReadQuit,
       InputFull, ReadsKeys, LoopEnds, kernel, outgoing
  <2> QED BY <1>2, <2>1
<1> QED BY <1>3, <1>4, <1>5, <1>6, <1>7, <1>8 DEF Loop

LEMMA EnvironmentError ==
  ASSUME Inv, \/ Environment(ServerSends) \/ Environment(ServerEnds)
              \/ Environment(UserTypes) \/ Environment(Drain)
  PROVE  ErrorInv'
<1>1. UNCHANGED <<listening, pc, outLen>> /\ (peer' = peer \/ peer = "open")
  BY DEF Environment, ServerSends, ServerEnds, UserTypes, Drain, outgoing
<1> QED BY <1>1 DEF Inv, ErrorInv

-----------------------------------------------------------------------------
(* The invariant *)

LEMMA InitInv == Init => Inv
<1> SUFFICES ASSUME Init PROVE Inv
  OBVIOUS
<1>1. TypeOK
  <2>1. Len(Keyboard) \in Nat /\ <<>> \in Seq(Bytes) /\ Len(<<>>) = 0
    BY TelnetAssumption
  <2>2. /\ out = <<>> /\ wire = <<>> /\ shown = <<>> /\ outLen = 0 /\ outSize = OutSize
        /\ inLen = 0 /\ typed = 0 /\ arrived = 0 /\ taken = 0 /\ interrupts = 0
        /\ rfds = {} /\ wfds = {} /\ handshake = 0 /\ conn = NaN /\ pc = "select"
        /\ listening \in BOOLEAN /\ destroyed \in BOOLEAN /\ ran \in BOOLEAN
        /\ writable \in BOOLEAN /\ peer \in {"open", "refused"}
    BY DEF Init
  <2> QED BY <2>1, <2>2, TelnetAssumption DEF TypeOK, Blocks
<1>2. ReadyInv /\ ListenInv /\ ErrorInv
  BY DEF Init, ReadyInv, ListenInv, ErrorInv, Blocks
<1>3. OrderInv
  BY DEF Init, OrderInv, Ascending, Below, Known, KnownTo
<1> QED BY <1>1, <1>2, <1>3 DEF Inv

LEMMA LoopInv ==
  ASSUME Inv, Loop
  PROVE  Inv'
<1>1. TypeOK'
  BY SelectType, SendOutType, PlainType, AcceptType, ReadHandshakeType, ReadSessionType,
     ReadEndsType, ReadKeysType, KeysEndType DEF Loop, Inv
<1>2. ReadyInv' /\ ListenInv'
  BY SelectStep, WriteStep, ListenStep, ReadStep, KeyboardStep DEF Loop
<1>3. OrderInv'
  BY <1>1, SendOutOrder, ReadHandshakeOrder, ReadSessionOrder, ReadKeysOrder, OtherOrder
     DEF Loop, Inv
<1>4. ErrorInv'
  BY <1>1, LoopError
<1> QED BY <1>1, <1>2, <1>3, <1>4 DEF Inv

LEMMA NextInv == Inv /\ [Next]_vars => Inv'
<1> SUFFICES ASSUME Inv, [Next]_vars PROVE Inv'
  OBVIOUS
<1>1. CASE UNCHANGED vars
  BY <1>1 DEF vars, outgoing, kernel, Inv, TypeOK, ReadyInv, ListenInv, OrderInv, ErrorInv,
     Readable, Known
<1>2. CASE \/ Environment(ServerSends) \/ Environment(ServerEnds)
           \/ Environment(UserTypes) \/ Environment(Drain)
  <2>1. TypeOK'
    BY <1>2, EnvironmentType DEF Inv
  <2>2. OrderInv'
    BY <1>2, <2>1, OtherOrder DEF Inv
  <2> QED BY <1>2, <2>1, <2>2, EnvironmentStep, EnvironmentError DEF Inv
<1> QED BY <1>1, <1>2, LoopInv DEF Next

LEMMA SpecInv == Spec => []Inv
BY InitInv, NextInv, PTL DEF Spec

\* The state of the client has its types: the keys that were read fit into inBuf, and
\* what is to be sent into outBuf.
THEOREM TypeCorrect == Spec => []TypeOK
BY SpecInv, PTL DEF Inv

\* No byte goes out twice or before one that was typed or received earlier, whatever
\* signals, short writes and overwritten buffers lose.
THEOREM InOrderAndOnce == Spec => []InOrderOnce
<1>1. Inv => InOrderOnce
  BY OrderEnough DEF Inv
<1> QED BY <1>1, SpecInv, PTL

\* While the connection is open or was closed by the server, the loop of a client
\* does not end with an exception.
THEOREM FailureOnly == Spec => []ExceptionOnlyAfterFailure
<1>1. Inv => ExceptionOnlyAfterFailure
  BY DEF Inv, ErrorInv, ExceptionOnlyAfterFailure
<1> QED BY <1>1, SpecInv, PTL

\* What is added at the end leaves the start alone.
LEMMA PrefixConcat ==
  ASSUME NEW s \in Seq(Bytes), NEW t \in Seq(Bytes)
  PROVE  IsPrefix(s, s \o t) /\ IsPrefix(s, s)
<1>1. SubSeq(s \o t, 1, Len(s)) = s /\ SubSeq(s, 1, Len(s)) = s
  OBVIOUS
<1>2. Len(s) <= Len(s \o t)
  OBVIOUS
<1> QED BY <1>1, <1>2 DEF IsPrefix

\* A step that no signal cuts short drops nothing of outBuf once the handshake is done,
\* or outside the block of the socket.
LEMMA LosslessStep ==
  ASSUME Inv, TypeOK', [Next]_vars, interrupts' = interrupts, handshake = 4 \/ pc # "socket"
  PROVE  IsPrefix(Stream, Stream')
<1>1. wire \in Seq(Bytes) /\ out \in Seq(Bytes) /\ Stream \in Seq(Bytes) /\ out' \in Seq(Bytes)
  BY DEF Inv, TypeOK, Stream
<1>2. CASE UNCHANGED <<wire, out>>
  BY <1>1, <1>2, PrefixConcat DEF Stream
<1>3. CASE SendOut
  <2>1. outLen = Len(out) /\ Len(out) \in Nat /\ interrupts \in Int
    BY <1>1, <1>3 DEF SendOut, Inv, TypeOK
  <2>2. wire' = wire \o SubSeq(out, 1, outLen)
    <3>1. PICK n \in 1..outLen : /\ IF n < outLen THEN Interrupted ELSE Uninterrupted
                                 /\ wire' = wire \o SubSeq(out, 1, n)
      BY <1>3 DEF SendOut
    <3>2. n = outLen
      BY <2>1, <3>1 DEF Interrupted
    <3> QED BY <3>1, <3>2
  <2>3. SubSeq(out, 1, outLen) = out
    BY <1>1, <2>1
  <2>4. Stream' = Stream \o out'
    BY <2>2, <2>3 DEF Stream
  <2> QED BY <1>1, <2>4, PrefixConcat
<1>4. CASE ReadKeys
  <2>1. PICK items : out' = out \o items /\ items \in Seq(Bytes) /\ wire' = wire
    <3>1. PICK lo \in 1..InSize, hi \in 1..InSize :
            /\ ReadsKeys(lo, hi)
            /\ \E s \in InOrder(KeysSent(lo, hi)) :
                 Appended(out, [k \in DOMAIN s |-> Key(s[k])])
      BY <1>4 DEF ReadKeys
    <3>2. PICK s \in InOrder(KeysSent(lo, hi)) : Appended(out, [k \in DOMAIN s |-> Key(s[k])])
      BY <3>1
    <3>3. lo \in Nat /\ hi \in Nat /\ 1 <= lo /\ hi <= typed /\ wire' = wire
      BY <3>1, TelnetAssumption DEF ReadsKeys
    <3>4. [k \in DOMAIN s |-> Key(s[k])] \in Seq(Bytes)
      BY <3>3, KeyBytes DEF Inv
    <3> QED BY <3>2, <3>3, <3>4 DEF Appended
  <2>2. Stream' = Stream \o items
    BY <1>1, <2>1, SMTT(30) DEF Stream
  <2> QED BY <1>1, <2>1, <2>2, PrefixConcat
<1>5. CASE AcceptAndRead
  BY <1>5 DEF AcceptAndRead, Inv, ListenInv
<1>6. CASE ReadHandshake \/ ReadEnds
  <2>1. handshake = 4
    BY <1>6 DEF ReadHandshake, ReadEnds, Reads
  <2>2. UNCHANGED <<wire, out>>
    BY <1>6, <2>1 DEF ReadHandshake, ReadEnds
  <2> QED BY <1>2, <2>2
<1>7. CASE \/ Select \/ SendFails \/ NothingToSend \/ AcceptFails \/ ReadNothing \/ ReadSession
           \/ NoInput \/ ReadQuit \/ AppendFails \/ InputFull
  <2>1. UNCHANGED <<wire, out>>
    BY <1>7 DEF Select, SendFails, NothingToSend, AcceptFails, ReadNothing, ReadSession, NoInput,
       ReadQuit, AppendFails, InputFull, ReadsKeys, outgoing
  <2> QED BY <1>2, <2>1
<1>8. CASE \/ Environment(ServerSends) \/ Environment(ServerEnds)
           \/ Environment(UserTypes) \/ Environment(Drain) \/ UNCHANGED vars
  <2>1. UNCHANGED <<wire, out>>
    BY <1>8 DEF Environment, vars, outgoing
  <2> QED BY <1>2, <2>1
<1> QED BY <1>3, <1>4, <1>5, <1>6, <1>7, <1>8 DEF Next, Loop

\* The keys that are sent in order are all that are to be sent.
LEMMA AllInOrder ==
  ASSUME NEW lo \in Int, NEW hi \in Int, NEW s \in InOrder(KeysSent(lo, hi)),
         NEW k \in KeysSent(lo, hi)
  PROVE  \E j \in DOMAIN s : s[j] = k
<1> DEFINE S == KeysSent(lo, hi)
           n == Cardinality(S)
<1>1. S \subseteq lo..hi
  BY DEF KeysSent
<1>0. S \subseteq Int
  BY DEF KeysSent
<1>2. s \in [1..n -> S] /\ \A i, j \in 1..n : i < j => s[i] < s[j]
  BY DEF InOrder
<1>3. k \in S
  OBVIOUS
<1> HIDE DEF S
<1>4. IsFiniteSet(S)
  BY <1>1, FS_Interval, FS_Subset
<1>5. n \in Nat
  BY <1>4, FS_CardinalityType
<1> HIDE DEF n
<1>6. Cardinality(1..n) = n
  BY <1>5, FS_Interval
<1>7. \A i, j \in 1..n : s[i] = s[j] => i = j
  <2> SUFFICES ASSUME NEW i \in 1..n, NEW j \in 1..n, i # j PROVE s[i] # s[j]
    OBVIOUS
  <2>1. s[i] \in S /\ s[j] \in S
    BY <1>2
  <2>3. s[i] \in Int /\ s[j] \in Int
    BY <1>0, <2>1
  <2>2. i < j \/ j < i
    BY <1>5
  <2> QED BY <1>2, <2>2, <2>3
<1>8. s \in Injection(1..n, S)
  BY <1>2, <1>7 DEF Injection, IsInjective
<1>9. s \in Surjection(1..n, S)
  BY <1>4, <1>6, <1>8, FS_Injection DEF n
<1> QED BY <1>2, <1>3, <1>9 DEF Surjection

\* What is appended to outBuf is to be sent.
LEMMA AppendedQueued ==
  ASSUME NEW items \in Seq(Bytes), NEW j \in DOMAIN items, NEW k, items[j] = Key(k),
         wire \in Seq(Bytes), out \in Seq(Bytes), wire' = wire, out' = out \o items
  PROVE  Queued(k)'
<1> DEFINE i == Len(wire) + Len(out) + j
<1>1. i \in DOMAIN (wire \o (out \o items)) /\ (wire \o (out \o items))[i] = items[j]
  <2> DEFINE t == out \o items
  <2>1. t \in Seq(Bytes) /\ Len(out) + j \in DOMAIN t /\ t[Len(out) + j] = items[j]
    OBVIOUS
  <2> HIDE DEF t
  <2>2. Len(out) \in Nat /\ Len(wire) \in Nat /\ j \in Nat /\ Len(out) + j \in 1..Len(t)
    BY <2>1
  <2>3. i \in DOMAIN (wire \o t) /\ (wire \o t)[i] = t[Len(out) + j]
    BY <2>1, <2>2
  <2> QED BY <2>1, <2>3 DEF t
<1>2. Stream' = wire \o (out \o items)
  BY DEF Stream
<1> HIDE DEF i
<1> QED BY <1>1, <1>2 DEF Queued

\* A step that reads keys and does not end the program puts them into outBuf.
LEMMA KeysQueued ==
  ASSUME TypeOK, [Next]_vars, pc' \notin {"exit", "exception"}, NEW k \in inLen + 1..inLen'
  PROVE  \/ Queued(k)'
         \/ Interrupt(k, inLen + 1, inLen') \/ Interrupt(k - 1, inLen + 1, inLen')
<1>1. inLen \in Nat
  BY DEF TypeOK
<1>2. CASE inLen' = inLen
  <2>1. k \in Int /\ inLen + 1 <= k /\ k <= inLen
    BY <1>1, <1>2
  <2> QED BY <1>1, <2>1
<1>3. CASE ReadKeys
  <2>1. PICK lo \in 1..InSize, hi \in 1..InSize :
          /\ ReadsKeys(lo, hi)
          /\ \E s \in InOrder(KeysSent(lo, hi)) : Appended(out, [i \in DOMAIN s |-> Key(s[i])])
    BY <1>3 DEF ReadKeys
  <2>2. PICK s \in InOrder(KeysSent(lo, hi)) : Appended(out, [i \in DOMAIN s |-> Key(s[i])])
    BY <2>1
  <2>3. /\ lo \in Nat /\ hi \in Nat /\ 1 <= lo /\ hi <= typed /\ wire' = wire
        /\ lo = inLen + 1 /\ hi = inLen'
    BY <2>1, TelnetAssumption DEF ReadsKeys
  <2> DEFINE items == [i \in DOMAIN s |-> Key(s[i])]
  <2>4. items \in Seq(Bytes) /\ out' = out \o items
    BY <2>2, <2>3, KeyBytes DEF Appended
  <2>5. CASE k \in KeysSent(lo, hi)
    <3>1. PICK j \in DOMAIN s : s[j] = k
      BY <2>3, <2>5, AllInOrder
    <3>2. j \in DOMAIN items /\ items[j] = Key(k)
      BY <3>1
    <3> HIDE DEF items
    <3> QED BY <2>3, <2>4, <3>2, AppendedQueued DEF TypeOK
  <2>6. CASE k \notin KeysSent(lo, hi)
    BY <2>3, <2>6 DEF KeysSent
  <2> QED BY <2>5, <2>6
<1>4. CASE ReadQuit \/ AppendFails
  BY <1>4 DEF ReadQuit, AppendFails
<1>5. CASE \/ Select \/ SendOut \/ SendFails \/ NothingToSend \/ AcceptAndRead \/ AcceptFails
           \/ ReadNothing \/ ReadHandshake \/ ReadSession \/ ReadEnds \/ NoInput \/ InputFull
  BY <1>2, <1>5 DEF Select, SendOut, SendFails, NothingToSend, AcceptAndRead, AcceptFails,
     ReadNothing, ReadHandshake, ReadSession, ReadEnds, NoInput, InputFull
<1>6. CASE \/ Environment(ServerSends) \/ Environment(ServerEnds)
           \/ Environment(UserTypes) \/ Environment(Drain) \/ UNCHANGED vars
  BY <1>2, <1>6 DEF Environment, vars
<1> QED BY <1>3, <1>4, <1>5, <1>6 DEF Next, Loop

\* Without a signal only the reads of the handshake drop bytes of outBuf; and the
\* keys of a read() all go into outBuf, but for the ff f2 of an interrupt, and unless
\* the program ends with one of them.
THEOREM Lossless == Spec => SessionLossless
<1>1. Inv /\ Inv' /\ [Next]_vars =>
        [/\ interrupts' = interrupts /\ (handshake = 4 \/ pc # "socket") =>
              IsPrefix(Stream, Stream')
         /\ pc' \notin {"exit", "exception"} =>
              \A k \in inLen + 1..inLen' :
                \/ Queued(k)'
                \/ Interrupt(k, inLen + 1, inLen') \/ Interrupt(k - 1, inLen + 1, inLen')]_vars
  BY LosslessStep, KeysQueued DEF Inv
<1> QED BY <1>1, SpecInv, PTL DEF Spec, SessionLossless

\* Until a signal comes, what select() has found ready is ready at its block, whatever
\* the blocks before it have done. So no read() of the keyboard blocks, no accept(), and
\* no read() of the socket once conn is set; while +conn is NaN, a key may make the loop
\* block in a read() of the socket.
THEOREM ReadsOnlyReady == Spec => []ReadsWhenReady
<1>1. Inv => ReadsWhenReady
  <2> SUFFICES ASSUME Inv, interrupts = 0
               PROVE  /\ /\ pc = "socket"
                         /\ FD_ISSET(sock, rfds) \/ (NewConn # NaN /\ FD_ISSET(NewConn, rfds))
                         => sock \in Readable
                      /\ pc = "stdin" /\ FD_ISSET(STDIN_FILENO, rfds) => STDIN_FILENO \in Readable
    BY DEF ReadsWhenReady
  <2>1. NewConn \in {sock, NaN}
    BY DEF NewConn, Inv, TypeOK
  <2>2. /\ FD_ISSET(sock, rfds) \/ (NewConn # NaN /\ FD_ISSET(NewConn, rfds)) => sock \in rfds
        /\ FD_ISSET(STDIN_FILENO, rfds) => STDIN_FILENO \in rfds
    BY <2>1 DEF FD_ISSET, Bit, sock, NaN, STDIN_FILENO
  <2>3. typed > inLen => STDIN_FILENO \in Readable
    BY DEF Readable
  <2> QED BY <2>2, <2>3 DEF Inv, ReadyInv
<1> QED BY <1>1, SpecInv, PTL

\* With -l the program serves nobody, and its first key ends it.
THEOREM NobodyServed == Spec => []ListenServesNobody
<1>1. Inv => ListenServesNobody
  BY DEF Inv, TypeOK, ListenInv, ListenServesNobody, Blocks, Ended
<1> QED BY <1>1, SpecInv, PTL
=============================================================================
