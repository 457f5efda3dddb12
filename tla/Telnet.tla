------------------------------- MODULE Telnet -------------------------------
(***************************************************************************)
(* The main loop of examples/telnet.js, on the Socket and the              *)
(* fd_set of examples/socket.js, with the user, the server and the kernel  *)
(* for its environment.                                                    *)
(*                                                                         *)
(* The loop runs main() to its end, so no signal handler of the script     *)
(* ever runs: a signal only interrupts a system call.  One action is one   *)
(* block of the loop, which makes one system call that matters; what the   *)
(* environment does falls between two blocks.                              *)
(*                                                                         *)
(* Bytes are items: a key or a byte of the server, by its place in what    *)
(* was typed or sent, and one item for the sequence that clears the        *)
(* screen.  What the terminal shows of the cursor is left out.             *)
(***************************************************************************)
EXTENDS FdSet, Sequences, FiniteSets, SequencesExt

CONSTANTS
  Keyboard,       \* what the user types: "char", "quit" (0x11), "ff", "f2", "03"
  MaxServer,      \* bound: bytes that the server sends
  InSize,         \* inBuf.byteLength
  OutSize,        \* outBuf.byteLength at the start
  MaxInterrupts   \* bound: signals that interrupt select() or write()

ASSUME TelnetAssumption ==
  /\ Keyboard \in Seq({"char", "quit", "ff", "f2", "03"})
  /\ MaxServer \in Nat /\ MaxInterrupts \in Nat
  /\ InSize \in Nat \ {0} /\ OutSize \in Nat \ {0}

VARIABLES
  listening,     \* the program was started with -l
  pc,            \* the block of the loop that comes next, or how it ended
  rfds, wfds,
  conn,          \* +conn: the descriptor of the socket, or NaN
  inLen,         \* bytes of inBuf in use, which is also the keys read
  out,           \* the bytes outBuf[0..outLen - 1]
  outLen,        \* their number, or -1 for the error of a read()
  outSize,       \* outBuf.byteLength
  handshake,
  destroyed,     \* sock.destroyed
  ran,           \* SendTerm has run, which writes to the socket past outBuf
  wire, shown,   \* what went out of outBuf to the server, and to the terminal
  peer,          \* the connection: "open", "refused", "closed", "reset", and
                 \* "gone" once the reset has been reported; a listening socket is
                 \* "open", or "refused" if bind() or listen() has failed
  arrived, taken,  \* bytes of the server: received by the kernel, read; or, to a
                   \* listening socket, connections: made, accepted
  typed,         \* keys typed
  writable,      \* the kernel has room for output
  interrupts

outgoing == <<out, outLen, outSize, handshake, wire>>
kernel == <<peer, arrived, typed, writable>>
vars == <<listening, pc, rfds, wfds, conn, inLen, outgoing, destroyed, ran,
          shown, taken, kernel, interrupts>>

Blocks == {"select", "write", "socket", "stdin"}
Ended == {"destroyed", "exit", "exception", "killed"}

STDIN_FILENO == 0
sock == 3

Key(k) == [from |-> "key", n |-> k]
Server(k) == [from |-> "server", n |-> k]
Clear == [from |-> "clear", n |-> 0]
Bytes == [from : {"key"}, n : 1..Len(Keyboard)] \cup [from : {"server"}, n : 1..MaxServer]
           \cup {Clear}

-----------------------------------------------------------------------------
(* The kernel *)

Readable ==
  (IF arrived > taken \/ peer # "open" THEN {sock} ELSE {})
    \cup (IF typed > inLen THEN {STDIN_FILENO} ELSE {})
Writable == IF (writable /\ ~listening) \/ peer # "open" THEN {sock} ELSE {}

\* A signal interrupts the system call of this step, or does not.
Interrupted == interrupts < MaxInterrupts /\ interrupts' = interrupts + 1
Uninterrupted == interrupts' = interrupts

\* What a write() to the socket can come to. It blocks while there is no room;
\* a connection that the server has closed may take it, refuse it, or raise
\* SIGPIPE, which ends the process.
WriteTakes == sock \in Writable /\ peer \in {"open", "closed"}
WriteFails == peer # "open"

-----------------------------------------------------------------------------
(* The loop: up to the return of select() *)

\* sock.connecting is never set: errno is read from an object that has none.
Select ==
  /\ pc = "select"
  /\ LET w == FD_CLR(sock, FD_ZERO(wfds))
         r == FD_SET(sock, FD_ZERO(rfds))
         wset == IF outLen # 0 THEN FD_SET(sock, w) ELSE w
         rset == IF outLen = 0 /\ inLen < InSize THEN FD_SET(STDIN_FILENO, r) ELSE r
     IN  \E intr \in BOOLEAN :
           /\ IF intr THEN Interrupted ELSE Uninterrupted
           /\ LET sets == select(rset, wset, Readable, Writable, intr)
              IN  rfds' = sets[1] /\ wfds' = sets[2]
  /\ pc' = "write"
  /\ UNCHANGED <<listening, conn, inLen, outgoing, destroyed, ran, shown, taken, kernel>>

-----------------------------------------------------------------------------
(* if (FD_ISSET(+sock, wfds)) *)

\* A mutant of Appended: the buffer does not grow.
AppendedInPlace(o, items) ==
  /\ out' = o \o items
  /\ outLen' = Len(out')
  /\ UNCHANGED outSize

\* Append(outBuf, outLen, ...): a buffer that is too small is copied into one
\* that has room for the new bytes and no more.
Appended(o, items) ==
  /\ out' = o \o items
  /\ outLen' = Len(out')
  /\ outSize' = IF outLen' > outSize THEN outLen' ELSE outSize

\* A mutant of SendOut: outLen is not reset.
SendOutKeeps ==
  /\ pc = "write" /\ FD_ISSET(sock, wfds) /\ outLen > 0
  /\ WriteTakes
  /\ Len(wire) < 8 /\ Uninterrupted
  /\ wire' = wire \o out
  /\ Appended(out, IF handshake = 0 THEN <<Clear>> ELSE <<>>)
  /\ handshake' = IF handshake < 4 THEN handshake + 1 ELSE handshake
  /\ writable' \in BOOLEAN
  /\ pc' = "socket"
  /\ UNCHANGED <<listening, rfds, wfds, conn, inLen, destroyed, ran, shown, taken, peer,
                 arrived, typed>>

\* Send() wrote something, and all of outBuf counts as sent. A signal may cut the
\* write() short. The first time, the terminal is to be cleared.
SendOut ==
  /\ pc = "write" /\ FD_ISSET(sock, wfds) /\ outLen > 0
  /\ WriteTakes
  /\ \E n \in 1..outLen :
       /\ IF n < outLen THEN Interrupted ELSE Uninterrupted
       /\ wire' = wire \o SubSeq(out, 1, n)
  /\ Appended(<<>>, IF handshake = 0 THEN <<Clear>> ELSE <<>>)
  /\ handshake' = IF handshake < 4 THEN handshake + 1 ELSE handshake
  /\ writable' \in BOOLEAN
  /\ pc' = "socket"
  /\ UNCHANGED <<listening, rfds, wfds, conn, inLen, destroyed, ran, shown, taken, peer,
                 arrived, typed>>

SendFails ==
  /\ pc = "write" /\ FD_ISSET(sock, wfds) /\ outLen > 0
  /\ WriteFails
  /\ pc' \in {"socket", "killed"}
  /\ UNCHANGED <<listening, rfds, wfds, conn, inLen, outgoing, destroyed, ran, shown, taken,
                 kernel, interrupts>>

NothingToSend ==
  /\ pc = "write" /\ ~(FD_ISSET(sock, wfds) /\ outLen > 0)
  /\ conn' = IF FD_ISSET(sock, wfds) THEN sock ELSE conn
  /\ pc' = "socket"
  /\ UNCHANGED <<listening, rfds, wfds, inLen, outgoing, destroyed, ran, shown, taken,
                 kernel, interrupts>>

-----------------------------------------------------------------------------
(* if (FD_ISSET(+sock, rfds)); if (FD_ISSET(+conn, rfds)) *)

\* accept() makes a Socket without a descriptor.
NewConn ==
  IF FD_ISSET(sock, rfds) THEN (IF listening THEN NaN ELSE sock) ELSE conn

\* A mutant of AcceptAndRead: the error of the read() stays in length.
AcceptAndReadLocal ==
  /\ pc = "socket" /\ listening /\ peer = "open"
  /\ IF FD_ISSET(sock, rfds) THEN arrived > taken /\ taken' = taken + 1 ELSE UNCHANGED taken
  /\ conn' = NewConn
  /\ pc' = "stdin"
  /\ UNCHANGED <<listening, rfds, wfds, inLen, outgoing, destroyed, ran, shown, kernel,
                 interrupts>>

\* accept() waits for a connection. Whatever conn is, sock.read() then reads the
\* listening socket, which is an error.
AcceptAndRead ==
  /\ pc = "socket" /\ listening /\ peer = "open"
  /\ IF FD_ISSET(sock, rfds) THEN arrived > taken /\ taken' = taken + 1 ELSE UNCHANGED taken
  /\ conn' = NewConn
  /\ IF FD_ISSET(NewConn, rfds) THEN out' = <<>> /\ outLen' = -1 ELSE UNCHANGED <<out, outLen>>
  /\ pc' = "stdin"
  /\ UNCHANGED <<listening, rfds, wfds, inLen, outSize, handshake, wire, destroyed, ran, shown,
                 kernel, interrupts>>

\* conn is -1, the place of no byte in rfds.
AcceptFails ==
  /\ pc = "socket" /\ listening /\ FD_ISSET(sock, rfds)
  /\ pc' = "exception"
  /\ UNCHANGED <<listening, rfds, wfds, conn, inLen, outgoing, destroyed, ran, shown, taken,
                 kernel, interrupts>>

ReadNothing ==
  /\ pc = "socket" /\ ~listening /\ ~FD_ISSET(NewConn, rfds)
  /\ conn' = NewConn
  /\ pc' = "stdin"
  /\ UNCHANGED <<listening, rfds, wfds, inLen, outgoing, destroyed, ran, shown, taken,
                 kernel, interrupts>>

\* sock.read(buf, 0, size) returns n > 0 bytes; without any, it blocks.
Reads(size, n) ==
  /\ pc = "socket" /\ ~listening /\ FD_ISSET(NewConn, rfds)
  /\ arrived > taken
  /\ n = IF arrived - taken < size THEN arrived - taken ELSE size
  /\ taken' = taken + n

\* Until four writes are done, what the server says goes into outBuf, over what
\* is there, and so back to the server.
ReadHandshake ==
  /\ handshake < 4
  /\ \E n \in 1..outSize :
       /\ Reads(outSize, n)
       /\ out' = [k \in 1..n |-> Server(taken + k)]
       /\ outLen' = n
  /\ conn' = NewConn
  /\ pc' = "stdin"
  /\ UNCHANGED <<listening, rfds, wfds, inLen, outSize, handshake, wire, destroyed, ran,
                 shown, kernel,
                 interrupts>>

\* After that it goes to the terminal, without the command at its start. A text
\* with a command in it makes SendTerm run, once.
ReadSession ==
  /\ handshake = 4
  /\ \E n \in 1..MaxServer : \E start \in {0, 2, 3} \cap (0..n) :
       /\ Reads(MaxServer, n)
       /\ shown' = shown \o [k \in 1..(n - start) |-> Server(taken + start + k)]
       /\ \/ pc' = "stdin" /\ UNCHANGED ran
          \/ /\ n - start >= 2 /\ ~ran /\ ran' = TRUE
             /\ \/ WriteTakes /\ pc' = "stdin"
                \/ WriteFails /\ pc' \in {"stdin", "killed"}
  /\ conn' = NewConn
  /\ UNCHANGED <<listening, rfds, wfds, inLen, outgoing, destroyed, kernel, interrupts>>

\* Mutants of ReadEnds: the end of the stream is an error; the socket is not closed.
ReadEndsError ==
  /\ pc = "socket" /\ ~listening /\ FD_ISSET(NewConn, rfds)
  /\ arrived = taken /\ peer # "open"
  /\ IF handshake < 4
     THEN conn' = NewConn /\ out' = <<>> /\ outLen' = -1
     ELSE conn' = NaN /\ UNCHANGED <<out, outLen>>
  /\ destroyed' = (destroyed \/ peer \in {"closed", "gone"})
  /\ peer' = IF peer = "reset" THEN "gone" ELSE peer
  /\ pc' = "stdin"
  /\ UNCHANGED <<listening, rfds, wfds, inLen, outSize, handshake, wire, ran, shown, taken,
                 arrived, typed, writable, interrupts>>
ReadEndsOpen ==
  /\ pc = "socket" /\ ~listening /\ FD_ISSET(NewConn, rfds)
  /\ arrived = taken /\ peer # "open"
  /\ IF handshake < 4
     THEN conn' = NewConn /\ out' = <<>> /\ outLen' = 0
     ELSE conn' = NaN /\ UNCHANGED <<out, outLen>>
  /\ peer' = IF peer = "reset" THEN "gone" ELSE peer
  /\ pc' = "stdin"
  /\ UNCHANGED <<listening, rfds, wfds, inLen, outSize, handshake, wire, destroyed, ran,
                 shown, taken,
                 arrived, typed, writable, interrupts>>

\* sock.read() returns 0 and closes the socket, or an error.
ReadEnds ==
  /\ pc = "socket" /\ ~listening /\ FD_ISSET(NewConn, rfds)
  /\ arrived = taken /\ peer # "open"
  /\ IF handshake < 4
     THEN /\ conn' = NewConn
          /\ out' = <<>>
          /\ outLen' = IF peer \in {"closed", "gone"} THEN 0 ELSE -1
     ELSE conn' = NaN /\ UNCHANGED <<out, outLen>>
  /\ destroyed' = (destroyed \/ peer \in {"closed", "gone"})
  /\ peer' = IF peer = "reset" THEN "gone" ELSE peer
  /\ pc' = "stdin"
  /\ UNCHANGED <<listening, rfds, wfds, inLen, outSize, handshake, wire, ran, shown, taken,
                 arrived, typed, writable, interrupts>>

-----------------------------------------------------------------------------
(* if (FD_ISSET(STDIN_FILENO, rfds)); while (!sock.destroyed) *)

LoopEnds == pc' = IF destroyed THEN "destroyed" ELSE "select"

NoInput ==
  /\ pc = "stdin" /\ ~FD_ISSET(STDIN_FILENO, rfds)
  /\ LoopEnds
  /\ UNCHANGED <<listening, rfds, wfds, conn, inLen, outgoing, destroyed, ran, shown, taken,
                 kernel, interrupts>>

\* Of the keys lo..hi, read together, ff f2 03 is an interrupt, of which 03 is sent.
Interrupt(k, lo, hi) ==
  /\ lo <= k /\ k + 2 <= hi
  /\ Keyboard[k] = "ff" /\ Keyboard[k + 1] = "f2" /\ Keyboard[k + 2] = "03"
\* A mutant of KeysSent: the loop starts at the second key.
KeysSentLate(lo, hi) ==
  {k \in (lo + 1)..hi : ~Interrupt(k, lo, hi) /\ ~Interrupt(k - 1, lo, hi)}

\* Another: the whole interrupt is swallowed.
KeysSentSwallowed(lo, hi) ==
  {k \in lo..hi : \A i \in {k - 2, k - 1, k} : ~Interrupt(i, lo, hi)}

KeysSent(lo, hi) ==
  {k \in lo..hi : ~Interrupt(k, lo, hi) /\ ~Interrupt(k - 1, lo, hi)}

\* The loop takes them one after the other.
InOrder(keys) ==
  {s \in [1..Cardinality(keys) -> keys] : \A i, j \in DOMAIN s : i < j => s[i] < s[j]}

\* read(STDIN_FILENO, inBuf, inLen, InSize - inLen) fills the room that is left:
\* with none, it returns 0 at once, else it blocks until there is a key.
ReadsKeys(lo, hi) ==
  /\ pc = "stdin" /\ FD_ISSET(STDIN_FILENO, rfds)
  /\ lo = inLen + 1 /\ lo <= hi /\ hi <= InSize /\ hi <= typed
  /\ inLen' = hi
  /\ UNCHANGED <<listening, rfds, wfds, conn, handshake, wire, destroyed, ran, shown, taken,
                 kernel, interrupts>>
Quits(lo, hi) == \E k \in lo..hi : Keyboard[k] = "quit"

ReadKeys ==
  \E lo, hi \in 1..InSize :
    /\ ReadsKeys(lo, hi)
    /\ outLen >= 0 /\ ~Quits(lo, hi)
    /\ \E s \in InOrder(KeysSent(lo, hi)) : Appended(out, [k \in DOMAIN s |-> Key(s[k])])
    /\ LoopEnds

\* exit(1), with the keys before it unsent; or a negative outLen, which is no
\* place in outBuf for the first key.
ReadQuit ==
  \E lo, hi \in 1..InSize :
    /\ ReadsKeys(lo, hi)
    /\ Quits(lo, hi) /\ (outLen >= 0 \/ Keyboard[lo] = "quit")
    /\ pc' = "exit"
    /\ UNCHANGED <<out, outLen, outSize>>

AppendFails ==
  \E lo, hi \in 1..InSize :
    /\ ReadsKeys(lo, hi)
    /\ outLen < 0 /\ Keyboard[lo] # "quit"
    /\ pc' = "exception"
    /\ UNCHANGED <<out, outLen, outSize>>

InputFull ==
  /\ pc = "stdin" /\ FD_ISSET(STDIN_FILENO, rfds)
  /\ inLen = InSize
  /\ LoopEnds
  /\ UNCHANGED <<listening, rfds, wfds, conn, inLen, outgoing, destroyed, ran, shown, taken,
                 kernel, interrupts>>

-----------------------------------------------------------------------------
(* The environment *)

\* To a listening socket, a connection.
ServerSends ==
  /\ arrived < MaxServer
  /\ peer = "open"
  /\ arrived' = arrived + 1
  /\ UNCHANGED <<peer, typed, writable>>
ServerEnds ==
  /\ ~listening
  /\ peer = "open"
  /\ peer' \in {"closed", "reset"}
  /\ UNCHANGED <<arrived, typed, writable>>
UserTypes == typed < Len(Keyboard) /\ typed' = typed + 1 /\ UNCHANGED <<peer, arrived,
                                                                        writable>>
Drain == ~writable /\ writable' = TRUE /\ UNCHANGED <<peer, arrived, typed>>

Environment(A) ==
  /\ pc \in Blocks
  /\ A
  /\ UNCHANGED <<listening, pc, rfds, wfds, conn, inLen, outgoing, destroyed, ran, shown,
                 taken, interrupts>>

Init ==
  /\ listening \in BOOLEAN
  /\ pc = "select"
  /\ rfds = {} /\ wfds = {}
  /\ conn = NaN
  /\ inLen = 0
  /\ out = <<>> /\ outLen = 0 /\ outSize = OutSize
  /\ handshake = 0
  /\ destroyed = FALSE
  /\ ran = FALSE
  /\ wire = <<>> /\ shown = <<>>
  /\ peer \in {"open", "refused"}
  /\ arrived = 0 /\ taken = 0 /\ typed = 0
  /\ writable = TRUE
  /\ interrupts = 0

Loop ==
  \/ Select
  \/ SendOut \/ SendFails \/ NothingToSend
  \/ AcceptAndRead \/ AcceptFails
  \/ ReadNothing \/ ReadHandshake \/ ReadSession \/ ReadEnds
  \/ NoInput \/ ReadKeys \/ ReadQuit \/ AppendFails \/ InputFull

Next ==
  \/ Loop
  \/ Environment(ServerSends) \/ Environment(ServerEnds)
  \/ Environment(UserTypes) \/ Environment(Drain)

Spec == Init /\ [][Next]_vars

\* The process runs, and the network takes what it was given.
FairSpec == Spec /\ WF_vars(Loop) /\ WF_vars(Environment(Drain))

-----------------------------------------------------------------------------
(* Properties *)

\* The state has its types; what was typed fits in inBuf, what is to be sent in
\* outBuf.
TypeOK ==
  /\ listening \in BOOLEAN
  /\ pc \in Blocks \cup Ended
  /\ rfds \subseteq {STDIN_FILENO, sock} /\ wfds \subseteq {sock}
  /\ conn \in {sock, NaN}
  /\ inLen \in 0..InSize /\ inLen <= typed /\ typed \in 0..Len(Keyboard)
  /\ out \in Seq(Bytes) /\ outSize \in Nat /\ Len(out) <= outSize
  /\ outLen \in {-1, Len(out)}
  /\ handshake \in 0..4
  /\ destroyed \in BOOLEAN /\ ran \in BOOLEAN /\ writable \in BOOLEAN
  /\ wire \in Seq(Bytes) /\ shown \in Seq(Bytes)
  /\ peer \in {"open", "refused", "closed", "reset", "gone"}
  /\ arrived \in 0..MaxServer /\ taken \in 0..arrived
  /\ interrupts \in 0..MaxInterrupts

\* What was and what will be sent from outBuf.
Stream == wire \o out
Ascending(who, s) ==
  \A i, j \in DOMAIN s : i < j /\ s[i].from = who /\ s[j].from = who => s[i].n < s[j].n

\* Keys go out in the order they were typed, no key twice. A byte of the server
\* goes back to it or to the terminal, not to both, and none twice. Short
\* writes, overwritten buffers and interrupted calls may lose bytes, but
\* never repeat or reorder them.
InOrderOnce ==
  /\ Ascending("key", Stream)
  /\ Ascending("server", Stream \o shown)

\* Without a signal, a step loses no byte of outBuf, except that the handshake's
\* reads overwrite it. Every key that a step reads goes into outBuf, but for
\* the ff f2 of an interrupt; unless the step ends the program, by the key that
\* quits or by the error in outLen. So a key read in the session is sent, or is still in
\* outBuf, as long as the program runs and no signal cuts a write() short.
Queued(k) == \E i \in DOMAIN Stream : Stream[i] = Key(k)
SessionLossless ==
  [][/\ interrupts' = interrupts /\ (handshake = 4 \/ pc # "socket") => IsPrefix(Stream, Stream')
     /\ pc' \notin {"exit", "exception"} =>
          \A k \in inLen + 1..inLen' :
            \/ Queued(k)'
            \/ Interrupt(k, inLen + 1, inLen') \/ Interrupt(k - 1, inLen + 1, inLen')]_vars

\* As long as no signal came, the loop does not block in a read() or accept(), and reads keys
\* only when there are some: what select() found ready is still so when it is
\* the turn of its block. The exception is a socket not yet connected
\* to conn: then bit 0, of the keyboard, is taken for that of the socket.
ReadsWhenReady ==
  interrupts = 0 =>
    /\ /\ pc = "socket"
       /\ FD_ISSET(sock, rfds) \/ (NewConn # NaN /\ FD_ISSET(NewConn, rfds))
       => sock \in Readable
    /\ pc = "stdin" /\ FD_ISSET(STDIN_FILENO, rfds) => STDIN_FILENO \in Readable

\* In a client, an error of read() that gets into outLen ends the loop with an exception only
\* when the connection has failed, never while it is open or was closed.
ExceptionOnlyAfterFailure == pc = "exception" /\ ~listening => peer \in {"refused", "gone"}

\* With -l, the program serves nobody: the first key that is read ends it, whether
\* a connection was accepted or not, and nothing is ever sent or shown. The Socket
\* that accept() makes has no descriptor, so that its bit is that of the keyboard.
ListenServesNobody ==
  listening =>
    /\ inLen > 0 => pc \in {"exit", "exception"}
    /\ handshake = 0 /\ ~ran /\ wire = <<>> /\ shown = <<>>

\* When the server closes the connection, the program ends, if no signal came; after
\* one it may block in the read() of the keyboard, with the socket closed.
CloseEnds == peer = "closed" ~> (pc \in Ended \/ interrupts > 0)

\* Once the session has begun and conn is set, a key that still fits into inBuf is
\* sent, if the server stays, the user does not quit, and no signal comes; after
\* one the loop may block in a read() of a socket that has nothing.
KeySent(k) == \E i \in DOMAIN wire : wire[i] = Key(k)
KeysReachServer ==
  \A k \in 1..InSize :
    (handshake = 4 /\ conn = sock /\ inLen < k /\ k <= typed)
      ~> (KeySent(k) \/ pc \in Ended \/ peer # "open" \/ interrupts > 0)
=============================================================================
