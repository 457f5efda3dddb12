------------------------------- MODULE Socket -------------------------------
(***************************************************************************)
(* The class Socket of examples/socket.js over the descriptor table of the *)
(* process.  A script calls the methods of its Sockets in any order; the   *)
(* kernel decides what each system call comes to.                          *)
(*                                                                         *)
(* A file of the kernel is named for the Socket it was made for, or stdin. *)
(* The descriptors 1 and 2, which nothing here closes, are left out.  A    *)
(* call that blocks is one that is not made.                               *)
(***************************************************************************)
EXTENDS Integers

CONSTANTS
  Objects,   \* bound: Sockets that a script makes
  MaxFd,     \* the highest descriptor of the process
  stdin,     \* the file that descriptor 0 is at the start
  None       \* no file

ASSUME SocketAssumption ==
  /\ MaxFd \in Nat
  /\ stdin \notin Objects /\ None \notin Objects /\ stdin # None

VARIABLES
  table,      \* the kernel's: which file a descriptor is
  state,      \* the kernel's: what has become of the file of a Socket
  made,       \* how a Socket was made: by "new", by "accept()", or not yet
  fd,         \* the property fd
  destroyed,  \* the Sockets whose property destroyed is set
  last,       \* the last call: method, Socket, the file it reached, and outcome
  stale       \* a method was called of a Socket that was destroyed already

vars == <<table, state, made, fd, destroyed, last, stale>>

Fds == 0..MaxFd
Files == Objects \cup {stdin}
Undefined == -2
IPPROTO_IP == 0
IPPROTO_TCP == 6
IPPROTO_UDP == 17
SOCK_STREAM == 1
SOCK_DGRAM == 2

-----------------------------------------------------------------------------
(* The kernel *)

\* The new descriptor of a process is the lowest that is free.
IsLowestFree(d) == table[d] = None /\ \A e \in Fds : table[e] = None => d <= e

\* IPv4 has these protocols, but none with the number of SOCK_DGRAM.
Supported(type, proto) ==
  <<type, proto>> \in {<<SOCK_STREAM, IPPROTO_IP>>, <<SOCK_STREAM, IPPROTO_TCP>>,
                       <<SOCK_DGRAM, IPPROTO_UDP>>}

File(d) == IF d \in Fds THEN table[d] ELSE None
StateOf(f) == IF f \in Objects THEN state[f] ELSE "none"

\* What read(), of no byte or of some, can come to; it may block where it is "some".
ReadOutcomes(f, empty) ==
  IF f = None THEN {"error"}
  ELSE IF empty THEN {"zero"}
  ELSE CASE f = stdin -> {"some", "zero", "error"}
         [] StateOf(f) = "connected" -> {"some", "error"}
         [] StateOf(f) = "ended" -> {"zero"}
         [] StateOf(f) = "datagram" -> {"some", "zero"}
         [] OTHER -> {"error"}

-----------------------------------------------------------------------------
(* Calls *)

\* A mutant of SysFd: no descriptor is as good as an undefined one.
SysFdOrZero(o) == IF fd[o] \in Fds THEN fd[o] ELSE 0

\* The descriptor that a system call gets for this.fd or +this.fd: undefined and
\* NaN become 0.
SysFd(o) == IF fd[o] = Undefined THEN 0 ELSE fd[o]

\* Method op of o, which made a system call on the file f.
Called(op, o, f, outcome) ==
  /\ last' = [op |-> op, by |-> o, file |-> f, outcome |-> outcome]
  /\ stale' = (stale \/ o \in destroyed)

\* Method op of o threw an exception before it made a system call.
Throws(op, o) ==
  /\ Called(op, o, None, "throws")
  /\ UNCHANGED <<table, state, made, fd, destroyed>>

\* new Socket(proto); the descriptor is -1 if socket() fails.
New(o, proto) ==
  LET type == IF proto \in {IPPROTO_UDP, SOCK_DGRAM} THEN SOCK_DGRAM ELSE SOCK_STREAM
  IN  /\ made[o] = "none"
      /\ made' = [made EXCEPT ![o] = "new"]
      /\ \/ /\ Supported(type, proto)
            /\ \E d \in Fds : /\ IsLowestFree(d)
                              /\ table' = [table EXCEPT ![d] = o]
                              /\ fd' = [fd EXCEPT ![o] = d]
            /\ state' = [state EXCEPT ![o] = IF type = SOCK_DGRAM THEN "datagram" ELSE "stream"]
            /\ Called("new", o, o, "some")
         \/ /\ fd' = [fd EXCEPT ![o] = -1]
            /\ Called("new", o, None, "error")
            /\ UNCHANGED <<table, state>>
      /\ UNCHANGED destroyed

\* connect() waits until the connection is there or has failed; an accepted Socket
\* has no remote to set or to take the length of.
Connect(o) ==
  LET f == File(SysFd(o))
  IN  \/ made[o] = "accept()" /\ Throws("connect", o)
      \/ /\ made[o] = "new"
         /\ \/ /\ StateOf(f) \in {"stream", "datagram"}
               /\ state' = [state EXCEPT ![f] = IF @ = "stream" THEN "connected" ELSE @]
               /\ Called("connect", o, f, "zero")
            \/ UNCHANGED state /\ Called("connect", o, f, "error")
         /\ UNCHANGED <<table, made, fd, destroyed>>

\* bind(), and setsockopt() before it, which takes no undefined descriptor.
Bind(o) ==
  LET f == File(SysFd(o))
  IN  \/ made[o] = "accept()" /\ Throws("bind", o)
      \/ /\ made[o] = "new"
         /\ \E outcome \in IF f \in Objects THEN {"zero", "error"} ELSE {"error"} :
              Called("bind", o, f, outcome)
         /\ UNCHANGED <<table, state, made, fd, destroyed>>

Listen(o) ==
  LET f == File(SysFd(o))
  IN  /\ made[o] # "none"
      /\ \/ /\ StateOf(f) \in {"stream", "listening"}
            /\ state' = [state EXCEPT ![f] = "listening"]
            /\ Called("listen", o, f, "zero")
         \/ UNCHANGED state /\ Called("listen", o, f, "error")
      /\ UNCHANGED <<table, made, fd, destroyed>>

\* A mutant of Accept: the property is described with value.
AcceptValue(o, n) ==
  /\ made[o] # "none" /\ made[n] = "none" /\ StateOf(File(SysFd(o))) = "listening"
  /\ \E d \in Fds : IsLowestFree(d) /\ table' = [table EXCEPT ![d] = n] /\ fd' = [fd EXCEPT ![n] = d]
  /\ state' = [state EXCEPT ![n] = "connected"]
  /\ made' = [made EXCEPT ![n] = "accept()"]
  /\ Called("accept", o, File(SysFd(o)), "some")
  /\ UNCHANGED destroyed

\* The connection gets a descriptor and the script a Socket n, whose property fd
\* is described with v for value: it is undefined, and stays so.
Accept(o, n) ==
  /\ made[o] # "none" /\ made[n] = "none" /\ StateOf(File(SysFd(o))) = "listening"
  /\ \E d \in Fds : IsLowestFree(d) /\ table' = [table EXCEPT ![d] = n]
  /\ fd' = [fd EXCEPT ![n] = Undefined]
  /\ state' = [state EXCEPT ![n] = "connected"]
  /\ made' = [made EXCEPT ![n] = "accept()"]
  /\ Called("accept", o, File(SysFd(o)), "some")
  /\ UNCHANGED destroyed

AcceptFails(o) ==
  /\ made[o] # "none"
  /\ Called("accept", o, File(SysFd(o)), "error")
  /\ UNCHANGED <<table, state, made, fd, destroyed>>

\* A mutant of CloseOwn: destroyed is not set.
CloseOwnKeeps(o) ==
  /\ table' = [d \in Fds |-> IF d = SysFd(o) THEN None ELSE table[d]]
  /\ UNCHANGED destroyed

\* The property fd stays as it is.
CloseOwn(o) ==
  /\ table' = [d \in Fds |-> IF d = SysFd(o) THEN None ELSE table[d]]
  /\ destroyed' = destroyed \cup {o}

\* A mutant of Closes: an error ends the Socket as well.
ClosesOnError(outcome) == outcome # "some"

\* The outcome of read() for which it calls close().
Closes(outcome) == outcome = "zero"

\* read(buf, offset, len) with a length, or read(), read(n) and read(buf), for
\* which the length is undefined: the system call is for no byte.
Read(o, empty) ==
  LET f == File(SysFd(o))
  IN  /\ made[o] # "none"
      /\ \E outcome \in ReadOutcomes(f, empty) :
           /\ Called(IF empty THEN "read()" ELSE "read", o, f, outcome)
           /\ IF Closes(outcome) THEN CloseOwn(o) ELSE UNCHANGED <<table, destroyed>>
      /\ UNCHANGED <<state, made, fd>>

Write(o) ==
  LET f == File(SysFd(o))
  IN  /\ made[o] # "none"
      /\ \E outcome \in IF f = None THEN {"error"} ELSE {"some", "error"} :
           Called("write", o, f, outcome)
      /\ UNCHANGED <<table, state, made, fd, destroyed>>

\* recvfrom() and sendto() hand this.fd to call(), which takes no undefined.
Datagram(o) ==
  LET f == File(SysFd(o))
  IN  \/ made[o] = "accept()" /\ Throws("datagram", o)
      \/ /\ made[o] = "new"
         /\ \E outcome \in IF f \in Objects THEN {"some", "error"} ELSE {"error"} :
              Called("datagram", o, f, outcome)
         /\ UNCHANGED <<table, state, made, fd, destroyed>>

Close(o) ==
  /\ made[o] # "none"
  /\ Called("close", o, File(SysFd(o)), "zero")
  /\ CloseOwn(o)
  /\ UNCHANGED <<state, made, fd>>

\* The other end of a connection closes it.
PeerEnds(o) ==
  /\ state[o] = "connected"
  /\ state' = [state EXCEPT ![o] = "ended"]
  /\ UNCHANGED <<table, made, fd, destroyed, last, stale>>

Protocols == {IPPROTO_IP, IPPROTO_TCP, IPPROTO_UDP, SOCK_DGRAM}

Init ==
  /\ table = [d \in Fds |-> IF d = 0 THEN stdin ELSE None]
  /\ state = [o \in Objects |-> "none"]
  /\ made = [o \in Objects |-> "none"]
  /\ fd = [o \in Objects |-> Undefined]
  /\ destroyed = {}
  /\ last = [op |-> "none", by |-> stdin, file |-> None, outcome |-> "zero"]
  /\ stale = FALSE

Next ==
  \E o \in Objects :
    \/ \E proto \in Protocols : New(o, proto)
    \/ Connect(o) \/ Bind(o) \/ Listen(o)
    \/ \E n \in Objects : Accept(o, n)
    \/ AcceptFails(o)
    \/ \E empty \in BOOLEAN : Read(o, empty)
    \/ Write(o) \/ Datagram(o) \/ Close(o)
    \/ PeerEnds(o)

Spec == Init /\ [][Next]_vars

-----------------------------------------------------------------------------
(* Properties *)

\* The state has its types.
TypeOK ==
  /\ table \in [Fds -> Files \cup {None}]
  /\ state \in [Objects -> {"none", "stream", "datagram", "listening", "connected", "ended"}]
  /\ made \in [Objects -> {"none", "new", "accept()"}]
  /\ fd \in [Objects -> Fds \cup {-1, Undefined}]
  /\ destroyed \subseteq Objects
  /\ last \in [op : {"none", "new", "connect", "bind", "listen", "accept", "read", "read()",
                     "write", "datagram", "close"},
               by : Files, file : Files \cup {None},
               outcome : {"some", "zero", "error", "throws"}]
  /\ stale \in BOOLEAN

\* No method of a destroyed Socket was called, nor has an accepted Socket closed
\* the descriptor 0, which it takes for its own.
Disciplined == ~stale /\ table[0] = stdin

\* A Socket that the script has made and neither it nor the end of the stream has
\* destroyed still has its own descriptor, whatever became of all others, if the
\* script is disciplined. If it is not, close() can hit the next Socket
\* to get the number.
LiveOwn ==
  Disciplined =>
    \A o \in Objects :
      made[o] = "new" /\ o \notin destroyed /\ fd[o] \in Fds => table[fd[o]] = o

\* In a disciplined script no call reaches an accepted connection, and none can
\* close it: each keeps a descriptor to the end of the process.
AcceptedUnreachable ==
  Disciplined =>
    \A o \in Objects :
      made[o] = "accept()" => last.file # o /\ \E d \in Fds : table[d] = o

\* The standard input of the program is read, written and closed through accepted
\* Sockets only, however many descriptors a script could not get or has closed.
StdinOnlyByAccepted ==
  last.file = stdin => last.by \in Objects /\ made[last.by] = "accept()"

\* A read() destroys its Socket only when it was for no byte, or at the end of the
\* stream, an empty datagram, or the end of what is on descriptor 0; never for
\* an error, which leaves the Socket and its descriptor.
ReadDestroysAtEnd ==
  [][last'.op \in {"read", "read()"} /\ (destroyed' # destroyed \/ table' # table) =>
       \/ last'.op = "read()" /\ last'.file # None
       \/ last'.file = stdin
       \/ last'.file \in Objects /\ state[last'.file] \in {"ended", "datagram"}]_vars
=============================================================================
