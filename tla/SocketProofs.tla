---------------------------- MODULE SocketProofs ----------------------------
(***************************************************************************)
(* Proofs of the safety properties of Socket, for any number of Sockets    *)
(* and descriptors.                                                        *)
(***************************************************************************)
EXTENDS Socket, TLAPS

\* How a Socket was made decides what its fd can be; standard input is on
\* descriptor 0, or nowhere, and as long as it is there no Socket has 0.
FdInv ==
  /\ \A o \in Objects :
       /\ made[o] = "new" => fd[o] \in Fds \cup {-1}
       /\ made[o] # "new" => fd[o] = Undefined
  /\ \A d \in Fds : table[d] = stdin => d = 0
  /\ table[0] = stdin => \A o \in Objects : fd[o] # 0

Inv == TypeOK /\ FdInv /\ StdinOnlyByAccepted /\ LiveOwn /\ AcceptedUnreachable

Ops == {"none", "new", "connect", "bind", "listen", "accept", "read", "read()", "write",
        "datagram", "close"}
Outcomes == {"some", "zero", "error", "throws"}

\* A method of o that leaves the descriptors alone, and one that closes that of o.
Plain(o) ==
  /\ made[o] # "none"
  /\ \E op \in Ops, outcome \in Outcomes, f \in {File(SysFd(o)), None} :
       Called(op, o, f, outcome)
  /\ UNCHANGED <<table, made, fd, destroyed>>
Closing(o) ==
  /\ made[o] # "none"
  /\ \E op \in Ops, outcome \in Outcomes : Called(op, o, File(SysFd(o)), outcome)
  /\ CloseOwn(o)
  /\ UNCHANGED <<state, made, fd>>

States == {"none", "stream", "datagram", "listening", "connected", "ended"}

-----------------------------------------------------------------------------
(* What a call reaches *)

\* The file of a call, in general.
LEMMA Reached ==
  ASSUME Inv, NEW o \in Objects, made[o] # "none"
  PROVE  /\ File(SysFd(o)) \in Files \cup {None}
         /\ File(SysFd(o)) = stdin => made[o] = "accept()"
         /\ made[o] = "accept()" => SysFd(o) = 0
         /\ made[o] = "new" => SysFd(o) = fd[o]
<1>1. fd[o] \in Int /\ SysFd(o) \in Int /\ made[o] \in {"new", "accept()"}
  BY DEF Inv, TypeOK, Fds, Undefined, SysFd
<1>2. CASE made[o] = "new"
  <2>1. fd[o] \in Fds \cup {-1} /\ fd[o] # Undefined /\ SysFd(o) = fd[o]
    BY <1>2, SocketAssumption DEF Inv, FdInv, Fds, Undefined, SysFd
  <2>2. File(SysFd(o)) # stdin
    <3>1. SUFFICES ASSUME File(SysFd(o)) = stdin PROVE FALSE
      OBVIOUS
    <3>2. fd[o] \in Fds /\ table[fd[o]] = stdin
      BY <2>1, <3>1, SocketAssumption DEF File
    <3> QED BY <3>2 DEF Inv, FdInv
  <2> QED BY <1>2, <2>1, <2>2 DEF File, Inv, TypeOK
<1>3. CASE made[o] = "accept()"
  BY <1>3 DEF Inv, FdInv, TypeOK, SysFd, File
<1> QED BY <1>1, <1>2, <1>3

\* In a disciplined script it is that of the Socket itself, or none, or, for an
\* accepted Socket, standard input.
LEMMA ReachedOwn ==
  ASSUME Inv, NEW o \in Objects, made[o] # "none", Disciplined, o \notin destroyed
  PROVE  /\ made[o] = "new" => File(SysFd(o)) \in {o, None}
         /\ made[o] = "accept()" => File(SysFd(o)) = stdin
<1>1. 0 \in Fds
  BY SocketAssumption DEF Fds
<1>2. made[o] = "new" => File(SysFd(o)) \in {o, None}
  BY Reached DEF File, Inv, LiveOwn
<1>3. made[o] = "accept()" => File(SysFd(o)) = stdin
  BY <1>1, Reached DEF File, Disciplined
<1> QED BY <1>2, <1>3

\* A script that is disciplined has always been.
LEMMA WasDisciplined ==
  ASSUME Inv, stale' \in BOOLEAN, stale => stale',
         table'[0] = stdin => table[0] = stdin, Disciplined'
  PROVE  Disciplined
BY DEF Disciplined, Inv, TypeOK

-----------------------------------------------------------------------------
(* Steps *)

LEMMA PlainKeeps ==
  ASSUME Inv, NEW o \in Objects, Plain(o), state' \in [Objects -> States]
  PROVE  Inv'
<1>1. PICK op \in Ops, outcome \in Outcomes, f \in {File(SysFd(o)), None} :
        Called(op, o, f, outcome)
  BY DEF Plain
<1>2. /\ last' = [op |-> op, by |-> o, file |-> f, outcome |-> outcome]
      /\ stale' = (stale \/ o \in destroyed)
  BY <1>1 DEF Called
<1>3. f \in Files \cup {None} /\ made[o] # "none" /\ (f = stdin => made[o] = "accept()")
  BY Reached, SocketAssumption DEF Plain
<1>4. TypeOK'
  BY <1>2, <1>3 DEF Inv, TypeOK, Plain, Ops, Outcomes, States, Files
<1>5. FdInv'
  BY DEF Inv, FdInv, Plain
<1>6. StdinOnlyByAccepted'
  BY <1>2, <1>3 DEF StdinOnlyByAccepted, Plain
<1>7. ASSUME Disciplined' PROVE Disciplined /\ o \notin destroyed
  BY <1>2, <1>7 DEF Disciplined, Plain, Inv, TypeOK
<1>8. LiveOwn'
  BY <1>7 DEF Inv, LiveOwn, Plain
<1>9. AcceptedUnreachable'
  <2>1. SUFFICES ASSUME Disciplined', NEW p \in Objects, made[p] = "accept()"
                 PROVE  f # p
    BY <1>2, <1>7 DEF Inv, AcceptedUnreachable, Plain
  <2>2. f \in {o, None} \/ f = stdin
    BY <1>3, <1>7, <2>1, ReachedOwn DEF Inv, TypeOK
  <2>3. CASE made[o] = "new"
    BY <1>7, <2>1, <2>3, ReachedOwn, SocketAssumption
  <2>4. CASE made[o] = "accept()"
    BY <1>7, <2>1, <2>4, ReachedOwn, SocketAssumption
  <2> QED BY <1>3, <2>3, <2>4 DEF Inv, TypeOK
<1> QED BY <1>4, <1>5, <1>6, <1>8, <1>9 DEF Inv

LEMMA ClosingKeeps ==
  ASSUME Inv, NEW o \in Objects, Closing(o)
  PROVE  Inv'
<1>1. PICK op \in Ops, outcome \in Outcomes : Called(op, o, File(SysFd(o)), outcome)
  BY DEF Closing
<1> DEFINE f == File(SysFd(o))
<1>2. /\ last' = [op |-> op, by |-> o, file |-> f, outcome |-> outcome]
      /\ stale' = (stale \/ o \in destroyed)
  BY <1>1 DEF Called
<1>3. f \in Files \cup {None} /\ made[o] # "none" /\ (f = stdin => made[o] = "accept()")
  BY Reached DEF Closing
<1>4. /\ table' = [d \in Fds |-> IF d = SysFd(o) THEN None ELSE table[d]]
      /\ destroyed' = destroyed \cup {o}
      /\ state' = state /\ made' = made /\ fd' = fd
  BY DEF Closing, CloseOwn
<1> HIDE DEF f
<1>5. TypeOK'
  BY <1>2, <1>3, <1>4 DEF Inv, TypeOK, Ops, Outcomes, Files
<1>6. \A d \in Fds : table'[d] # None => table'[d] = table[d] /\ d # SysFd(o)
  BY <1>4
<1>7. FdInv'
  <2>1. 0 \in Fds
    BY SocketAssumption DEF Fds
  <2> QED BY <1>4, <1>6, <2>1, SocketAssumption DEF Inv, FdInv
<1>8. StdinOnlyByAccepted'
  BY <1>2, <1>3, <1>4 DEF StdinOnlyByAccepted
<1>9. ASSUME Disciplined'
      PROVE  Disciplined /\ o \notin destroyed /\ made[o] = "new" /\ SysFd(o) = fd[o]
  <2>1. table'[0] = stdin /\ 0 \in Fds /\ 0 # SysFd(o) /\ table[0] = stdin
    BY <1>6, <1>9, SocketAssumption DEF Disciplined, Fds
  <2> QED BY <1>2, <1>3, <1>9, <2>1, Reached DEF Disciplined, Inv, TypeOK
<1>10. LiveOwn'
  <2>1. SUFFICES ASSUME Disciplined', NEW p \in Objects, made[p] = "new", p \notin destroyed',
                        fd[p] \in Fds
                 PROVE  table'[fd[p]] = p
    BY <1>4 DEF LiveOwn
  <2>2. table[fd[p]] = p /\ p # o
    BY <1>4, <1>9, <2>1 DEF Inv, LiveOwn
  <2>3. fd[p] # SysFd(o)
    BY <1>9, <2>1, <2>2 DEF Inv, LiveOwn
  <2> QED BY <1>4, <2>1, <2>2, <2>3
<1>11. AcceptedUnreachable'
  <2>1. SUFFICES ASSUME Disciplined', NEW p \in Objects, made[p] = "accept()"
                 PROVE  f # p /\ \E d \in Fds : table'[d] = p
    BY <1>2, <1>4 DEF AcceptedUnreachable
  <2>2. f \in {o, None} /\ p # o
    BY <1>3, <1>9, <2>1, ReachedOwn DEF f
  <2>3. PICK d \in Fds : table[d] = p
    BY <1>9, <2>1 DEF Inv, AcceptedUnreachable
  <2>4. d # SysFd(o)
    BY <2>1, <2>2, <2>3, SocketAssumption DEF f, File
  <2> QED BY <1>4, <2>1, <2>2, <2>3, <2>4, SocketAssumption
<1> QED BY <1>5, <1>7, <1>8, <1>10, <1>11 DEF Inv

\* A new file on a free descriptor, for a Socket n, which has it or Undefined for fd.
LEMMA OpenedKeeps ==
  ASSUME Inv, NEW o \in Objects, NEW n \in Objects, made[n] = "none",
         NEW d \in Fds, IsLowestFree(d), table' = [table EXCEPT ![d] = n],
         \/ o = n /\ made' = [made EXCEPT ![n] = "new"] /\ fd' = [fd EXCEPT ![n] = d]
         \/ /\ made[o] # "none" /\ made' = [made EXCEPT ![n] = "accept()"]
            /\ fd' = [fd EXCEPT ![n] = Undefined],
         destroyed' = destroyed, state' \in [Objects -> States],
         NEW op \in Ops, NEW f \in {File(SysFd(o))} \cup ({n} \cap {o}), NEW outcome \in Outcomes,
         o = n => f = n,
         Called(op, o, f, outcome)
  PROVE  Inv'
<1>1. /\ last' = [op |-> op, by |-> o, file |-> f, outcome |-> outcome]
      /\ stale' = (stale \/ o \in destroyed)
  BY DEF Called
<1>2. table[d] = None /\ n # None /\ n # stdin /\ stdin # None
  BY SocketAssumption DEF IsLowestFree
<1>3. /\ table \in [Fds -> Files \cup {None}] /\ made \in [Objects -> {"none", "new", "accept()"}]
      /\ fd \in [Objects -> Fds \cup {-1, Undefined}]
      /\ \A e \in Fds : table'[e] = IF e = d THEN n ELSE table[e]
      /\ \A p \in Objects : p # n => made'[p] = made[p] /\ fd'[p] = fd[p]
  BY DEF Inv, TypeOK
<1>4. f \in Files \cup {None} /\ (f = stdin => made'[o] = "accept()")
  BY <1>2, <1>3, Reached DEF Files
<1>5. TypeOK'
  BY <1>1, <1>3, <1>4 DEF Inv, TypeOK, Ops, Outcomes, States, Files
<1>6. 0 \in Fds
  BY SocketAssumption DEF Fds
<1>7. FdInv'
  <2>1. \A p \in Objects : /\ made'[p] = "new" => fd'[p] \in Fds \cup {-1}
                           /\ made'[p] # "new" => fd'[p] = Undefined
    BY <1>3 DEF Inv, FdInv
  <2>2. \A e \in Fds : table'[e] = stdin => e = 0
    BY <1>2, <1>3 DEF Inv, FdInv
  <2>3. table'[0] = stdin => \A p \in Objects : fd'[p] # 0
    BY <1>2, <1>3, <1>6 DEF Inv, FdInv, Undefined
  <2> QED BY <2>1, <2>2, <2>3 DEF FdInv
<1>8. StdinOnlyByAccepted'
  BY <1>1, <1>4 DEF StdinOnlyByAccepted
<1>9. ASSUME Disciplined' PROVE Disciplined /\ o \notin destroyed
  BY <1>1, <1>2, <1>3, <1>6, <1>9 DEF Disciplined, Inv, TypeOK
<1>10. LiveOwn'
  <2>1. SUFFICES ASSUME Disciplined', NEW p \in Objects, made'[p] = "new", p \notin destroyed,
                        fd'[p] \in Fds
                 PROVE  table'[fd'[p]] = p
    BY DEF LiveOwn
  <2>2. CASE p = n
    BY <1>3, <2>1, <2>2
  <2>3. CASE p # n
    <3>1. table[fd[p]] = p /\ p # None
      BY <1>3, <1>9, <2>1, <2>3, SocketAssumption DEF Inv, LiveOwn
    <3> QED BY <1>2, <1>3, <2>1, <2>3, <3>1
  <2> QED BY <2>2, <2>3
<1>11. AcceptedUnreachable'
  <2>1. SUFFICES ASSUME Disciplined', NEW p \in Objects, made'[p] = "accept()"
                 PROVE  f # p /\ \E e \in Fds : table'[e] = p
    BY <1>1 DEF AcceptedUnreachable
  <2>2. f # p
    <3>1. CASE o = n
      BY <1>3, <2>1, <3>1
    <3>2. CASE o # n /\ made[o] = "new"
      BY <1>3, <1>9, <2>1, <3>2, ReachedOwn, SocketAssumption
    <3>3. CASE o # n /\ made[o] = "accept()"
      BY <1>9, <2>1, <3>3, ReachedOwn, SocketAssumption
    <3> QED BY <1>3, <3>1, <3>2, <3>3
  <2>3. CASE p = n
    BY <1>3, <2>2, <2>3
  <2>4. CASE p # n
    <3>1. PICK e \in Fds : table[e] = p
      BY <1>3, <1>9, <2>1, <2>4 DEF Inv, AcceptedUnreachable
    <3>2. e # d
      BY <1>2, <3>1, SocketAssumption
    <3> QED BY <1>3, <2>2, <3>1, <3>2
  <2> QED BY <2>3, <2>4
<1> QED BY <1>5, <1>7, <1>8, <1>10, <1>11 DEF Inv

\* socket() fails: the descriptor is -1.
LEMMA NotOpenedKeeps ==
  ASSUME Inv, NEW o \in Objects, made[o] = "none", made' = [made EXCEPT ![o] = "new"],
         fd' = [fd EXCEPT ![o] = -1], Called("new", o, None, "error"),
         UNCHANGED <<table, state, destroyed>>
  PROVE  Inv'
<1>1. /\ last' = [op |-> "new", by |-> o, file |-> None, outcome |-> "error"]
      /\ stale' = (stale \/ o \in destroyed)
  BY DEF Called
<1>2. /\ made \in [Objects -> {"none", "new", "accept()"}]
      /\ fd \in [Objects -> Fds \cup {-1, Undefined}]
      /\ \A p \in Objects : p # o => made'[p] = made[p] /\ fd'[p] = fd[p]
      /\ made'[o] = "new" /\ fd'[o] = -1 /\ -1 \notin Fds
  BY DEF Inv, TypeOK, Fds
<1>3. TypeOK'
  BY <1>1, <1>2 DEF Inv, TypeOK, Files
<1>4. FdInv'
  BY <1>2, SocketAssumption DEF Inv, FdInv, Fds
<1>5. StdinOnlyByAccepted'
  BY <1>1, SocketAssumption DEF StdinOnlyByAccepted
<1>6. ASSUME Disciplined' PROVE Disciplined
  BY <1>1, <1>6 DEF Disciplined, Inv, TypeOK
<1>7. LiveOwn'
  BY <1>2, <1>6 DEF Inv, LiveOwn
<1>8. AcceptedUnreachable'
  BY <1>1, <1>2, <1>6, SocketAssumption DEF Inv, AcceptedUnreachable
<1> QED BY <1>3, <1>4, <1>5, <1>7, <1>8 DEF Inv

-----------------------------------------------------------------------------
(* The actions *)

LEMMA StatesStay == Inv => state \in [Objects -> States]
BY DEF Inv, TypeOK, States

LEMMA NewStep ==
  ASSUME Inv, NEW o \in Objects, NEW proto \in Protocols, New(o, proto)
  PROVE  Inv'
<1>1. made[o] = "none" /\ made' = [made EXCEPT ![o] = "new"] /\ destroyed' = destroyed
  BY DEF New
<1>2. CASE fd' = [fd EXCEPT ![o] = -1] /\ Called("new", o, None, "error")
           /\ UNCHANGED <<table, state>>
  BY <1>1, <1>2, NotOpenedKeeps
<1>3. ASSUME NEW d \in Fds, NEW s \in States, IsLowestFree(d), table' = [table EXCEPT ![d] = o],
             fd' = [fd EXCEPT ![o] = d], state' = [state EXCEPT ![o] = s],
             Called("new", o, o, "some")
      PROVE  Inv'
  <2>1. state' \in [Objects -> States]
    BY <1>3, StatesStay
  <2>2. "new" \in Ops /\ "some" \in Outcomes
    BY DEF Ops, Outcomes
  <2> QED BY <1>1, <1>3, <2>1, <2>2, OpenedKeeps
<1>4. "datagram" \in States /\ "stream" \in States
  BY DEF States
<1> QED BY <1>2, <1>3, <1>4 DEF New

LEMMA AcceptStep ==
  ASSUME Inv, NEW o \in Objects, NEW n \in Objects, Accept(o, n)
  PROVE  Inv'
<1>1. PICK d \in Fds : IsLowestFree(d) /\ table' = [table EXCEPT ![d] = n]
  BY DEF Accept
<1>2. /\ made[o] # "none" /\ made[n] = "none" /\ o # n
      /\ fd' = [fd EXCEPT ![n] = Undefined] /\ made' = [made EXCEPT ![n] = "accept()"]
      /\ Called("accept", o, File(SysFd(o)), "some") /\ destroyed' = destroyed
  BY DEF Accept
<1>3. state' \in [Objects -> States]
  BY StatesStay DEF Accept, States
<1>4. "accept" \in Ops /\ "some" \in Outcomes
  BY DEF Ops, Outcomes
<1> QED BY <1>1, <1>2, <1>3, <1>4, OpenedKeeps

LEMMA PlainSteps ==
  ASSUME Inv, NEW o \in Objects,
         Connect(o) \/ Bind(o) \/ Listen(o) \/ AcceptFails(o) \/ Write(o) \/ Datagram(o)
  PROVE  Plain(o) /\ state' \in [Objects -> States]
<1>1. state \in [Objects -> States] /\ \A f : StateOf(f) # "none" => f \in Objects
  BY StatesStay DEF StateOf
<1>2. ASSUME NEW op \in Ops, Throws(op, o), made[o] # "none"
      PROVE  Plain(o) /\ state' \in [Objects -> States]
  BY <1>1, <1>2 DEF Throws, Plain, Outcomes
<1>3. CASE Connect(o)
  <2>1. "connect" \in Ops /\ {"zero", "error"} \subseteq Outcomes
    BY DEF Ops, Outcomes
  <2>2. CASE made[o] = "accept()" /\ Throws("connect", o)
    BY <1>2, <2>1, <2>2
  <2>3. CASE made[o] = "new"
    <3>1. state' \in [Objects -> States]
      BY <1>1, <1>3, <2>3 DEF Connect, States, Throws
    <3> QED BY <1>3, <2>1, <2>3, <3>1 DEF Connect, Plain
  <2> QED BY <1>3, <2>2, <2>3 DEF Connect
<1>4. CASE Bind(o)
  <2>1. "bind" \in Ops /\ {"zero", "error"} \subseteq Outcomes
    BY DEF Ops, Outcomes
  <2>2. CASE made[o] = "accept()" /\ Throws("bind", o)
    BY <1>2, <2>1, <2>2
  <2> QED BY <1>1, <1>4, <2>1, <2>2 DEF Bind, Plain
<1>5. CASE Listen(o)
  <2>1. "listen" \in Ops /\ {"zero", "error"} \subseteq Outcomes
    BY DEF Ops, Outcomes
  <2>2. state' \in [Objects -> States]
    BY <1>1, <1>5 DEF Listen, States
  <2> QED BY <1>5, <2>1, <2>2 DEF Listen, Plain
<1>6. CASE AcceptFails(o)
  BY <1>1, <1>6 DEF AcceptFails, Plain, Ops, Outcomes
<1>7. CASE Write(o)
  <2>1. "write" \in Ops /\ {"some", "error"} \subseteq Outcomes
    BY DEF Ops, Outcomes
  <2> QED BY <1>1, <1>7, <2>1 DEF Write, Plain
<1>8. CASE Datagram(o)
  <2>1. "datagram" \in Ops /\ {"some", "error"} \subseteq Outcomes
    BY DEF Ops, Outcomes
  <2>2. CASE made[o] = "accept()" /\ Throws("datagram", o)
    BY <1>2, <2>1, <2>2
  <2> QED BY <1>1, <1>8, <2>1, <2>2 DEF Datagram, Plain
<1> QED BY <1>3, <1>4, <1>5, <1>6, <1>7, <1>8

LEMMA ReadStep ==
  ASSUME Inv, NEW o \in Objects, NEW empty \in BOOLEAN, Read(o, empty)
  PROVE  Inv'
<1>1. PICK outcome \in ReadOutcomes(File(SysFd(o)), empty) :
        /\ Called(IF empty THEN "read()" ELSE "read", o, File(SysFd(o)), outcome)
        /\ IF Closes(outcome) THEN CloseOwn(o) ELSE UNCHANGED <<table, destroyed>>
  BY DEF Read
<1>2. outcome \in Outcomes /\ (IF empty THEN "read()" ELSE "read") \in Ops
  BY DEF ReadOutcomes, Outcomes, Ops
<1>3. made[o] # "none" /\ UNCHANGED <<state, made, fd>>
  BY DEF Read
<1>4. CASE Closes(outcome)
  BY <1>1, <1>2, <1>3, <1>4, ClosingKeeps DEF Closing
<1>5. CASE ~Closes(outcome)
  BY <1>1, <1>2, <1>3, <1>5, PlainKeeps, StatesStay DEF Plain
<1> QED BY <1>4, <1>5

LEMMA CloseStep ==
  ASSUME Inv, NEW o \in Objects, Close(o)
  PROVE  Inv'
BY ClosingKeeps DEF Close, Closing, Ops, Outcomes

LEMMA PeerEndsStep ==
  ASSUME Inv, NEW o \in Objects, PeerEnds(o)
  PROVE  Inv'
<1>1. state' \in [Objects -> States]
  BY StatesStay DEF PeerEnds, States
<1>2. UNCHANGED <<table, made, fd, destroyed, last, stale>>
  BY DEF PeerEnds
<1> QED BY <1>1, <1>2 DEF Inv, TypeOK, FdInv, StdinOnlyByAccepted, LiveOwn, AcceptedUnreachable,
                          Disciplined, States

LEMMA InitInv == Init => Inv
<1> SUFFICES ASSUME Init PROVE Inv
  OBVIOUS
<1>1. TypeOK
  BY SocketAssumption DEF Init, TypeOK, Files, Fds
<1>2. FdInv
  BY SocketAssumption DEF Init, FdInv, Fds, Undefined
<1>3. StdinOnlyByAccepted /\ LiveOwn /\ AcceptedUnreachable
  BY SocketAssumption DEF Init, StdinOnlyByAccepted, LiveOwn, AcceptedUnreachable
<1> QED BY <1>1, <1>2, <1>3 DEF Inv

LEMMA NextInv == Inv /\ [Next]_vars => Inv'
<1> SUFFICES ASSUME Inv, [Next]_vars PROVE Inv'
  OBVIOUS
<1>1. CASE UNCHANGED vars
  BY <1>1 DEF vars, Inv, TypeOK, FdInv, StdinOnlyByAccepted, LiveOwn, AcceptedUnreachable,
              Disciplined
<1>2. ASSUME NEW o \in Objects, NEW proto \in Protocols, New(o, proto) PROVE Inv'
  BY <1>2, NewStep
<1>3. ASSUME NEW o \in Objects, NEW n \in Objects, Accept(o, n) PROVE Inv'
  BY <1>3, AcceptStep
<1>4. ASSUME NEW o \in Objects, NEW empty \in BOOLEAN, Read(o, empty) PROVE Inv'
  BY <1>4, ReadStep
<1>5. ASSUME NEW o \in Objects,
             Connect(o) \/ Bind(o) \/ Listen(o) \/ AcceptFails(o) \/ Write(o) \/ Datagram(o)
      PROVE  Inv'
  BY <1>5, PlainSteps, PlainKeeps
<1>6. ASSUME NEW o \in Objects, Close(o) \/ PeerEnds(o) PROVE Inv'
  BY <1>6, CloseStep, PeerEndsStep
<1> QED BY <1>1, <1>2, <1>3, <1>4, <1>5, <1>6 DEF Next

LEMMA SpecInv == Spec => []Inv
BY InitInv, NextInv, PTL DEF Spec

-----------------------------------------------------------------------------
(* Theorems *)

\* The state has its types in every reachable state.
THEOREM TypeCorrect == Spec => []TypeOK
BY SpecInv, PTL DEF Inv

\* Only accepted Sockets reach standard input.
THEOREM StdinSafe == Spec => []StdinOnlyByAccepted
BY SpecInv, PTL DEF Inv

\* A live Socket of a disciplined script keeps its own descriptor.
THEOREM LiveSocketsOwn == Spec => []LiveOwn
BY SpecInv, PTL DEF Inv

\* No call of a disciplined script reaches an accepted connection.
THEOREM AcceptedLost == Spec => []AcceptedUnreachable
BY SpecInv, PTL DEF Inv

LEMMA ReadCloses ==
  ASSUME Inv, NEW o \in Objects, NEW empty \in BOOLEAN, Read(o, empty),
         destroyed' # destroyed \/ table' # table
  PROVE  \/ last'.op = "read()" /\ last'.file # None
         \/ last'.file = stdin
         \/ last'.file \in Objects /\ state[last'.file] \in {"ended", "datagram"}
<1> DEFINE f == File(SysFd(o))
<1>1. PICK outcome \in ReadOutcomes(f, empty) :
        /\ Called(IF empty THEN "read()" ELSE "read", o, f, outcome)
        /\ IF Closes(outcome) THEN CloseOwn(o) ELSE UNCHANGED <<table, destroyed>>
  BY DEF Read
<1>2. outcome = "zero" /\ last'.file = f
      /\ last'.op = IF empty THEN "read()" ELSE "read"
  BY <1>1 DEF Closes, Called
<1> HIDE DEF f
<1>3. f # None /\ (empty \/ f = stdin \/ StateOf(f) \in {"ended", "datagram"})
  BY <1>1, <1>2 DEF ReadOutcomes
<1>4. StateOf(f) \in {"ended", "datagram"} => f \in Objects /\ state[f] = StateOf(f)
  BY DEF StateOf
<1> QED BY <1>2, <1>3, <1>4

\* A read() destroys its Socket only for no byte or at an end, never for an error.
THEOREM ReadsDestroyAtEnd == Spec => ReadDestroysAtEnd
<1> DEFINE Destroys == last'.op \in {"read", "read()"} /\ (destroyed' # destroyed \/ table' # table)
           AtEnd == \/ last'.op = "read()" /\ last'.file # None
                    \/ last'.file = stdin
                    \/ last'.file \in Objects /\ state[last'.file] \in {"ended", "datagram"}
<1>1. ASSUME Inv, [Next]_vars, Destroys PROVE AtEnd
  <2>1. CASE UNCHANGED vars
    BY <1>1, <2>1 DEF vars
  <2>2. ASSUME NEW o \in Objects, NEW empty \in BOOLEAN, Read(o, empty) PROVE AtEnd
    BY <1>1, <2>2, ReadCloses
  <2>3. ASSUME NEW o \in Objects, NEW proto \in Protocols, New(o, proto) PROVE FALSE
    BY <1>1, <2>3 DEF New, Called
  <2>4. ASSUME NEW o \in Objects, NEW n \in Objects, Accept(o, n) PROVE FALSE
    BY <1>1, <2>4 DEF Accept, Called
  <2>5. ASSUME NEW o \in Objects, Close(o) PROVE FALSE
    BY <1>1, <2>5 DEF Close, Called
  <2>6. ASSUME NEW o \in Objects,
               Connect(o) \/ Bind(o) \/ Listen(o) \/ AcceptFails(o) \/ Write(o) \/ Datagram(o)
                 \/ PeerEnds(o)
        PROVE  FALSE
    <3>1. UNCHANGED <<table, destroyed>>
      BY <2>6 DEF Connect, Bind, Listen, AcceptFails, Write, Datagram, PeerEnds, Throws
    <3> QED BY <1>1, <3>1
  <2> QED BY <1>1, <2>1, <2>2, <2>3, <2>4, <2>5, <2>6 DEF Next
<1> QED BY <1>1, SpecInv, PTL DEF Spec, ReadDestroysAtEnd
=============================================================================
